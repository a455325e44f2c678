--------------------------- MODULE ServiceContract ---------------------------
(***************************************************************************)
(* What supervisor.Service promises to whoever watches it: Start is        *)
(* called once and either succeeds or fails; Wait() returns a channel that *)
(* is open while the service works, on which errors may be handed over,    *)
(* and that is closed once the work has stopped.  Supervisor, Reloader and *)
(* the chain logger (LogServices) are Services that are built from         *)
(* Services; each is shown to implement this specification.                *)
(***************************************************************************)
EXTENDS Naturals

VARIABLES
  phase,    \* what Start has done so far: "new", "running", "failed"
  waitCh,   \* the channel returned by Wait(): "open" or "closed"
  busy,     \* some goroutine that belongs to the service is still working
  handed    \* how many errors were received from waitCh

vars == <<phase, waitCh, busy, handed>>

TypeOK ==
  /\ phase \in {"new", "running", "failed"}
  /\ waitCh \in {"open", "closed"}
  /\ busy \in BOOLEAN
  /\ handed \in Nat

Init ==
  /\ phase = "new"
  /\ waitCh = "open"
  /\ busy = FALSE
  /\ handed = 0

(***************************************************************************)
(* Start returns nil, or an error.  A service whose Start failed owes the  *)
(* watcher nothing more: it may close the channel at once (Supervisor) or  *)
(* leave it open for ever (HTTPServer), and it begins no further work.     *)
(***************************************************************************)
Start ==
  /\ phase = "new"
  /\ phase' = "running"
  /\ UNCHANGED <<waitCh, busy, handed>>

StartFails ==
  /\ phase = "new"
  /\ phase' = "failed"
  /\ waitCh' \in {"open", "closed"}
  /\ busy' \in BOOLEAN
  /\ busy' => busy
  /\ UNCHANGED handed

\* Work begins, pauses or ends; it never begins behind a closed channel.
Work ==
  /\ busy' = ~busy
  /\ busy' => waitCh = "open"
  /\ UNCHANGED <<phase, waitCh, handed>>

\* The watcher receives an error.
Hand ==
  /\ phase = "running"
  /\ waitCh = "open"
  /\ handed' = handed + 1
  /\ UNCHANGED <<phase, waitCh, busy>>

\* "When the service is stopped, the channel will be closed."
Close ==
  /\ phase = "running"
  /\ waitCh = "open"
  /\ ~busy
  /\ waitCh' = "closed"
  /\ UNCHANGED <<phase, busy, handed>>

Next == Start \/ StartFails \/ Work \/ Hand \/ Close

Spec == Init /\ [][Next]_vars
=============================================================================
