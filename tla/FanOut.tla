------------------------------- MODULE FanOut -------------------------------
(***************************************************************************)
(* FanOut of chanutil/chainutil.go: fanOutRoutine sends every value of the *)
(* input channel to all output channels of that moment, holding fo.mu, and *)
(* closes them when the input is closed.  OutputContext adds an output,    *)
(* Close removes one, and so does the end of the context it was made with. *)
(* The consumers read concurrently; a consumer may stop reading.           *)
(***************************************************************************)
EXTENDS Naturals, Sequences

CONSTANTS
  Outputs,      \* the output channels
  WithContext,  \* the outputs made by OutputContext, not by Output
  Values        \* what the input carries

VARIABLES
  inClosed,  \* the input channel is closed
  fan,       \* fanOutRoutine: "recv", "lock", "send", "final", "done"
  left,      \* the outputs that the current round has still to serve
  out,       \* each output: "new", "open" (a key of fo.out), "closed"
  ctx,       \* the context of each output: "none", "live", "done"
  quit,      \* the outputs whose consumer has stopped reading
  seen,      \* history: what fanOutRoutine has received
  joined,    \* history: how many values came before an output was added
  got        \* history: what each consumer has received

FOTypeOK ==
  /\ fan \in {"recv", "lock", "send", "final", "done"}
  /\ left \subseteq Outputs
  /\ out \in [Outputs -> {"new", "open", "closed"}]
  /\ ctx \in [Outputs -> {"none", "live", "done"}]
  /\ quit \subseteq Outputs
  /\ seen \in Seq(Values)
  /\ joined \in [Outputs -> Nat]
  /\ got \in [Outputs -> Seq(Values)]

FOInit ==
  /\ fan = "recv"
  /\ left = {}
  /\ out = [o \in Outputs |-> "new"]
  /\ ctx = [o \in Outputs |-> "none"]
  /\ quit = {}
  /\ seen = <<>>
  /\ joined = [o \in Outputs |-> 0]
  /\ got = [o \in Outputs |-> <<>>]

\* fanOutRoutine holds fo.mu from the lock to the end of a round; everybody
\* else holds it for one step.
Free == fan # "send"

Open == {o \in Outputs : out[o] = "open"}

-----------------------------------------------------------------------------
\* Output and OutputContext; a context that is already done is
\* one that ends before anything else happens.  Once fo.in is nil the channel
\* is closed at once and nobody waits for the context.
Output(o) ==
  /\ Free
  /\ out[o] = "new"
  /\ IF fan = "done"
     THEN /\ out' = [out EXCEPT ![o] = "closed"]
          /\ UNCHANGED ctx
     ELSE /\ out' = [out EXCEPT ![o] = "open"]
          /\ ctx' = [ctx EXCEPT ![o] = IF o \in WithContext THEN "live" ELSE "none"]
  /\ joined' = [joined EXCEPT ![o] = IF fan = "lock" THEN Len(seen) - 1 ELSE Len(seen)]
  /\ UNCHANGED <<fan, left, quit, seen, got>>

\* Close(ch), called by anybody; of a closed output it does nothing.
Close(o) ==
  /\ Free
  /\ out[o] = "open"
  /\ out' = [out EXCEPT ![o] = "closed"]
  /\ UNCHANGED <<fan, left, ctx, quit, seen, joined, got>>

\* The context of an output ends; for a closed output it makes no difference.
Cancel(o) ==
  /\ out[o] = "open"
  /\ ctx[o] = "live"
  /\ ctx' = [ctx EXCEPT ![o] = "done"]
  /\ UNCHANGED <<fan, left, out, quit, seen, joined, got>>

\* Mutant: closeRoutine uses TryLock and gives up if it fails.
CloseOnDoneTry(o) ==
  /\ ctx[o] = "done"
  /\ \/ Close(o)
     \/ /\ ~Free
        /\ ctx' = [ctx EXCEPT ![o] = "none"]
        /\ UNCHANGED <<fan, left, out, quit, seen, joined, got>>

\* closeRoutine.
CloseOnDone(o) ==
  /\ ctx[o] = "done"
  /\ Close(o)

\* The consumer of o stops reading; nothing tells the FanOut.
Quit(o) ==
  /\ out[o] = "open"
  /\ o \notin quit
  /\ quit' = quit \cup {o}
  /\ UNCHANGED <<fan, left, out, ctx, seen, joined, got>>

-----------------------------------------------------------------------------
\* for v := range fo.in: a value.
Receive(v) ==
  /\ fan = "recv"
  /\ ~inClosed
  /\ seen' = Append(seen, v)
  /\ fan' = "lock"
  /\ UNCHANGED <<left, out, ctx, quit, joined, got>>

\* fo.mu.Lock: a round for the outputs there are now.
Round ==
  /\ fan = "lock"
  /\ left' = Open
  /\ fan' = IF left' = {} THEN "recv" ELSE "send"
  /\ UNCHANGED <<out, ctx, quit, seen, joined, got>>

\* Mutant: a consumer that is not ready misses the value.
SendOrDrop(o) ==
  /\ fan = "send"
  /\ o \in left
  /\ got' \in {got, [got EXCEPT ![o] = Append(@, seen[Len(seen)])]}
  /\ left' = left \ {o}
  /\ fan' = IF left' = {} THEN "recv" ELSE "send"
  /\ UNCHANGED <<out, ctx, quit, seen, joined>>

\* ch <- v meets the consumer of o; the order of a round is arbitrary.
Send(o) ==
  /\ fan = "send"
  /\ o \in left
  /\ o \notin quit
  /\ got' = [got EXCEPT ![o] = Append(@, seen[Len(seen)])]
  /\ left' = left \ {o}
  /\ fan' = IF left' = {} THEN "recv" ELSE "send"
  /\ UNCHANGED <<out, ctx, quit, seen, joined>>

\* for v := range fo.in: closed.
InputEnds ==
  /\ fan = "recv"
  /\ inClosed
  /\ fan' = "final"
  /\ UNCHANGED <<left, out, ctx, quit, seen, joined, got>>

\* Mutant: outputs with a context are left to their closeRoutine.
FinalWithoutContext ==
  /\ fan = "final"
  /\ out' = [o \in Outputs |-> IF out[o] = "open" /\ ctx[o] = "none" THEN "closed"
                                                                   ELSE out[o]]
  /\ fan' = "done"
  /\ UNCHANGED <<left, ctx, quit, seen, joined, got>>

\* Under fo.mu: close all outputs, forget the input.
Final ==
  /\ fan = "final"
  /\ out' = [o \in Outputs |-> IF out[o] = "open" THEN "closed" ELSE out[o]]
  /\ fan' = "done"
  /\ UNCHANGED <<left, ctx, quit, seen, joined, got>>

-----------------------------------------------------------------------------
Routine == Round \/ (\E o \in Outputs : Send(o)) \/ InputEnds \/ Final

\* Every step but Receive, which needs a sender.
FOStep ==
  \/ \E o \in Outputs : Output(o)
  \/ \E o \in Outputs : Close(o)
  \/ \E o \in Outputs : Cancel(o)
  \/ \E o \in Outputs : CloseOnDone(o)
  \/ \E o \in Outputs : Quit(o)
  \/ Routine

-----------------------------------------------------------------------------
\* Whether o has still to be sent the last value of seen.
Pending(o) == fan = "lock" \/ (fan = "send" /\ o \in left)

(***************************************************************************)
(* All outputs are in step: each one carries exactly the values received   *)
(* since it was added, in their order, up to the one being distributed,    *)
(* whichever outputs come, go or stop reading meanwhile; an output that    *)
(* was closed early carries an unbroken beginning of them.                 *)
(***************************************************************************)
InStep ==
  \A o \in Outputs :
    /\ \A k \in 1 .. Len(got[o]) : got[o][k] = seen[joined[o] + k]
    /\ out[o] = "open" =>
         joined[o] + Len(got[o]) = Len(seen) - (IF Pending(o) THEN 1 ELSE 0)
=============================================================================
