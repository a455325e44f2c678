-------------------------------- MODULE FanIn --------------------------------
(***************************************************************************)
(* FanIn of chanutil/chainutil.go: a goroutine per input channel copies    *)
(* its values to one output channel, which is closed by Close, called by   *)
(* whoever waited for the inputs: the goroutine of AutoClose, or the       *)
(* application after Wait.  All channels are unbuffered.  Input, Wait,     *)
(* Close and AutoClose may be called concurrently.                         *)
(***************************************************************************)
EXTENDS Naturals, Sequences

CONSTANTS
  Inputs,     \* the input channels
  Closers,    \* the goroutines that call Wait and then Close
  MaxValues,  \* bound: how many values are sent to one input
  MaxMerged   \* bound: no more is sent once this many values were delivered

ASSUME ValuesAssumption == MaxValues \in Nat /\ MaxMerged \in Nat

VARIABLES
  n,        \* how many values each input was sent
  inputs,   \* the inputs whose sender has closed them
  routine,  \* fanInRoutine of each input: "off", "recv", "send", "done", "panicked"
  closer,   \* each closer: "off", "wait", "close", "done"
  closed,   \* fi.closed, and whether fi.out is closed
  late,     \* history: Input was called when a closer was no longer waiting
  merged    \* history: what was received from fi.out

fiVars == <<n, inputs, routine, closer, closed, late, merged>>

\* The k-th value of an input.
Value(i, k) == <<i, k>>

FITypeOK ==
  /\ n \in [Inputs -> 0..MaxValues]
  /\ inputs \subseteq Inputs
  /\ routine \in [Inputs -> {"off", "recv", "send", "done", "panicked"}]
  /\ closer \in [Closers -> {"off", "wait", "close", "done"}]
  /\ closed \in BOOLEAN
  /\ late \in BOOLEAN
  /\ merged \in Seq(Inputs \X (1..MaxValues))

FIInit ==
  /\ n = [i \in Inputs |-> 0]
  /\ inputs = {}
  /\ routine = [i \in Inputs |-> "off"]
  /\ closer = [c \in Closers |-> "off"]
  /\ closed = FALSE
  /\ late = FALSE
  /\ merged = <<>>

\* fi.wg counts the goroutines between wg.Add and wg.Done.
Counted(i) == routine[i] \in {"recv", "send"}

\* A panic in a goroutine ends the process.
Alive == \A i \in Inputs : routine[i] # "panicked"

-----------------------------------------------------------------------------
\* The sender of an input closes it; before Input, it makes no difference.
CloseInput(i) ==
  /\ routine[i] # "off"
  /\ i \notin inputs
  /\ inputs' = inputs \cup {i}
  /\ UNCHANGED <<n, routine, closer, closed, late, merged>>

\* Input; of a closed fan-in, it panics in the caller and changes nothing.
Input(i) ==
  /\ ~closed
  /\ routine[i] = "off"
  /\ routine' = [routine EXCEPT ![i] = "recv"]
  /\ late' = (late \/ \E c \in Closers : closer[c] \in {"close", "done"})
  /\ UNCHANGED <<n, inputs, closer, closed, merged>>

\* AutoClose, or the application: "only after at least one input channel has
\* been added".  once.Do makes the second AutoClose do nothing.
BeginWait(c) ==
  /\ closer[c] = "off"
  /\ \E i \in Inputs : routine[i] # "off"
  /\ closer' = [closer EXCEPT ![c] = "wait"]
  /\ UNCHANGED <<n, inputs, routine, closed, late, merged>>

\* Mutant: one goroutine fewer is waited for.
WaitForSome(c) ==
  /\ closer[c] = "wait"
  /\ \E j \in Inputs : \A i \in Inputs \ {j} : ~Counted(i)
  /\ closer' = [closer EXCEPT ![c] = "close"]
  /\ UNCHANGED <<n, inputs, routine, closed, late, merged>>

\* Wait returns.
Wait(c) ==
  /\ closer[c] = "wait"
  /\ \A i \in Inputs : ~Counted(i)
  /\ closer' = [closer EXCEPT ![c] = "close"]
  /\ UNCHANGED <<n, inputs, routine, closed, late, merged>>

\* Close; of a closed fan-in, it does nothing.
Close(c) ==
  /\ closer[c] = "close"
  /\ closed' = TRUE
  /\ closer' = [closer EXCEPT ![c] = "done"]
  /\ UNCHANGED <<n, inputs, routine, late, merged>>

-----------------------------------------------------------------------------
\* for v := range ch: a value.
ReceiveFrom(i) ==
  /\ routine[i] = "recv"
  /\ i \notin inputs
  /\ n[i] < MaxValues /\ Len(merged) < MaxMerged
  /\ n' = [n EXCEPT ![i] = @ + 1]
  /\ routine' = [routine EXCEPT ![i] = "send"]
  /\ UNCHANGED <<inputs, closer, closed, late, merged>>

\* for v := range ch: closed; wg.Done.
Done(i) ==
  /\ routine[i] = "recv"
  /\ i \in inputs
  /\ routine' = [routine EXCEPT ![i] = "done"]
  /\ UNCHANGED <<n, inputs, closer, closed, late, merged>>

\* Mutant: the value is given up when the input is closed meanwhile.
DeliverUnlessClosed(i) ==
  /\ routine[i] = "send"
  /\ ~closed
  /\ merged' = IF i \in inputs THEN merged ELSE Append(merged, Value(i, n[i]))
  /\ routine' = [routine EXCEPT ![i] = "recv"]
  /\ UNCHANGED <<n, inputs, closer, closed, late>>

\* fi.out <- v meets a receive.
Deliver(i) ==
  /\ routine[i] = "send"
  /\ ~closed
  /\ merged' = Append(merged, Value(i, n[i]))
  /\ routine' = [routine EXCEPT ![i] = "recv"]
  /\ UNCHANGED <<n, inputs, closer, closed, late>>

\* fi.out <- v on a closed channel panics.
SendPanics(i) ==
  /\ routine[i] = "send"
  /\ closed
  /\ routine' = [routine EXCEPT ![i] = "panicked"]
  /\ UNCHANGED <<n, inputs, closer, closed, late, merged>>

-----------------------------------------------------------------------------
\* Every step but Deliver, which needs a receiver.
FIStep ==
  \/ \E i \in Inputs : CloseInput(i)
  \/ \E i \in Inputs : Input(i)
  \/ \E i \in Inputs : ReceiveFrom(i)
  \/ \E i \in Inputs : Done(i)
  \/ \E i \in Inputs : SendPanics(i)
  \/ \E c \in Closers : BeginWait(c)
  \/ \E c \in Closers : Wait(c)
  \/ \E c \in Closers : Close(c)

-----------------------------------------------------------------------------
(***************************************************************************)
(* As long as Input is not called when a closer has already passed Wait,   *)
(* the output channel is closed only after every goroutine has delivered   *)
(* its last value and ended, so none of them sends on a closed channel and *)
(* the process does not panic, however many closers there are.             *)
(***************************************************************************)
ClosedAfterAll ==
  ~late => /\ Alive
           /\ closed => \A i \in Inputs : routine[i] \in {"off", "done"}

(***************************************************************************)
(* The output carries every value of every input once, and the values of   *)
(* one input in their order; a value is missing only while its goroutine   *)
(* is sending it.                                                          *)
(***************************************************************************)
MergedOnce ==
  \A i \in Inputs :
    LET sending == routine[i] \in {"send", "panicked"}
        own == {p \in DOMAIN merged : merged[p][1] = i}
    IN  /\ {merged[p][2] : p \in own} = 1 .. (IF sending THEN n[i] - 1 ELSE n[i])
        /\ \A p, q \in own : p < q => merged[p][2] < merged[q][2]
=============================================================================
