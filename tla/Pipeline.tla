------------------------------ MODULE Pipeline ------------------------------
(***************************************************************************)
(* A FanIn whose output channel is the input channel of a FanOut: the two  *)
(* goroutine families of chanutil/chainutil.go on one unbuffered channel.  *)
(* A value changes hands when fanInRoutine sends and fanOutRoutine         *)
(* receives; closing fi.out ends the loop of fanOutRoutine.                *)
(***************************************************************************)
EXTENDS FanIn

CONSTANTS
  Outputs,      \* the output channels of the FanOut
  WithContext   \* the ones made by OutputContext

VARIABLES fan, left, out, ctx, quit, seen, joined, got

FO == INSTANCE FanOut WITH inClosed <- closed,
                           Values <- Inputs \X (1..MaxValues)

outVars == <<fan, left, out, ctx, quit, seen, joined, got>>
pipeVars == <<fiVars, outVars>>

PipeInit == FIInit /\ FO!FOInit

PassOn(i) == Deliver(i) /\ FO!Receive(Value(i, n[i]))

PipeNext ==
  /\ Alive
  /\ \/ FIStep /\ UNCHANGED outVars
     \/ FO!FOStep /\ UNCHANGED fiVars
     \/ \E i \in Inputs : PassOn(i)

(***************************************************************************)
(* All goroutines are scheduled, and consumers that have not quit read.    *)
(* Nobody owes inputs, values, closings or cancellations.                  *)
(***************************************************************************)
PipeFairness ==
  /\ \A i \in Inputs : WF_pipeVars(Alive /\ Done(i) /\ UNCHANGED outVars)
  /\ \A c \in Closers :
       WF_pipeVars(Alive /\ (Wait(c) \/ Close(c)) /\ UNCHANGED outVars)
  /\ \A i \in Inputs : WF_pipeVars(Alive /\ PassOn(i))
  /\ WF_pipeVars(Alive /\ FO!Routine /\ UNCHANGED fiVars)
  /\ \A o \in Outputs : WF_pipeVars(Alive /\ FO!CloseOnDone(o) /\ UNCHANGED fiVars)

PipeSpec == PipeInit /\ [][PipeNext]_pipeVars /\ PipeFairness

PipeTypeOK == FITypeOK /\ FO!FOTypeOK

(***************************************************************************)
(* The channel between them loses, repeats and reorders nothing, and the   *)
(* outputs stay in step behind it.                                         *)
(***************************************************************************)
InStep == seen = merged /\ FO!InStep

(***************************************************************************)
(* OutputContext: "The channel is closed when the given context is         *)
(* canceled", provided that every consumer goes on reading: one that does  *)
(* not blocks fanOutRoutine, which holds the lock that closeRoutine needs. *)
(* (A late Input can end the process, see ClosedAfterAll.)                 *)
(***************************************************************************)
CancelClosesOutput ==
  \A o \in WithContext :
    ctx[o] = "done" ~> (out[o] = "closed" \/ quit # {} \/ ~Alive)

(***************************************************************************)
(* From one end to the other: when somebody waits and every input that was *)
(* added is closed, the fan-in closes the channel between, fanOutRoutine   *)
(* ends and all outputs are closed, unless a consumer stops reading or an  *)
(* input is added that is not closed.                                      *)
(***************************************************************************)
EndToEnd ==
  LET Ended == \A i \in Inputs : routine[i] # "off" => i \in inputs
  IN  (Ended /\ \E c \in Closers : closer[c] = "wait")
        ~> \/ fan = "done" /\ \A o \in Outputs : out[o] # "open"
           \/ quit # {}
           \/ ~Ended
=============================================================================
