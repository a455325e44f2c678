--------------------------- MODULE ReloaderProofs ---------------------------
(***************************************************************************)
(* Proofs about the Reloader for any set of services and any number of     *)
(* values they send: which services it may leave behind, and that it       *)
(* implements the Service interface.                                       *)
(***************************************************************************)
EXTENDS Reloader, TLAPS

Ended == {"exit", "report", "close", "done", "panicked"}

\* The goroutines run only after Start; Wait() is closed by the last step;
\* a value that is being sent counts.
Control ==
  /\ start = "idle" <=> rel = "off"
  /\ start = "idle" => cur = Dummy /\ \A s \in All : svc[s] = "new"
  /\ waitCh = "closed" <=> rel = "done"
  /\ rel = "report" => serviceErr # {}
  /\ \A s \in All : svc[s] = "sending" => sends[s] > 0

\* A service that was cancelled and has handed over a value.
Spoken(s) == s \in stopped /\ Received(s) > 0

\* Only the current service can work without having spoken, and it has
\* spoken or stopped when reloadService is about to replace it.
OneCurrent ==
  /\ \A s \in All : Active(s) /\ s # cur => Spoken(s)
  /\ rel = "await" => cur \in stopped
  /\ rel = "swap" /\ Active(cur) => Spoken(cur)

\* While the factory keeps its channel open, serviceReloaderRoutine has no
\* way out before the current service has spoken or stopped; on its way out
\* it cancels the service.
Waits ==
  /\ rel \in Ended /\ Active(cur) => chClosed \/ Received(cur) > 0
  /\ rel \in {"report", "close", "done"} => cur \in stopped

IInv == TypeOK /\ Control /\ OneCurrent /\ Waits

-----------------------------------------------------------------------------
(***************************************************************************)
(* IInv holds initially.                                                   *)
(***************************************************************************)
LEMMA InitIInv == Init => IInv
<1> SUFFICES ASSUME Init PROVE IInv
  OBVIOUS
<1>1. TypeOK
  <2>1. Dummy \in All /\ <<>> \in Seq((SUBSET Errors) \ {{}})
    BY DEF All
  <2> QED
    BY <2>1 DEF Init, TypeOK, SvcStates, FactoryStates, RelStates
<1>2. Control /\ OneCurrent /\ Waits
  BY DEF Init, Control, OneCurrent, Waits, Active, Ended
<1> QED
  BY <1>1, <1>2 DEF IInv

(***************************************************************************)
(* A step that leaves the services, the routine and its results alone      *)
(* keeps IInv: the steps of the factory and of the context.                *)
(***************************************************************************)
LEMMA Frame ==
  ASSUME IInv, TypeOK',
         UNCHANGED <<start, rel, cur, svcVars, waitCh>>,
         serviceErr \subseteq serviceErr',
         stopped \subseteq stopped',
         chClosed => chClosed'
  PROVE  IInv'
<1>1. \A s \in All : (Active(s)' <=> Active(s)) /\ Received(s)' = Received(s)
  BY DEF Active, Received, svcVars
<1>2. Control'
  BY DEF IInv, Control, svcVars
<1>3. OneCurrent' /\ Waits'
  BY <1>1 DEF IInv, OneCurrent, Waits, Spoken, TypeOK
<1> QED
  BY <1>2, <1>3 DEF IInv

(***************************************************************************)
(* A step of a service keeps IInv: it does not come to life, and what was  *)
(* received from it stays received.                                        *)
(***************************************************************************)
LEMMA ServiceFrame ==
  ASSUME IInv, TypeOK', Control',
         UNCHANGED <<rel, cur, stopped, chClosed>>,
         \A s \in All : Active(s)' => Active(s) /\ Received(s)' = Received(s)
  PROVE  IInv'
<1>1. OneCurrent' /\ Waits'
  BY DEF IInv, OneCurrent, Waits, Spoken, TypeOK
<1> QED
  BY <1>1 DEF IInv

(***************************************************************************)
(* A receive leaves the current service stopped, or it has spoken.         *)
(***************************************************************************)
LEMMA Receives ==
  ASSUME IInv, ReceiveError \/ ReceiveNil, UNCHANGED <<cur, msg, sends>>
  PROVE  /\ svc' \in [All -> SvcStates]
         /\ serviceErr' \in SUBSET Errors
         /\ \A s \in All : svc'[s] = "sending" => sends'[s] > 0
         /\ \A s \in All \ {cur} : svc'[s] = svc[s]
         /\ \A s \in All \ {cur} :
              (Active(s)' <=> Active(s)) /\ Received(s)' = Received(s)
         /\ svc'[cur] \in {"running", "closed"}
         /\ svc'[cur] = "running" => Received(cur)' > 0
<1> USE DEF IInv
<1>1. \E r \in {"running", "closed"} :
        /\ svc' = [svc EXCEPT ![cur] = r]
        /\ r = "running" => svc[cur] = "sending"
  <2>1. CASE ReceiveError
    BY <2>1 DEF ReceiveError
  <2>2. CASE ReceiveNil
    <3>1. CASE svc[cur] = "sending"
      BY <2>2, <3>1 DEF ReceiveNil
    <3>2. CASE svc[cur] = "closed"
      <4>1. svc' = [svc EXCEPT ![cur] = "closed"]
        BY <2>2, <3>2 DEF ReceiveNil, TypeOK
      <4> QED
        BY <4>1
    <3> QED
      BY <2>2, <3>1, <3>2 DEF ReceiveNil
  <2> QED
    BY <2>1, <2>2
<1>2. serviceErr' \in SUBSET Errors
  <2>1. CASE ReceiveError
    <3>1. msg[cur] \in Errors
      BY <2>1 DEF ReceiveError, TypeOK, Errors
    <3> QED
      BY <2>1, <3>1 DEF ReceiveError, TypeOK
  <2>2. CASE ReceiveNil
    BY <2>2 DEF ReceiveNil, TypeOK
  <2> QED
    BY <2>1, <2>2
<1>3. cur \in All /\ svc \in [All -> SvcStates] /\ sends \in [All -> Nat]
  BY DEF TypeOK
<1>4. svc' \in [All -> SvcStates]
  BY <1>1, <1>3 DEF SvcStates
<1>5. \A s \in All \ {cur} : svc'[s] = svc[s]
  BY <1>1, <1>3
<1>6. svc'[cur] \in {"running", "closed"}
  BY <1>1, <1>3
<1>7. \A s \in All : svc'[s] = "sending" => sends'[s] > 0
  BY <1>3, <1>5, <1>6 DEF Control
<1>8. \A s \in All \ {cur} : (Active(s)' <=> Active(s)) /\ Received(s)' = Received(s)
  BY <1>5 DEF Active, Received
<1>9. svc'[cur] = "running" => Received(cur)' > 0
  <2>1. svc'[cur] = "running" => svc[cur] = "sending"
    BY <1>1, <1>3
  <2> QED
    BY <1>3, <2>1 DEF Control, Received
<1> QED
  BY <1>2, <1>4, <1>5, <1>6, <1>7, <1>8, <1>9

(***************************************************************************)
(* Every step of the factory, a service or a goroutine keeps IInv.         *)
(***************************************************************************)
LEMMA NextIInv == IInv /\ [Next]_vars => IInv'
<1> SUFFICES ASSUME IInv, [Next]_vars PROVE IInv'
  OBVIOUS
<1> USE DEF IInv
<1>1. CASE Start
  <2>1. TypeOK'
    BY <1>1 DEF Start, TypeOK, All, SvcStates, FactoryStates, RelStates
  <2>2. Control' /\ Waits'
    BY <1>1 DEF Start, Control, Waits, Ended, TypeOK
  <2>3. OneCurrent'
    BY <1>1 DEF Start, Control, OneCurrent, Active, TypeOK, All
  <2> QED
    BY <2>1, <2>2, <2>3
<1>2. CASE ParentCancel
  <2>1. TypeOK'
    BY <1>2 DEF ParentCancel, TypeOK, relVars, facVars, svcVars
  <2> QED
    BY <1>2, <2>1, Frame DEF ParentCancel, relVars, facVars, svcVars
<1>3. CASE FactoryInit
  <2>1. TypeOK'
    BY <1>3 DEF FactoryInit, TypeOK, FactoryStates, relVars, facVars, svcVars
  <2> QED
    BY <1>3, <2>1, Frame DEF FactoryInit, relVars, facVars, svcVars
<1>4. ASSUME NEW s \in Services, FactoryOffer(s)
      PROVE  IInv'
  <2>1. TypeOK'
    BY <1>4 DEF FactoryOffer, TypeOK, FactoryStates, All, relVars, facVars, svcVars
  <2> QED
    BY <1>4, <2>1, Frame DEF FactoryOffer, relVars, facVars, svcVars
<1>5. CASE FactoryGiveUp
  <2>1. TypeOK'
    BY <1>5 DEF FactoryGiveUp, TypeOK, FactoryStates, relVars, facVars, svcVars
  <2> QED
    BY <1>5, <2>1, Frame DEF FactoryGiveUp, relVars, facVars, svcVars
<1>6. CASE FactoryClose
  <2>1. TypeOK'
    BY <1>6 DEF FactoryClose, TypeOK, FactoryStates, relVars, facVars, svcVars
  <2> QED
    BY <1>6, <2>1, Frame DEF FactoryClose, relVars, facVars, svcVars
<1>7. CASE FactoryReturns
  <2>1. TypeOK'
    BY <1>7 DEF FactoryReturns, TypeOK, FactoryStates, relVars, facVars, svcVars
  <2> QED
    BY <1>7, <2>1, Frame DEF FactoryReturns, relVars, facVars, svcVars
<1>8. CASE FactoryFails
  <2>1. TypeOK'
    BY <1>8 DEF FactoryFails, TypeOK, FactoryStates, Errors, relVars, facVars, svcVars
  <2> QED
    BY <1>8, <2>1, Frame DEF FactoryFails, relVars, facVars, svcVars
<1>9. ASSUME NEW s \in All, SvcSend(s, s) \/ SvcSend(s, NoErr)
      PROVE  IInv'
  <2> PICK v \in {s, NoErr} : SvcSend(s, v)
    BY <1>9
  <2>1. TypeOK'
    BY DEF SvcSend, TypeOK, SvcStates, facVars, relVars
  <2>2. \A t \in All : Active(t)' => Active(t) /\ Received(t)' = Received(t)
    BY DEF SvcSend, Active, Received, TypeOK
  <2>3. Control'
    BY DEF SvcSend, Control, TypeOK, facVars, relVars
  <2> QED
    BY <2>1, <2>2, <2>3, ServiceFrame DEF SvcSend, facVars, relVars
<1>10. ASSUME NEW s \in All, SvcStop(s)
      PROVE  IInv'
  <2>1. TypeOK'
    BY <1>10 DEF SvcStop, TypeOK, SvcStates, facVars, relVars
  <2>2. \A t \in All : Active(t)' => Active(t) /\ Received(t)' = Received(t)
    BY <1>10 DEF SvcStop, Active, Received, TypeOK
  <2>3. Control'
    BY <1>10 DEF SvcStop, Control, TypeOK, facVars, relVars
  <2> QED
    BY <1>10, <2>1, <2>2, <2>3, ServiceFrame DEF SvcStop, facVars, relVars
<1>11. CASE SelectError
  <2>1. (ReceiveError \/ ReceiveNil) /\ UNCHANGED <<cur, msg, sends>>
    BY <1>11 DEF SelectError
  <2>2. TypeOK'
    BY <1>11, <2>1, Receives DEF SelectError, TypeOK, RelStates, facVars
  <2>3. Control'
    BY <1>11, <2>1, Receives DEF SelectError, Control, TypeOK, facVars
  <2>4. OneCurrent' /\ Waits'
    BY <1>11, <2>1, Receives
    DEF SelectError, OneCurrent, Waits, Ended, Spoken, Active, TypeOK, facVars
  <2> QED
    BY <2>2, <2>3, <2>4
<1>12. CASE SelectStopped
  <2>1. (ReceiveError \/ ReceiveNil) /\ UNCHANGED <<cur, msg, sends>>
    BY <1>12 DEF SelectStopped
  <2>2. TypeOK'
    BY <1>12, <2>1, Receives DEF SelectStopped, TypeOK, RelStates, facVars
  <2>3. Control'
    BY <1>12, <2>1, Receives DEF SelectStopped, Control, TypeOK, facVars
  <2>4. OneCurrent' /\ Waits'
    BY <1>12, <2>1, Receives
    DEF SelectStopped, OneCurrent, Waits, Ended, Spoken, Active, TypeOK, facVars
  <2> QED
    BY <2>2, <2>3, <2>4
<1>13. CASE SelectService
  <2>1. TypeOK'
    BY <1>13 DEF SelectService, TypeOK, RelStates, FactoryStates, facVars, svcVars
  <2>2. Control'
    BY <1>13 DEF SelectService, Control, TypeOK, facVars, svcVars
  <2>3. OneCurrent' /\ Waits'
    BY <1>13
    DEF SelectService, Control, OneCurrent, Waits, Ended, Spoken, Active, Received, TypeOK,
        facVars, svcVars
  <2> QED
    BY <2>1, <2>2, <2>3
<1>14. CASE SelectClosed
  <2>1. TypeOK'
    BY <1>14 DEF SelectClosed, TypeOK, RelStates, FactoryStates, facVars, svcVars
  <2>2. Control'
    BY <1>14 DEF SelectClosed, Control, TypeOK, facVars, svcVars
  <2>3. OneCurrent' /\ Waits'
    BY <1>14
    DEF SelectClosed, Control, OneCurrent, Waits, Ended, Spoken, Active, Received, TypeOK,
        facVars, svcVars
  <2> QED
    BY <2>1, <2>2, <2>3
<1>15. CASE ReloadCancel
  <2>1. TypeOK'
    BY <1>15 DEF ReloadCancel, TypeOK, RelStates, FactoryStates, facVars, svcVars
  <2>2. Control'
    BY <1>15 DEF ReloadCancel, Control, TypeOK, facVars, svcVars
  <2>3. OneCurrent' /\ Waits'
    BY <1>15
    DEF ReloadCancel, Control, OneCurrent, Waits, Ended, Spoken, Active, Received, TypeOK,
        facVars, svcVars
  <2> QED
    BY <2>1, <2>2, <2>3
<1>16. CASE ReloadAwait
  <2>1. (ReceiveError \/ ReceiveNil) /\ UNCHANGED <<cur, msg, sends>>
    BY <1>16 DEF ReloadAwait
  <2>2. TypeOK'
    BY <1>16, <2>1, Receives DEF ReloadAwait, TypeOK, RelStates, facVars
  <2>3. Control'
    BY <1>16, <2>1, Receives DEF ReloadAwait, Control, TypeOK, facVars
  <2>4. OneCurrent' /\ Waits'
    BY <1>16, <2>1, Receives
    DEF ReloadAwait, OneCurrent, Waits, Ended, Spoken, Active, TypeOK, facVars
  <2> QED
    BY <2>2, <2>3, <2>4
<1>17. CASE ReloadSwap
  <2>1. TypeOK'
    BY <1>17 DEF ReloadSwap, TypeOK, RelStates, FactoryStates, facVars, svcVars
  <2>2. Control'
    BY <1>17 DEF ReloadSwap, Control, TypeOK, facVars, svcVars
  <2>3. OneCurrent' /\ Waits'
    BY <1>17
    DEF ReloadSwap, Control, OneCurrent, Waits, Ended, Spoken, Active, Received, TypeOK,
        facVars, svcVars
  <2> QED
    BY <2>1, <2>2, <2>3
<1>18. CASE ReloadStart
  <2>1. TypeOK'
    BY <1>18 DEF ReloadStart, TypeOK, RelStates, FactoryStates, SvcStates, Errors, All, facVars, svcVars
  <2>2. Control'
    BY <1>18 DEF ReloadStart, Control, TypeOK, facVars, svcVars
  <2>3. OneCurrent' /\ Waits'
    BY <1>18
    DEF ReloadStart, Control, OneCurrent, Waits, Ended, Spoken, Active, Received, TypeOK,
        facVars, svcVars
  <2> QED
    BY <2>1, <2>2, <2>3
<1>19. CASE Exit
  <2>1. TypeOK'
    BY <1>19 DEF Exit, TypeOK, RelStates, FactoryStates, facVars, svcVars
  <2>2. Control'
    BY <1>19 DEF Exit, Control, TypeOK, facVars, svcVars
  <2>3. OneCurrent' /\ Waits'
    BY <1>19
    DEF Exit, Control, OneCurrent, Waits, Ended, Spoken, Active, Received, TypeOK,
        facVars, svcVars
  <2> QED
    BY <2>1, <2>2, <2>3
<1>20. CASE ExitReport
  <2>1. out' \in Seq((SUBSET Errors) \ {{}})
    <3>1. serviceErr \in (SUBSET Errors) \ {{}}
      BY <1>20 DEF ExitReport, TypeOK, Control
    <3> QED
      BY <1>20, <3>1 DEF ExitReport, TypeOK
  <2>2. TypeOK'
    BY <1>20, <2>1 DEF ExitReport, TypeOK, RelStates, facVars, svcVars
  <2>3. Control'
    BY <1>20 DEF ExitReport, Control, TypeOK, facVars, svcVars
  <2>4. OneCurrent' /\ Waits'
    BY <1>20
    DEF ExitReport, OneCurrent, Waits, Ended, Spoken, Active, Received, TypeOK,
        facVars, svcVars
  <2> QED
    BY <2>2, <2>3, <2>4
<1>21. CASE ExitClose
  <2>1. TypeOK'
    BY <1>21 DEF ExitClose, TypeOK, RelStates, FactoryStates, facVars, svcVars
  <2>2. Control'
    BY <1>21 DEF ExitClose, Control, TypeOK, facVars, svcVars
  <2>3. OneCurrent' /\ Waits'
    BY <1>21
    DEF ExitClose, Control, OneCurrent, Waits, Ended, Spoken, Active, Received, TypeOK,
        facVars, svcVars
  <2> QED
    BY <2>1, <2>2, <2>3
<1>22. CASE UNCHANGED vars
  <2>1. TypeOK'
    BY <1>22 DEF vars, TypeOK, facVars, relVars, svcVars
  <2> QED
    BY <1>22, <2>1, Frame DEF vars, relVars, facVars, svcVars
<1> QED
  BY <1>1, <1>2, <1>3, <1>4, <1>5, <1>6, <1>7, <1>8, <1>9, <1>10, <1>11, <1>12,
     <1>13, <1>14, <1>15, <1>16, <1>17, <1>18, <1>19, <1>20, <1>21, <1>22
  DEF Next, FactoryFunction, ReloaderRoutine

(***************************************************************************)
(* The inductive invariant holds throughout.                               *)
(***************************************************************************)
THEOREM Inductive == Spec => []IInv
BY InitIInv, NextIInv, PTL DEF Spec

(***************************************************************************)
(* Type correctness of the reloader's state.                               *)
(***************************************************************************)
THEOREM TypeCorrect == Spec => []TypeOK
<1>1. IInv => TypeOK
  BY DEF IInv
<1> QED
  BY <1>1, Inductive, PTL

(***************************************************************************)
(* A service that still works when the next one starts, or when Wait() is  *)
(* closed, was cancelled and has handed over a value, or the factory has   *)
(* closed its channel; however the factory, the services and the context   *)
(* interleave with reloadService and the deferred function.                *)
(***************************************************************************)
THEOREM LeftBehind == Spec => []LeavesBehind
<1>1. IInv => LeavesBehind
  BY DEF IInv, Control, OneCurrent, Waits, Ended, Spoken, LeavesBehind
<1> QED
  BY <1>1, Inductive, PTL

-----------------------------------------------------------------------------
\* The refinement mapping of busy.
Busy == ~chClosed /\ \E s \in Services : Active(s) /\ Received(s) = 0

(***************************************************************************)
(* Every step of the reloader is a step of a Service or leaves the         *)
(* Service's state alone.                                                  *)
(***************************************************************************)
LEMMA StepRefines ==
  ASSUME IInv, [Next]_vars
  PROVE  [Contract!Next]_(Contract!vars)
<1> USE DEF IInv
<1>1. ASSUME UNCHANGED <<start, waitCh, out>>,
             Busy' => Busy \/ waitCh = "open"
      PROVE  [Contract!Next]_(Contract!vars)
  <2>1. CASE UNCHANGED Busy
    BY <1>1, <2>1 DEF Contract!vars, Busy
  <2>2. CASE ~ UNCHANGED Busy
    <3>1. Busy' = ~Busy
      BY <2>2 DEF Busy
    <3> QED
      BY <1>1, <3>1 DEF Contract!Next, Contract!Work, Busy
  <2> QED
    BY <2>1, <2>2
<1>2. ASSUME UNCHANGED <<start, waitCh, out, svcVars>>, chClosed => chClosed'
      PROVE  [Contract!Next]_(Contract!vars)
  BY <1>1, <1>2 DEF Busy, Active, Received, svcVars
<1>3. CASE Start
  <2>1. UNCHANGED Busy
    BY <1>3, NamesAssumption DEF Start, Control, Busy, Active, Received, TypeOK, All
  <2>2. start = "idle" /\ start' = "running" /\ UNCHANGED <<waitCh, out>>
    BY <1>3 DEF Start
  <2> QED
    BY <2>1, <2>2 DEF Contract!Next, Contract!Start, Busy
<1>4. ASSUME NEW s \in All, NEW v \in All \cup {NoErr}, SvcSend(s, v) \/ SvcStop(s)
      PROVE  [Contract!Next]_(Contract!vars)
  <2>1. \A t \in All : Active(t)' => Active(t) /\ Received(t)' = Received(t)
    BY <1>4 DEF SvcSend, SvcStop, Active, Received, TypeOK
  <2>2. Busy' => Busy
    BY <1>4, <2>1 DEF SvcSend, SvcStop, Busy, All, facVars
  <2> QED
    BY <1>1, <1>4, <2>2 DEF SvcSend, SvcStop
<1>5. CASE SelectError \/ SelectStopped \/ ReloadAwait
  <2>1. waitCh = "open"
    BY <1>5 DEF SelectError, SelectStopped, ReloadAwait, Control, TypeOK
  <2> QED
    BY <1>1, <1>5, <2>1 DEF SelectError, SelectStopped, ReloadAwait
<1>6. CASE ReloadStart
  <2>1. waitCh = "open"
    BY <1>6 DEF ReloadStart, Control, TypeOK
  <2> QED
    BY <1>1, <1>6, <2>1 DEF ReloadStart
<1>7. CASE ExitReport
  <2>1. /\ waitCh = "open"
        /\ start = "running"
        /\ UNCHANGED <<start, waitCh, svc, sends, chClosed>>
    BY <1>7 DEF ExitReport, Control, TypeOK, facVars, svcVars
  <2>2. Len(out') = Len(out) + 1
    BY <1>7 DEF ExitReport, TypeOK
  <2> QED
    BY <2>1, <2>2 DEF Contract!Next, Contract!Hand, Active, Received
<1>8. CASE ExitClose
  <2>1. /\ waitCh = "open"
        /\ start = "running"
        /\ UNCHANGED <<start, out, svc, sends, chClosed>>
    BY <1>8 DEF ExitClose, Control, TypeOK, facVars, svcVars
  <2>2. ~Busy /\ waitCh' = "closed"
    BY <1>8 DEF ExitClose, OneCurrent, Waits, Ended, Spoken, Busy, All
  <2> QED
    BY <2>1, <2>2 DEF Contract!Next, Contract!Close, Busy, Active, Received
<1>9. CASE \/ ParentCancel
           \/ FactoryInit
           \/ FactoryFunction
           \/ FactoryFails
  BY <1>2, <1>9
  DEF ParentCancel, FactoryInit, FactoryFunction, FactoryOffer, FactoryGiveUp,
      FactoryClose, FactoryReturns, FactoryFails, facVars
<1>10. CASE \/ SelectService
            \/ SelectClosed
            \/ ReloadCancel
            \/ ReloadSwap
            \/ Exit
  BY <1>2, <1>10
  DEF SelectService, SelectClosed, ReloadCancel, ReloadSwap, Exit, facVars
<1>11. CASE UNCHANGED vars
  BY <1>2, <1>11 DEF vars, facVars
<1> QED
  BY <1>3, <1>4, <1>5, <1>6, <1>7, <1>8, <1>9, <1>10, <1>11
  DEF Next, ReloaderRoutine

(***************************************************************************)
(* The reloader implements the Service interface: it begins no work behind *)
(* a closed Wait(), hands errors over only before, and closes Wait() only  *)
(* when its service has stopped or handed over a value, or was given up by *)
(* the factory.                                                            *)
(***************************************************************************)
THEOREM Refinement == Spec => ImplementsService
<1>1. Init => Contract!Init
  BY DEF Init, Contract!Init, Active, All
<1>2. IInv /\ [Next]_vars => [Contract!Next]_(Contract!vars)
  BY StepRefines
<1> QED
  BY <1>1, <1>2, Inductive, PTL DEF Spec, ImplementsService, Contract!Spec
=============================================================================
