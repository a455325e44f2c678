-------------------------- MODULE SupervisorProofs --------------------------
(***************************************************************************)
(* Proofs about the Supervisor for any set of services and any number of   *)
(* values they send.  The inductive invariant IInv ties serviceMonitor's   *)
(* pruned list and its local err to what the services and the received     *)
(* errors are.                                                             *)
(***************************************************************************)
EXTENDS Supervisor, TLAPS

\* serviceMonitor runs only after Start has returned nil, and nothing but a
\* failed Start or the end of serviceMonitor closes s.waitCh.
Control ==
  /\ started <=> start # "idle"
  /\ mon # "off" <=> start = "ok"
  /\ waitCh = "closed" <=> start = "failed" \/ mon = "done"

\* A service works only if it was watched; it is dropped from the pruned
\* list only when it has closed its channel.
Pruning ==
  /\ start = "idle" => \A s \in Instances : svc[s] = "new"
  /\ \A s \in Instances : Working(s) => s \in Range(services)
  /\ mon # "off" => \A s \in Range(services) : s \in live \/ svc[s] = "closed"
  /\ mon \in {"report", "close", "done"} => live = {}
  /\ mon = "handle" => /\ got.n \in Instances
                       /\ got.ok \/ (svc[got.n] = "closed" /\ got.v = NoErr)

\* The local err is the first error received, and it is what is sent.
Reporting ==
  /\ errlog = <<>> => err = NoErr
  /\ errlog # <<>> => err = errlog[1]
  /\ mon \in {"off", "select", "handle", "report"} => out = <<>>
  /\ mon = "report" => errlog # <<>>
  /\ mon \in {"close", "done"} => out = IF errlog = <<>> THEN <<>> ELSE <<err>>

IInv == TypeOK /\ Control /\ Pruning /\ Reporting

-----------------------------------------------------------------------------
(***************************************************************************)
(* The list of services stays a list of services when Watch appends the    *)
(* arguments and a sysmon.                                                 *)
(***************************************************************************)
LEMMA WatchType ==
  ASSUME NEW l \in Seq(Instances), NEW q \in Arguments, NEW m \in SysMons
  PROVE  l \o Append(q, m) \in Seq(Instances)
<1>1. q \in Seq(Instances)
  <2>1. PICK n \in 0..MaxArgs : q \in [1..n -> Services]
    BY DEF Arguments
  <2>2. q \in [1..n -> Instances] /\ n \in Nat
    BY <2>1, InstancesAssumption DEF Instances
  <2> QED
    BY <2>2
<1>2. Append(q, m) \in Seq(Instances)
  BY <1>1 DEF Instances
<1> QED
  BY <1>2

(***************************************************************************)
(* IInv holds initially.                                                   *)
(***************************************************************************)
LEMMA InitIInv == Init => IInv
<1> SUFFICES ASSUME Init PROVE IInv
  OBVIOUS
<1>1. TypeOK
  <2>1. NoErr \in Msg /\ 0 \in Nat /\ "new" \in SvcStates
    BY DEF Msg, SvcStates
  <2>2. got \in [n : Msg, v : Msg, ok : BOOLEAN]
    BY <2>1 DEF Init
  <2>3. <<>> \in Seq(Instances) /\ {} \subseteq Instances /\ 1 \in Nat \ {0}
    OBVIOUS
  <2> QED
    BY <2>1, <2>2, <2>3, Zenon DEF Init, TypeOK
<1>2. Control /\ Reporting
  BY DEF Init, Control, Reporting
<1>3. Pruning
  BY DEF Init, Pruning, Working
<1> QED
  BY <1>1, <1>2, <1>3 DEF IInv

(***************************************************************************)
(* Every step of Start, of a service or of serviceMonitor keeps IInv.      *)
(***************************************************************************)
LEMMA NextIInv == IInv /\ [Next]_vars => IInv'
<1> SUFFICES ASSUME IInv, [Next]_vars PROVE IInv'
  OBVIOUS
<1> USE DEF IInv
<1>1. ASSUME NEW q \in Arguments, NEW m \in SysMons, Watch(q, m)
      PROVE  IInv'
  <2>1. services' \in Seq(Instances)
    BY <1>1, WatchType DEF Watch, TypeOK
  <2>2. TypeOK'
    BY <1>1, <2>1 DEF Watch, TypeOK, svcVars, monVars
  <2>3. Control' /\ Reporting'
    BY <1>1 DEF Watch, Control, Reporting, svcVars, monVars
  <2>4. Pruning'
    BY <1>1 DEF Watch, Pruning, Control, Working, svcVars, monVars
  <2> QED
    BY <2>2, <2>3, <2>4
<1>2. CASE Start
  BY <1>2 DEF Start, TypeOK, Control, Pruning, Reporting, Working, svcVars,
              monVars
<1>3. CASE StartOne
  <2>1. services[next] \in Instances /\ services[next] \in Range(services)
    BY <1>3 DEF StartOne, TypeOK, Range
  <2>2. TypeOK'
    BY <1>3, <2>1 DEF StartOne, TypeOK, SvcStates, Starts, monVars
  <2>3. Control' /\ Reporting'
    BY <1>3 DEF StartOne, Control, Reporting, monVars
  <2>4. Pruning'
    BY <1>3, <2>1 DEF StartOne, Pruning, Control, Working, TypeOK, monVars
  <2> QED
    BY <2>2, <2>3, <2>4
<1>4. CASE StartFails
  <2>1. services[next] \in Instances
    BY <1>4 DEF StartFails, TypeOK
  <2>2. TypeOK'
    BY <1>4, <2>1 DEF StartFails, TypeOK, SvcStates, monVars
  <2>3. Control' /\ Reporting'
    BY <1>4 DEF StartFails, Control, Reporting, monVars
  <2>4. Pruning'
    BY <1>4, <2>1 DEF StartFails, Pruning, Control, Working, TypeOK, monVars
  <2> QED
    BY <2>2, <2>3, <2>4
<1>5. CASE StartReturns
  <2>1. Range(services) \subseteq Instances
    BY DEF TypeOK, Range
  <2>2. TypeOK'
    BY <1>5, <2>1 DEF StartReturns, TypeOK, svcVars
  <2>3. Control' /\ Reporting'
    BY <1>5 DEF StartReturns, Control, Reporting
  <2>4. Pruning'
    BY <1>5 DEF StartReturns, Pruning, Working, svcVars
  <2> QED
    BY <2>2, <2>3, <2>4
<1>6. CASE ParentCancel
  BY <1>6 DEF ParentCancel, TypeOK, Control, Pruning, Reporting, Working,
              svcVars, monVars
<1>7. ASSUME NEW s \in Instances, NEW v \in Msg, SvcSend(s, v)
      PROVE  IInv'
  <2>1. TypeOK'
    BY <1>7 DEF SvcSend, TypeOK, SvcStates, monVars
  <2>2. Control' /\ Reporting'
    BY <1>7 DEF SvcSend, Control, Reporting, monVars
  <2>3. Pruning'
    BY <1>7 DEF SvcSend, Pruning, Working, TypeOK, monVars
  <2> QED
    BY <2>1, <2>2, <2>3
<1>8. ASSUME NEW s \in Instances, SvcStop(s)
      PROVE  IInv'
  <2>1. TypeOK'
    BY <1>8 DEF SvcStop, TypeOK, SvcStates, monVars
  <2>2. Control' /\ Reporting'
    BY <1>8 DEF SvcStop, Control, Reporting, monVars
  <2>3. Pruning'
    BY <1>8 DEF SvcStop, Pruning, Working, TypeOK, monVars
  <2> QED
    BY <2>1, <2>2, <2>3
<1>9. ASSUME NEW s \in Instances, MonSelect(s)
      PROVE  IInv'
  <2>1. got' \in [n : Msg, v : Msg, ok : BOOLEAN]
    <3>1. s \in Msg /\ msg[s] \in Msg /\ NoErr \in Msg
      BY DEF TypeOK, Msg
    <3>2. CASE got' = [n |-> s, v |-> msg[s], ok |-> TRUE]
      BY <3>1, <3>2, Zenon
    <3>3. CASE got' = [n |-> s, v |-> NoErr, ok |-> FALSE]
      BY <3>1, <3>3, Zenon
    <3> QED
      BY <1>9, <3>2, <3>3 DEF MonSelect
  <2>2. svc' \in [Instances -> SvcStates]
    BY <1>9 DEF MonSelect, TypeOK, SvcStates
  <2>3. TypeOK'
    BY <1>9, <2>1, <2>2 DEF MonSelect, TypeOK
  <2>4. Control' /\ Reporting'
    BY <1>9 DEF MonSelect, Control, Reporting
  <2>5. got'.n \in Instances /\ (got'.ok \/ (svc'[got'.n] = "closed" /\ got'.v = NoErr))
    BY <1>9 DEF MonSelect
  <2>6. Working(s)' => Working(s)
    BY <1>9 DEF MonSelect, Working, TypeOK
  <2>7. \A t \in Instances \ {s} : svc'[t] = svc[t]
    BY <1>9 DEF MonSelect, TypeOK
  <2>8. svc[s] = "closed" => svc'[s] = "closed"
    BY <1>9 DEF MonSelect, TypeOK
  <2>9. start = "ok" /\ UNCHANGED <<start, services, live>> /\ mon' = "handle"
    BY <1>9 DEF MonSelect, Control
  <2>10. Range(services) \subseteq Instances
    BY DEF TypeOK, Range
  <2>11. \A t \in Instances : Working(t)' => t \in Range(services)'
    BY <2>6, <2>7, <2>9 DEF Pruning, Working
  <2>12. \A t \in Range(services)' : t \in live' \/ svc'[t] = "closed"
    BY <1>9, <2>7, <2>8, <2>9, <2>10 DEF Pruning, MonSelect
  <2>13. Pruning'
    BY <2>5, <2>9, <2>11, <2>12 DEF Pruning
  <2> QED
    BY <2>3, <2>4, <2>13
<1>10. CASE MonError
  <2>1. got.v \in Instances
    BY <1>10 DEF MonError, TypeOK, Msg
  <2>2. TypeOK'
    BY <1>10, <2>1 DEF MonError, TypeOK, Msg, svcVars
  <2>3. Control' /\ Pruning'
    BY <1>10 DEF MonError, Control, Pruning, Working, svcVars
  <2>4. errlog' # <<>> /\ errlog'[1] = IF errlog = <<>> THEN got.v ELSE errlog[1]
    BY <1>10, <2>1 DEF MonError, TypeOK
  <2>5. errlog # <<>> => err # NoErr
    BY InstancesAssumption DEF Reporting, TypeOK, Instances
  <2>6. Reporting'
    BY <1>10, <2>4, <2>5 DEF MonError, Reporting
  <2> QED
    BY <2>2, <2>3, <2>6
<1>11. CASE MonStopped
  <2>1. TypeOK'
    BY <1>11 DEF MonStopped, TypeOK, svcVars
  <2>2. Control' /\ Reporting'
    BY <1>11 DEF MonStopped, Control, Reporting
  <2>3. Pruning'
    BY <1>11 DEF MonStopped, Pruning, Working, svcVars
  <2> QED
    BY <2>1, <2>2, <2>3
<1>12. CASE MonLeave
  <2>1. TypeOK' /\ Control' /\ Pruning'
    BY <1>12 DEF MonLeave, TypeOK, Control, Pruning, Working, svcVars
  <2>2. errlog # <<>> => err # NoErr
    BY InstancesAssumption DEF Reporting, TypeOK, Instances
  <2>3. Reporting'
    BY <1>12, <2>2 DEF MonLeave, Reporting
  <2> QED
    BY <2>1, <2>3
<1>13. CASE MonReport
  <2>1. err \in Instances /\ out = <<>>
    BY <1>13 DEF MonReport, Reporting, TypeOK
  <2>2. out' = <<err>> /\ out' \in Seq(Instances)
    BY <1>13, <2>1 DEF MonReport
  <2>3. TypeOK'
    BY <1>13, <2>2 DEF MonReport, TypeOK, svcVars
  <2>4. Control' /\ Pruning'
    BY <1>13 DEF MonReport, Control, Pruning, Working, svcVars
  <2>5. Reporting'
    BY <1>13, <2>2 DEF MonReport, Reporting
  <2> QED
    BY <2>3, <2>4, <2>5
<1>14. CASE MonClose
  BY <1>14 DEF MonClose, TypeOK, Control, Pruning, Reporting, Working, svcVars
<1>15. CASE UNCHANGED vars
  BY <1>15 DEF vars, TypeOK, Control, Pruning, Reporting, Working, svcVars,
               monVars
<1> QED
  BY <1>1, <1>2, <1>3, <1>4, <1>5, <1>6, <1>7, <1>8, <1>9, <1>10, <1>11,
     <1>12, <1>13, <1>14, <1>15
  DEF Next, Monitor, Msg

(***************************************************************************)
(* The inductive invariant holds throughout.                               *)
(***************************************************************************)
THEOREM Inductive == Spec => []IInv
BY InitIInv, NextIInv, PTL DEF Spec

(***************************************************************************)
(* Type correctness of the supervisor's state.                             *)
(***************************************************************************)
THEOREM TypeCorrect == Spec => []TypeOK
<1>1. IInv => TypeOK
  BY DEF IInv
<1> QED
  BY <1>1, Inductive, PTL

(***************************************************************************)
(* Supervisor.Wait() of a started supervisor is closed only after every    *)
(* watched service has closed its own channel.                             *)
(***************************************************************************)
THEOREM WaitAfterAll == Spec => []ClosedMeansStopped
<1>1. IInv => ClosedMeansStopped
  BY DEF IInv, ClosedMeansStopped, Control, Pruning, Watched
<1> QED
  BY <1>1, Inductive, PTL

(***************************************************************************)
(* The application is given the first error received, once, and only if    *)
(* there was one.                                                          *)
(***************************************************************************)
THEOREM OnlyFirstError == Spec => []FirstError
<1>1. IInv => FirstError
  <2> SUFFICES ASSUME TypeOK, Reporting PROVE FirstError
    BY DEF IInv
  <2>1. CASE mon \in {"off", "select", "handle", "report"}
    BY <2>1 DEF FirstError, Reporting
  <2>2. CASE mon \in {"close", "done"}
    BY <2>2 DEF FirstError, Reporting
  <2> QED
    BY <2>1, <2>2 DEF TypeOK
<1> QED
  BY <1>1, Inductive, PTL

-----------------------------------------------------------------------------
\* The refinement mapping of busy.
Busy == \E s \in Instances : Working(s)

(***************************************************************************)
(* Every step of the supervisor is a step of a Service or leaves the       *)
(* Service's state alone.                                                  *)
(***************************************************************************)
LEMMA StepRefines ==
  IInv /\ [Next]_vars => [Contract!Next]_(Contract!vars)
<1> SUFFICES ASSUME IInv, [Next]_vars
             PROVE  [Contract!Next]_(Contract!vars)
  OBVIOUS
<1> USE DEF IInv
<1>1. ASSUME UNCHANGED <<start, waitCh, out>>,
             Busy' => Busy \/ waitCh = "open"
      PROVE  [Contract!Next]_(Contract!vars)
  <2>1. CASE UNCHANGED Busy
    BY <1>1, <2>1 DEF Contract!vars, Phase, Busy
  <2>2. CASE ~ UNCHANGED Busy
    <3>1. Busy' = ~Busy
      BY <2>2 DEF Busy
    <3> QED
      BY <1>1, <3>1 DEF Contract!Next, Contract!Work, Phase, Busy
  <2> QED
    BY <2>1, <2>2
<1>2. ASSUME NEW q \in Arguments, NEW m \in SysMons, Watch(q, m)
      PROVE  [Contract!Next]_(Contract!vars)
  BY <1>1, <1>2 DEF Watch, svcVars, Busy, Working
<1>3. CASE Start
  BY <1>3 DEF Start, svcVars, Control, Contract!vars, Phase, Working
<1>4. CASE StartOne
  <2>1. waitCh = "open"
    BY <1>4 DEF StartOne, Control, TypeOK
  <2> QED
    BY <1>1, <1>4, <2>1 DEF StartOne
<1>5. CASE StartFails
  <2>1. \A s \in Instances : Working(s)' => Working(s)
    BY <1>5 DEF StartFails, TypeOK, Working
  <2>2. Busy' => Busy
    BY <2>1 DEF Busy
  <2>3. Phase = "new" /\ Phase' = "failed"
    BY <1>5 DEF StartFails, Phase
  <2>4. waitCh' = "closed" /\ out' = out
    BY <1>5 DEF StartFails
  <2>5. Busy' \in BOOLEAN
    BY DEF Busy
  <2> QED
    BY <2>2, <2>3, <2>4, <2>5 DEF Contract!Next, Contract!StartFails, Busy
<1>6. CASE StartReturns
  <2>1. Phase = "new" /\ Phase' = "running"
    BY <1>6 DEF StartReturns, Phase
  <2> QED
    BY <1>6, <2>1
    DEF StartReturns, svcVars, Contract!Next, Contract!Start, Working
<1>7. CASE ParentCancel
  BY <1>1, <1>7 DEF ParentCancel, svcVars, Busy, Working
<1>8. ASSUME NEW s \in Instances, SvcSend(s, s) \/ SvcSend(s, NoErr)
      PROVE  [Contract!Next]_(Contract!vars)
  <2>1. \A t \in Instances : Working(t)' => Working(t)
    BY <1>8 DEF SvcSend, Working, TypeOK
  <2>2. Busy' => Busy
    BY <2>1 DEF Busy
  <2> QED
    BY <1>1, <1>8, <2>2 DEF SvcSend
<1>9. ASSUME NEW s \in Instances, SvcStop(s)
      PROVE  [Contract!Next]_(Contract!vars)
  <2>1. \A t \in Instances : Working(t)' => Working(t)
    BY <1>9 DEF SvcStop, Working, TypeOK
  <2>2. Busy' => Busy
    BY <2>1 DEF Busy
  <2> QED
    BY <1>1, <1>9, <2>2 DEF SvcStop
<1>10. ASSUME NEW s \in Instances, MonSelect(s)
       PROVE  [Contract!Next]_(Contract!vars)
  <2>1. waitCh = "open"
    BY <1>10 DEF MonSelect, Control, TypeOK
  <2> QED
    BY <1>1, <1>10, <2>1 DEF MonSelect
<1>11. CASE MonError
  BY <1>1, <1>11 DEF MonError, svcVars, Busy, Working
<1>12. CASE MonStopped
  BY <1>1, <1>12 DEF MonStopped, svcVars, Busy, Working
<1>13. CASE MonLeave
  BY <1>1, <1>13 DEF MonLeave, svcVars, Busy, Working
<1>14. CASE MonReport
  <2>1. waitCh = "open" /\ Phase = "running" /\ Phase' = "running"
    BY <1>14 DEF MonReport, Control, TypeOK, Phase
  <2>2. Len(out') = Len(out) + 1
    BY <1>14 DEF MonReport, TypeOK
  <2>3. UNCHANGED <<waitCh, svc>>
    BY <1>14 DEF MonReport, svcVars
  <2> QED
    BY <2>1, <2>2, <2>3 DEF Contract!Next, Contract!Hand, Working
<1>15. CASE MonClose
  <2>1. waitCh = "open" /\ Phase = "running" /\ Phase' = "running"
    BY <1>15 DEF MonClose, Control, TypeOK, Phase
  <2>2. ~Busy
    BY <1>15 DEF MonClose, Pruning, Busy, Working
  <2>3. waitCh' = "closed" /\ UNCHANGED <<svc, out>>
    BY <1>15 DEF MonClose, svcVars
  <2> QED
    BY <2>1, <2>2, <2>3 DEF Contract!Next, Contract!Close, Busy, Working
<1>16. CASE UNCHANGED vars
  BY <1>1, <1>16 DEF vars, svcVars, Busy, Working
<1> QED
  BY <1>2, <1>3, <1>4, <1>5, <1>6, <1>7, <1>8, <1>9, <1>10, <1>11, <1>12,
     <1>13, <1>14, <1>15, <1>16
  DEF Next, Monitor

(***************************************************************************)
(* The supervisor implements the Service interface it supervises: its      *)
(* channel is closed only behind finished work, and errors come before.    *)
(***************************************************************************)
THEOREM Refinement == Spec => ImplementsService
<1>1. Init => Contract!Init
  BY DEF Init, Contract!Init, Phase, Working
<1> QED
  BY <1>1, Inductive, StepRefines, PTL DEF Spec, ImplementsService, Contract!Spec
=============================================================================
