--------------------------- MODULE TimeutilProofs ---------------------------
(***************************************************************************)
(* What holds of the tick sources for any number of callers and starts,    *)
(* any durations and any adjustment of the clock: a goroutine always finds *)
(* its own context, TickAt keeps the context while it sends, and a         *)
(* Scheduler does not tick early.  And what holds of the ScheduledTicker   *)
(* for a calendar of any sizes and any texts: it means what was written,   *)
(* and what it writes is read back, since Next only reads the schedule.    *)
(***************************************************************************)
EXTENDS TickSources, ScheduleText, FoldLemmas

(***************************************************************************)
(* A Start that waits for the lock may still succeed; a Scheduler is never *)
(* in a state of the tickers' goroutines.                                  *)
(***************************************************************************)
Control ==
  /\ starter = "lock" => gen < Starts
  /\ IsScheduler => \A k \in Ks : g[k] \notin {"wait", "lock", "stop"}

(***************************************************************************)
(* The last sleep of a Scheduler takes it up to the tick at least, unless  *)
(* the clock was set back since it began and the tick is measured by it.   *)
(* Only of a tick with a monotonic reading such a change goes unseen.      *)
(***************************************************************************)
SleepsLongEnough ==
  /\ \A k \in Ks : g[k] = "sleep" /\ ~long /\ (mono \/ ~setBack) => left <= timer
  /\ ~mono => unseen = 0

IInv == TypeOK /\ Control /\ LoopHasContext /\ SleepsLongEnough

LEMMA InitIInv == Init => IInv
<1> USE TickAssumption DEF Ks
<1>1. ASSUME Init PROVE size \in Nat
  <2>1. CASE kind = "interval"
    <3>1. PICK h \in HalfSeconds : size = h \div 2
      BY <1>1, <2>1 DEF Init, UnmarshalText
    <3>2. h \in Nat
      OBVIOUS
    <3> QED
      BY <3>1, <3>2
  <2> QED
    BY <1>1, <2>1 DEF Init
<1>2. ASSUME Init PROVE TypeOK
  <2>1. kind \in {"interval", "manual", "ticker", "var"}
    BY <1>2 DEF Init
  <2>2. 0 \in 0..Starts /\ 0 \in 0..MaxAdjust
    OBVIOUS
  <2>3. size \in Nat
    BY <1>1, <1>2
  <2>4. /\ ctx = 0 /\ done = {} /\ gen = 0 /\ starter = "idle" /\ tt = 0
        /\ left = 0 /\ timer = 0 /\ unseen = 0 /\ adjusts = 0
    BY <1>2 DEF Init
  <2>5. /\ pc \in [Callers -> {"idle", "sending", "panic", "crash"}]
        /\ g \in [1..Starts -> Labels]
        /\ phase \in [1..Starts -> Nat]
    BY <1>2 DEF Init, Labels
  <2>6. armed \in [1..Starts -> BOOLEAN] /\ fired \in [1..Starts -> BOOLEAN]
    BY <1>2 DEF Init
  <2>7. /\ closed \in BOOLEAN /\ reading \in BOOLEAN /\ long \in BOOLEAN
        /\ setBack \in BOOLEAN /\ mono \in BOOLEAN
    BY <1>2 DEF Init
  <2> QED
    BY <2>1, <2>2, <2>3, <2>4, <2>5, <2>6, <2>7 DEF TypeOK
<1>3. ASSUME Init PROVE Control /\ LoopHasContext /\ SleepsLongEnough
  BY <1>3 DEF Init, Control, LoopHasContext, Busy, SleepsLongEnough
<1> QED
  BY <1>2, <1>3 DEF IInv

LEMMA NextIInv == IInv /\ [Next]_vars => IInv'
<1> SUFFICES ASSUME IInv, [Next]_vars PROVE IInv'
  OBVIOUS
<1> USE TickAssumption DEF IInv, Ks, life, tickers, clock
<1>a. g \in [1..Starts -> Labels] /\ gen \in Int
  BY DEF TypeOK
<1>b. left \in Int /\ timer \in Int /\ mono \in BOOLEAN /\ unseen \in Int
  BY DEF TypeOK
<1>1. CASE UNCHANGED vars
  <2>1. TypeOK'
    BY <1>1 DEF vars, TypeOK
  <2>2. Control'
    BY <1>1, <1>a DEF vars, Control, IsScheduler
  <2>3. LoopHasContext'
    BY <1>1, <1>a DEF vars, LoopHasContext, Busy
  <2>4. SleepsLongEnough'
    BY <1>1, <1>a, <1>b DEF vars, SleepsLongEnough, LoopHasContext, Busy
  <2> QED
    BY <2>1, <2>2, <2>3, <2>4
<1>2. CASE CallStart
  <2>1. TypeOK'
    BY <1>2 DEF CallStart, TypeOK
  <2>2. Control'
    BY <1>2, <1>a DEF CallStart, Control, IsScheduler
  <2>3. LoopHasContext'
    BY <1>2, <1>a DEF CallStart, LoopHasContext, Busy
  <2>4. SleepsLongEnough'
    BY <1>2, <1>a, <1>b DEF CallStart, SleepsLongEnough, LoopHasContext, Busy
  <2> QED
    BY <2>1, <2>2, <2>3, <2>4
<1>3. CASE Start
  <2>1. TypeOK'
    <3>1. gen + 1 \in 1..Starts
      BY <1>3 DEF Start, TypeOK, Control
    <3>2. /\ ctx' \in 0..Starts /\ gen' \in 0..Starts
          /\ starter' \in {"idle", "lock", "panic"}
      BY <1>3, <3>1 DEF Start, TypeOK
    <3>3. g' \in [1..Starts -> Labels]
      BY <1>3, <3>1, <1>a DEF Start, Labels
    <3>4. UNCHANGED <<kind, size, done, pc, closed, reading, tickers, clock>>
      BY <1>3 DEF Start
    <3> QED
      BY <3>2, <3>3, <3>4 DEF TypeOK
  <2>2. Control'
    BY <1>3, <1>a DEF Start, Control, IsScheduler
  <2>3. LoopHasContext'
    BY <1>3, <1>a DEF Start, LoopHasContext, Busy
  <2>4. SleepsLongEnough'
    BY <1>3, <1>a, <1>b DEF Start, SleepsLongEnough, LoopHasContext, Busy
  <2> QED
    BY <2>1, <2>2, <2>3, <2>4
<1>4. CASE Quit
  <2>1. TypeOK'
    BY <1>4 DEF Quit, TypeOK
  <2>2. Control'
    BY <1>4, <1>a DEF Quit, Control, IsScheduler
  <2>3. LoopHasContext'
    BY <1>4, <1>a DEF Quit, LoopHasContext, Busy
  <2>4. SleepsLongEnough'
    BY <1>4, <1>a, <1>b DEF Quit, SleepsLongEnough, LoopHasContext, Busy
  <2> QED
    BY <2>1, <2>2, <2>3, <2>4
<1>5. CASE Pass
  <2>1. TypeOK'
    BY <1>5 DEF Pass, TypeOK
  <2>2. Control'
    BY <1>5, <1>a DEF Pass, Control, IsScheduler
  <2>3. LoopHasContext'
    BY <1>5, <1>a DEF Pass, LoopHasContext, Busy
  <2>4. SleepsLongEnough'
    BY <1>5, <1>a, <1>b DEF Pass, SleepsLongEnough, LoopHasContext, Busy
  <2> QED
    BY <2>1, <2>2, <2>3, <2>4
<1>6. CASE \E k \in Ks : Cancel(k) \/ Fire(k)
  <2>1. TypeOK'
    <3>1. CASE \E k \in 1..Starts : Cancel(k)
      BY <3>1 DEF Cancel, TypeOK
    <3>2. CASE \E k \in 1..Starts : Fire(k)
      <4>1. PICK k \in 1..Starts : Fire(k)
        BY <3>2
      <4>2. PICK b \in BOOLEAN : armed' = [armed EXCEPT ![k] = b]
        BY <4>1 DEF Fire
      <4>3. fired' = [fired EXCEPT ![k] = TRUE]
        BY <4>1 DEF Fire
      <4>4. armed' \in [1..Starts -> BOOLEAN] /\ fired' \in [1..Starts -> BOOLEAN]
        BY <4>2, <4>3 DEF TypeOK
      <4>5. UNCHANGED <<kind, size, ctx, done, gen, starter, pc, closed, reading, g, tt,
                        phase, left, timer, long, mono, unseen, setBack, adjusts>>
        BY <4>1 DEF Fire
      <4> QED
        BY <4>4, <4>5 DEF TypeOK
    <3> QED
      BY <1>6, <3>1, <3>2
  <2>2. Control'
    BY <1>6, <1>a DEF Cancel, Fire, Control, IsScheduler
  <2>3. LoopHasContext'
    BY <1>6, <1>a DEF Cancel, Fire, LoopHasContext, Busy
  <2>4. SleepsLongEnough'
    BY <1>6, <1>a, <1>b DEF Cancel, Fire, SleepsLongEnough, LoopHasContext, Busy
  <2> QED
    BY <2>1, <2>2, <2>3, <2>4
<1>7. CASE \E k \in Ks : ManualNext(k) \/ IntervalNext(k)
  <2>1. TypeOK'
    <3>1. left' \in Int /\ mono' \in BOOLEAN /\ unseen' \in Int
      BY <1>7 DEF ManualNext, IntervalNext, TypeOK
    <3>2. PICK k \in 1..Starts : g' = [g EXCEPT ![k] = "loop"]
      BY <1>7 DEF ManualNext, IntervalNext, Goto
    <3>3. UNCHANGED <<kind, size, ctx, done, gen, starter, pc, closed, reading, tt, armed,
                      fired, phase, timer, long, setBack, adjusts>>
      BY <1>7 DEF ManualNext, IntervalNext
    <3> QED
      BY <3>1, <3>2, <3>3 DEF TypeOK, Labels
  <2>2. Control'
    BY <1>7, <1>a DEF ManualNext, IntervalNext, Goto, Control, IsScheduler
  <2>3. LoopHasContext'
    BY <1>7, <1>a DEF ManualNext, IntervalNext, Goto, LoopHasContext, Busy
  <2>4. SleepsLongEnough'
    BY <1>7, <1>a, <1>b DEF ManualNext, IntervalNext, Goto, SleepsLongEnough, LoopHasContext, Busy
  <2> QED
    BY <2>1, <2>2, <2>3, <2>4
<1>8. CASE \E k \in Ks : Receive(k)
  <2>1. TypeOK'
    BY <1>8 DEF Receive, AfterSend, Goto, TypeOK, Labels
  <2>2. Control'
    BY <1>8, <1>a DEF Receive, AfterSend, Goto, Control, IsScheduler
  <2>3. LoopHasContext'
    BY <1>8, <1>a DEF Receive, AfterSend, Goto, LoopHasContext, Busy
  <2>4. SleepsLongEnough'
    BY <1>8, <1>a, <1>b DEF Receive, AfterSend, Goto, SleepsLongEnough, LoopHasContext, Busy
  <2> QED
    BY <2>1, <2>2, <2>3, <2>4
<1>9. CASE \E k \in Ks : Loop(k)
  <2>1. TypeOK'
    <3>1. timer' \in Nat /\ long' \in BOOLEAN /\ closed' \in BOOLEAN /\ setBack' = FALSE
      <4>1. PICK k \in 1..Starts : Loop(k)
        BY <1>9
      <4>2. CASE left <= 0
        BY <4>1, <4>2 DEF Loop, CloseChannel, TypeOK
      <4>3. CASE ~(left <= 0)
        <5>1. long' \in BOOLEAN /\ closed' \in BOOLEAN /\ setBack' = FALSE
          BY <4>1, <4>3 DEF Loop, TypeOK
        <5>2. timer' \in {MaxSleep, left}
          BY <4>1, <4>3 DEF Loop
        <5>3. left \in Nat
          BY <4>3 DEF TypeOK
        <5> QED
          BY <5>1, <5>2, <5>3
      <4> QED
        BY <4>2, <4>3
    <3>2. PICK k \in 1..Starts, l \in {"sleep", "send", "ended"} : g' = [g EXCEPT ![k] = l]
      BY <1>9 DEF Loop, CloseChannel, Goto
    <3>3. UNCHANGED <<kind, size, ctx, done, gen, starter, pc, reading, tt, armed, fired,
                      phase, left, mono, unseen, adjusts>>
      BY <1>9 DEF Loop, CloseChannel
    <3> QED
      BY <3>1, <3>2, <3>3 DEF TypeOK, Labels
  <2>2. Control'
    BY <1>9, <1>a DEF Loop, CloseChannel, Goto, Control, IsScheduler
  <2>3. LoopHasContext'
    BY <1>9, <1>a DEF Loop, CloseChannel, Goto, LoopHasContext, Busy
  <2>4. SleepsLongEnough'
    BY <1>9, <1>a, <1>b DEF Loop, CloseChannel, Goto, SleepsLongEnough, LoopHasContext, Busy
  <2> QED
    BY <2>1, <2>2, <2>3, <2>4
<1>10. CASE \E k \in Ks : SleepCancelled(k) \/ SleepOver(k)
  <2>1. TypeOK'
    <3>1. CASE \E k \in 1..Starts : SleepCancelled(k)
      BY <3>1 DEF SleepCancelled, CloseChannel, Goto, TypeOK, Labels
    <3>2. CASE \E k \in 1..Starts : SleepOver(k)
      <4>1. PICK k \in 1..Starts, l \in {"loop", "send"} : g' = [g EXCEPT ![k] = l]
        BY <3>2 DEF SleepOver, Goto
      <4>2. g' \in [1..Starts -> Labels]
        BY <1>a, <4>1 DEF Labels
      <4> QED
        BY <3>2, <4>2 DEF SleepOver, TypeOK
    <3> QED
      BY <1>10, <3>1, <3>2
  <2>2. Control'
    BY <1>10, <1>a DEF SleepCancelled, SleepOver, CloseChannel, Goto, Control, IsScheduler
  <2>3. LoopHasContext'
    BY <1>10, <1>a DEF SleepCancelled, SleepOver, CloseChannel, Goto, LoopHasContext, Busy
  <2>4. SleepsLongEnough'
    BY <1>10, <1>a, <1>b DEF SleepCancelled, SleepOver, CloseChannel, Goto, SleepsLongEnough, LoopHasContext, Busy
  <2> QED
    BY <2>1, <2>2, <2>3, <2>4
<1>11. CASE \E k \in Ks : First(k)
  <2>1. TypeOK'
    <3>1. PICK k \in 1..Starts : First(k)
      BY <1>11
    <3>2. CASE size = 0
      BY <3>1, <3>2 DEF First, Goto, TypeOK, Labels
    <3>3. CASE size # 0
      <4>1. tt' \in 0..Starts
        BY <3>1, <3>3 DEF First, TypeOK
      <4>2. /\ armed' \in [1..Starts -> BOOLEAN]
            /\ phase' \in [1..Starts -> Nat]
        BY <3>1, <3>3 DEF First, TypeOK
      <4>4. g' \in [1..Starts -> Labels]
        BY <1>a, <3>1, <3>3 DEF First, Goto, Labels
      <4>3. UNCHANGED <<kind, size, ctx, done, gen, starter, pc, closed, reading, fired,
                        left, timer, long, mono, unseen, setBack, adjusts>>
        BY <3>1, <3>3 DEF First
      <4> QED
        BY <4>1, <4>2, <4>3, <4>4 DEF TypeOK
    <3> QED
      BY <3>2, <3>3
  <2>2. Control'
    BY <1>11, <1>a DEF First, Goto, Control, IsScheduler
  <2>3. LoopHasContext'
    BY <1>11, <1>a DEF First, Goto, LoopHasContext, Busy
  <2>4. SleepsLongEnough'
    BY <1>11, <1>a, <1>b DEF First, Goto, SleepsLongEnough, LoopHasContext, Busy
  <2> QED
    BY <2>1, <2>2, <2>3, <2>4
<1>12. CASE \E k \in Ks : WaitFired(k) \/ WaitCancelled(k)
  <2>1. TypeOK'
    <3>1. g' \in [1..Starts -> Labels]
      BY <1>a, <1>12 DEF WaitFired, WaitCancelled, Goto, Labels
    <3>2. fired' \in [1..Starts -> BOOLEAN]
      BY <1>12 DEF WaitFired, WaitCancelled, TypeOK
    <3>3. UNCHANGED <<kind, size, ctx, done, gen, starter, pc, closed, reading, tt, armed,
                      phase, left, timer, long, mono, unseen, setBack, adjusts>>
      BY <1>12 DEF WaitFired, WaitCancelled
    <3> QED
      BY <3>1, <3>2, <3>3 DEF TypeOK
  <2>2. Control'
    BY <1>12, <1>a DEF WaitFired, WaitCancelled, Goto, Control, IsScheduler
  <2>3. LoopHasContext'
    BY <1>12, <1>a DEF WaitFired, WaitCancelled, Goto, LoopHasContext, Busy
  <2>4. SleepsLongEnough'
    BY <1>12, <1>a, <1>b DEF WaitFired, WaitCancelled, Goto, SleepsLongEnough, LoopHasContext, Busy
  <2> QED
    BY <2>1, <2>2, <2>3, <2>4
<1>13. CASE \E k \in Ks : Reset(k)
  <2>1. TypeOK'
    BY <1>13 DEF Reset, Goto, TypeOK, Labels
  <2>2. Control'
    BY <1>13, <1>a DEF Reset, Goto, Control, IsScheduler
  <2>3. LoopHasContext'
    <3>1. PICK k \in 1..Starts : Reset(k)
      BY <1>13
    <3>2. \A j \in 1..Starts : j # k => ~Busy(j)
      BY <3>1 DEF Reset, LoopHasContext, Busy
    <3>3. g' = [g EXCEPT ![k] = IF kind = "ticker" THEN "stop" ELSE "ended"]
      BY <3>1 DEF Reset, Goto
    <3>4. \A j \in 1..Starts : ~Busy(j)'
      BY <3>2, <3>3, <1>a DEF Busy
    <3> QED
      BY <3>4 DEF LoopHasContext
  <2>4. SleepsLongEnough'
    BY <1>13, <1>a, <1>b DEF Reset, Goto, SleepsLongEnough, LoopHasContext, Busy
  <2> QED
    BY <2>1, <2>2, <2>3, <2>4
<1>14. CASE \E k \in Ks : Stop(k)
  <2>1. TypeOK'
    <3>1. g' \in [1..Starts -> Labels]
      BY <1>a, <1>14 DEF Stop, Goto, Labels
    <3>2. armed' \in [1..Starts -> BOOLEAN]
      BY <1>14 DEF Stop, TypeOK
    <3>3. UNCHANGED <<kind, size, ctx, done, gen, starter, pc, closed, reading, tt, fired,
                      phase, left, timer, long, mono, unseen, setBack, adjusts>>
      BY <1>14 DEF Stop
    <3> QED
      BY <3>1, <3>2, <3>3 DEF TypeOK
  <2>2. Control'
    BY <1>14, <1>a DEF Stop, Goto, Control, IsScheduler
  <2>3. LoopHasContext'
    BY <1>14, <1>a DEF Stop, Goto, LoopHasContext, Busy
  <2>4. SleepsLongEnough'
    BY <1>14, <1>a, <1>b DEF Stop, Goto, SleepsLongEnough, LoopHasContext, Busy
  <2> QED
    BY <2>1, <2>2, <2>3, <2>4
<1>15. CASE \E p \in Callers : TickAt(p) \/ ReceiveTickAt(p) \/ SendOnClosed(p)
  <2>1. TypeOK'
    <3>1. PICK p \in Callers, l \in {"idle", "sending", "panic", "crash"} :
            pc' = [pc EXCEPT ![p] = l]
      BY <1>15 DEF TickAt, ReceiveTickAt, SendOnClosed
    <3>2. UNCHANGED <<kind, size, ctx, done, gen, starter, closed, reading, g, tt, armed,
                      fired, phase, left, timer, long, mono, unseen, setBack, adjusts>>
      BY <1>15 DEF TickAt, ReceiveTickAt, SendOnClosed
    <3> QED
      BY <3>1, <3>2 DEF TypeOK
  <2>2. Control'
    BY <1>15, <1>a DEF TickAt, ReceiveTickAt, SendOnClosed, Control, IsScheduler
  <2>3. LoopHasContext'
    BY <1>15, <1>a DEF TickAt, ReceiveTickAt, SendOnClosed, LoopHasContext, Busy
  <2>4. SleepsLongEnough'
    BY <1>15, <1>a, <1>b DEF TickAt, ReceiveTickAt, SendOnClosed, SleepsLongEnough, LoopHasContext, Busy
  <2> QED
    BY <2>1, <2>2, <2>3, <2>4
<1>16. CASE \E by \in {-1, 1} : Adjust(by)
  <2>1. TypeOK'
    BY <1>16 DEF Adjust, TypeOK
  <2>2. Control'
    BY <1>16, <1>a DEF Adjust, Control, IsScheduler
  <2>3. LoopHasContext'
    BY <1>16, <1>a DEF Adjust, LoopHasContext, Busy
  <2>4. SleepsLongEnough'
    <3>1. PICK by \in {-1, 1} : Adjust(by)
      BY <1>16
    <3>2. CASE by = 1
      <4>1. by > 0
        BY <3>2
      <4>2. setBack'
        BY <3>1, <4>1 DEF Adjust
      <4>3. mono => UNCHANGED <<g, long, left, timer>>
        BY <3>1 DEF Adjust
      <4> QED
        BY <3>1, <4>2, <4>3 DEF Adjust, SleepsLongEnough
    <3>3. CASE by = -1
      BY <3>1, <3>3 DEF Adjust, TypeOK, SleepsLongEnough
    <3> QED
      BY <3>1, <3>2, <3>3
  <2> QED
    BY <2>1, <2>2, <2>3, <2>4
<1> QED
  BY <1>1, <1>2, <1>3, <1>4, <1>5, <1>6, <1>7, <1>8, <1>9, <1>10, <1>11, <1>12, <1>13, <1>14, <1>15, <1>16 DEF Next, Goroutine

(***************************************************************************)
(* IInv holds in every reachable state.                                    *)
(***************************************************************************)
THEOREM Inductive == Spec => []IInv
  BY InitIInv, NextIInv, PTL DEF Spec

(***************************************************************************)
(* The state of the tick sources keeps its type.                           *)
(***************************************************************************)
THEOREM TypeCorrect == Spec => []TypeOK
<1>1. IInv => TypeOK
  BY DEF IInv
<1> QED
  BY Inductive, <1>1, PTL

(***************************************************************************)
(* The goroutine of a tick source always finds the context of its own      *)
(* Start in the field ctx, although it reads it without the lock.          *)
(***************************************************************************)
THEOREM OwnContext == Spec => []LoopHasContext
<1>1. IInv => LoopHasContext
  BY DEF IInv
<1> QED
  BY Inductive, <1>1, PTL

(***************************************************************************)
(* Nobody takes the context away or starts the source again while a TickAt *)
(* is sending.                                                             *)
(***************************************************************************)
THEOREM SendersKeep == Spec => SenderKeepsContext
<1> DEFINE P == \A p \in Callers : pc[p] = "sending" /\ pc'[p] = "sending" => ctx' = ctx
<1>1. ASSUME [Next]_vars, NEW p \in Callers, pc[p] = "sending", pc'[p] = "sending"
      PROVE  ctx' = ctx
  <2> USE DEF life, tickers, clock, Goto
  <2>1. Holders # {}
    BY <1>1 DEF Holders
  <2>2. CASE CallStart \/ Start \/ Quit \/ Pass
    BY <2>1, <2>2 DEF CallStart, Start, Quit, Pass
  <2>3. CASE \E k \in Ks : Cancel(k) \/ Fire(k) \/ ManualNext(k) \/ Receive(k)
    BY <2>3 DEF Cancel, Fire, ManualNext, Receive
  <2>4. CASE \E k \in Ks : IntervalNext(k) \/ Loop(k) \/ SleepCancelled(k) \/ SleepOver(k)
    BY <2>4 DEF IntervalNext, Loop, SleepCancelled, SleepOver, CloseChannel
  <2>5. CASE \E k \in Ks : First(k) \/ WaitFired(k) \/ WaitCancelled(k) \/ Stop(k)
    BY <2>5 DEF First, WaitFired, WaitCancelled, Stop
  <2>6. CASE \E k \in Ks : Reset(k)
    BY <2>1, <2>6 DEF Reset
  <2>7. CASE \E q \in Callers : TickAt(q) \/ ReceiveTickAt(q) \/ SendOnClosed(q)
    BY <2>7 DEF TickAt, ReceiveTickAt, SendOnClosed
  <2>8. CASE \E by \in {-1, 1} : Adjust(by)
    BY <2>8 DEF Adjust
  <2>9. CASE UNCHANGED vars
    BY <2>9 DEF vars
  <2> QED
    BY <1>1, <2>2, <2>3, <2>4, <2>5, <2>6, <2>7, <2>8, <2>9 DEF Next, Goroutine
<1>2. [Next]_vars => [P]_vars
  BY <1>1
<1> QED
  BY <1>2, PTL DEF Spec, SenderKeepsContext

(***************************************************************************)
(* A Scheduler comes to send a tick before its time only if the wall clock *)
(* was set back during the last sleep.  A tick with a monotonic reading is *)
(* sent when the monotonic clock has reached it.                           *)
(***************************************************************************)
THEOREM NeverEarly == Spec => NotEarly
<1> DEFINE P == \A k \in Ks : Ticks(k) => IF mono THEN left <= 0 ELSE ~Early \/ setBack
<1>1. ASSUME IInv, [Next]_vars, NEW k \in Ks, IsScheduler, g[k] # "send", g'[k] = "send"
      PROVE  left <= 0 \/ (~mono /\ setBack)
  <2> USE <1>1 DEF IInv, life, tickers, clock, Goto, TypeOK
  <2>1. CASE CallStart \/ Start \/ Quit \/ Pass
    BY <2>1 DEF CallStart, Start, Quit, Pass
  <2>2. CASE \E j \in Ks : Cancel(j) \/ Fire(j) \/ ManualNext(j) \/ IntervalNext(j)
    BY <2>2 DEF Cancel, Fire, ManualNext, IntervalNext
  <2>3. CASE \E j \in Ks : Receive(j)
    BY <2>3 DEF Receive, AfterSend
  <2>4. CASE \E j \in Ks : Loop(j)
    BY <2>4 DEF Loop, CloseChannel
  <2>5. CASE \E j \in Ks : SleepOver(j) \/ SleepCancelled(j)
    BY <2>5 DEF SleepOver, SleepCancelled, CloseChannel, SleepsLongEnough
  <2>6. CASE \E j \in Ks : First(j) \/ WaitFired(j) \/ WaitCancelled(j) \/ Reset(j) \/ Stop(j)
    BY <2>6 DEF First, WaitFired, WaitCancelled, Reset, Stop, Control
  <2>7. CASE \E q \in Callers : TickAt(q) \/ ReceiveTickAt(q) \/ SendOnClosed(q)
    BY <2>7 DEF TickAt, ReceiveTickAt, SendOnClosed
  <2>8. CASE \E by \in {-1, 1} : Adjust(by)
    BY <2>8 DEF Adjust
  <2>9. CASE UNCHANGED vars
    BY <2>9 DEF vars
  <2> QED
    BY <2>1, <2>2, <2>3, <2>4, <2>5, <2>6, <2>7, <2>8, <2>9 DEF Next, Goroutine
<1>2. IInv /\ [Next]_vars => [P]_vars
  <2> SUFFICES ASSUME IInv, [Next]_vars, NEW k \in Ks, Ticks(k)
               PROVE  IF mono THEN left <= 0 ELSE ~Early \/ setBack
    OBVIOUS
  <2>1. left <= 0 \/ (~mono /\ setBack)
    BY <1>1 DEF Ticks
  <2>2. left \in Int /\ (~mono => unseen = 0)
    BY DEF IInv, TypeOK, SleepsLongEnough
  <2> QED
    BY <2>1, <2>2 DEF Early
<1> QED
  BY <1>2, Inductive, PTL DEF Spec, NotEarly

-----------------------------------------------------------------------------
(***************************************************************************)
(* A list that is not empty has a first number.                            *)
(***************************************************************************)
LEMMA NotEmpty ==
  ASSUME NEW q \in Seq(Int), q # <<>>
  PROVE  1 \in DOMAIN q
<1>1. Len(q) # 0
  OBVIOUS
<1> QED
  BY <1>1

(***************************************************************************)
(* A field has finitely many values, all natural numbers, and at least one. *)
(***************************************************************************)
LEMMA FieldValues ==
  ASSUME NEW f \in Fields
  PROVE  /\ Valid[f] \subseteq Nat
         /\ IsFiniteSet(Valid[f])
         /\ Valid[f] # {}
<1>1. /\ Second \in Nat
      /\ secondsInMinute \in Nat \ {0} /\ minutesInHour \in Nat \ {0}
      /\ hoursInDay \in Nat \ {0} /\ daysInWeek \in Nat \ {0}
      /\ monthsInYear \in Nat \ {0} /\ maxDaysInMonth \in Nat \ {0}
  BY SizeAssumption
<1>2. ASSUME NEW a \in {0, 1}, NEW n \in Nat \ {0}, Valid[f] = a..(n + a - 1)
      PROVE  /\ Valid[f] \subseteq Nat
             /\ IsFiniteSet(Valid[f]) /\ Valid[f] # {}
  <2> DEFINE b == n + a - 1
  <2>0. a \in Int /\ b \in Int
    OBVIOUS
  <2>1. IsFiniteSet(a..b)
    <3> HIDE DEF b
    <3> QED
      BY <2>0, FS_Interval
  <2>2. a \in a..(n + a - 1)
    OBVIOUS
  <2> QED
    BY <1>2, <2>1, <2>2
<1>3. \E a \in {0, 1}, n \in Nat \ {0} : Valid[f] = a..(n + a - 1)
  BY <1>1 DEF Fields, Valid
<1> QED
  BY <1>2, <1>3

(***************************************************************************)
(* parse leaves every field with values of the field only.                 *)
(***************************************************************************)
LEMMA ParseValid ==
  ASSUME NEW s \in [Fields -> SUBSET Nat], NEW raw,
         \A f \in Fields : s[f] \subseteq Valid[f]
  PROVE  /\ parse(s, raw) = [f \in Fields |-> parse(s, raw)[f]]
         /\ \A f \in Fields : parse(s, raw)[f] \subseteq Valid[f]
<1> DEFINE last == Min({f \in 1..Len(raw) : Fails(f, raw[f])} \cup {Len(raw)})
           t == [f \in Fields |->
                   IF f <= last THEN parsePart(f, raw[f]) ELSE s[f]]
           u == [f \in Fields |->
                   IF Cardinality(t[f]) = Cardinality(Valid[f]) THEN {} ELSE t[f]]
<1>1. \A f \in Fields : parsePart(f, raw[f]) \subseteq Valid[f]
  BY DEF parsePart, Fails
<1>2. parse(s, raw) \in {s, t, u}
  BY DEF parse
<1> HIDE DEF last
<1>3. \A f \in Fields : t[f] \subseteq Valid[f]
  BY <1>1
<1>4. \A f \in Fields : u[f] \subseteq Valid[f]
  BY <1>3
<1>5. s = [f \in Fields |-> s[f]]
  OBVIOUS
<1>6. t = [f \in Fields |-> t[f]] /\ u = [f \in Fields |-> u[f]]
  OBVIOUS
<1> HIDE DEF t, u
<1>7. CASE parse(s, raw) = s
  BY <1>5, <1>7
<1>8. CASE parse(s, raw) = t
  BY <1>3, <1>6, <1>8
<1>9. CASE parse(s, raw) = u
  BY <1>4, <1>6, <1>9
<1> QED
  BY <1>2, <1>7, <1>8, <1>9

\* The field f of a schedule s into which raw is parsed, before a field with
\* all values becomes nil.
Read(s, raw, f) == IF f <= Len(raw) THEN ToSet(raw[f]) ELSE s[f]

(***************************************************************************)
(* What parse leaves in the fields when there is no error.                 *)
(***************************************************************************)
LEMMA ParseReads ==
  ASSUME NEW s, NEW raw, ~ParseFails(raw)
  PROVE  parse(s, raw) =
           [f \in Fields |->
              IF Cardinality(Read(s, raw, f)) = Cardinality(Valid[f])
              THEN {} ELSE Read(s, raw, f)]
<1> DEFINE n == Len(raw)
           failing == {f \in 1..n : Fails(f, raw[f])}
           last == Min(failing \cup {n})
           t == [f \in Fields |->
                   IF f <= last THEN parsePart(f, raw[f]) ELSE s[f]]
<1>1. n \in Fields /\ n \in Nat
  BY DEF ParseFails, Fields
<1>2. \A f \in 1..n : ~Fails(f, raw[f])
  BY DEF ParseFails
<1>3. failing \cup {n} = {n}
  BY <1>2
<1>4. last = n
  <2> HIDE DEF n, failing
  <2> QED
    BY <1>1, <1>3 DEF Min
<1>5. parse(s, raw) =
        [f \in Fields |->
           IF Cardinality(t[f]) = Cardinality(Valid[f]) THEN {} ELSE t[f]]
  BY <1>1 DEF parse
<1> HIDE DEF last
<1>6. \A f \in Fields : t[f] = Read(s, raw, f)
  <2> TAKE f \in Fields
  <2>1. CASE f <= n
    <3>1. f \in 1..n
      BY <1>1, <2>1 DEF Fields
    <3>2. parsePart(f, raw[f]) = ToSet(raw[f])
      BY <1>2, <3>1 DEF parsePart
    <3> QED
      BY <1>4, <2>1, <3>2 DEF Read
  <2>2. CASE ~(f <= n)
    BY <1>4, <2>2 DEF Read
  <2> QED
    BY <2>1, <2>2
<1> HIDE DEF t
<1> QED
  BY <1>5, <1>6

(***************************************************************************)
(* The numbers that are written are those of the field.                    *)
(***************************************************************************)
LEMMA WriteLists ==
  ASSUME NEW S, S \subseteq Nat, IsFiniteSet(S)
  PROVE  ToSet(write(S)) = S
<1> DEFINE n == Cardinality(S)
           Lists(q) == /\ ToSet(q) = S
                       /\ \A i, j \in DOMAIN q : i < j => q[i] < q[j]
<1>1. PICK q : Ascending(S, q)
  BY AscendingExists
<1>2. q \in [1..n -> S] /\ Lists(q)
  BY <1>1 DEF Ascending, ToSet
<1>3. write(S) = CHOOSE p \in [1..n -> S] : Lists(p)
  BY DEF write
<1> HIDE DEF Lists, n
<1>4. Lists(write(S))
  BY <1>2, <1>3
<1> QED
  BY <1>4 DEF Lists

-----------------------------------------------------------------------------
(***************************************************************************)
(* The fields hold values of the field, those of a new ticker every one,   *)
(* and after a parse without error a field with all values is nil.         *)
(***************************************************************************)
Meant ==
  /\ spec \in [Fields -> SUBSET Nat]
  /\ \A f \in Fields : spec[f] \subseteq Valid[f]
  /\ text \in Seq(Seq(Seq(Int)))
  /\ text = <<>> => spec = Blank /\ result # "ok"
  /\ result = "ok" =>
       \A f \in Fields : Cardinality(spec[f]) # Cardinality(Valid[f])
  /\ SpecMeansText

(***************************************************************************)
(* A new ticker has no schedule.                                           *)
(***************************************************************************)
LEMMA InitMeant == ParseInit => Meant
BY DEF Meant, ParseInit, Blank, Fields, SpecMeansText

(***************************************************************************)
(* A text parsed without error is what the fields mean afterwards, whatever *)
(* they were; after an error they still hold values of the field only.     *)
(***************************************************************************)
LEMMA UnmarshalMeant ==
  ASSUME Meant, NEW raw \in Seq(Seq(Int)), Unmarshal(raw)
  PROVE  Meant'
<1> USE DEF Meant
<1>1. /\ text' = Append(text, raw)
      /\ spec' = parse(spec, raw)
      /\ result' = IF ParseFails(raw) THEN "err" ELSE "ok"
  BY DEF Unmarshal
<1>2. /\ spec' = [f \in Fields |-> spec'[f]]
      /\ \A f \in Fields : spec'[f] \subseteq Valid[f]
  BY <1>1, ParseValid
<1>3. \A f \in Fields : spec'[f] \in SUBSET Nat
  BY <1>2, FieldValues
<1>4. spec' \in [Fields -> SUBSET Nat]
  BY <1>2, <1>3
<1>5. /\ text' \in Seq(Seq(Seq(Int))) /\ text' # <<>>
      /\ Last(text') = raw /\ (Len(text') = 1 => text = <<>>)
  <2> DEFINE T == Seq(Seq(Int))
  <2>1. text \in Seq(T) /\ raw \in T
    OBVIOUS
  <2> HIDE DEF T
  <2>2. text' \in Seq(T) /\ Len(text') = Len(text) + 1 /\ text'[Len(text) + 1] = raw
    BY <1>1, <2>1
  <2>3. text' # <<>> /\ Last(text') = raw /\ (Len(text') = 1 => text = <<>>)
    BY <2>1, <2>2 DEF Last
  <2> QED
    BY <2>2, <2>3 DEF T
<1>6. ASSUME result' = "ok", NEW f \in Fields
      PROVE  /\ Cardinality(spec'[f]) # Cardinality(Valid[f])
             /\ f <= Len(raw) \/ Len(text') = 1 =>
                  Said(raw, f) =
                    IF spec'[f] = {} THEN Valid[f] ELSE spec'[f]
  <2> DEFINE V == Valid[f]
             r == Read(spec, raw, f)
  <2>1. ~ParseFails(raw)
    BY <1>1, <1>6
  <2>2. spec'[f] = IF Cardinality(r) = Cardinality(V) THEN {} ELSE r
    <3>1. spec' = [h \in Fields |->
                     IF Cardinality(Read(spec, raw, h)) = Cardinality(Valid[h])
                     THEN {} ELSE Read(spec, raw, h)]
      BY <1>1, <2>1, ParseReads
    <3> QED
      BY <3>1
  <2>3. /\ IsFiniteSet(V) /\ V # {}
        /\ Cardinality({}) = 0 /\ Cardinality(V) # 0
    BY FieldValues, FS_EmptySet
  <2>4. r \subseteq V
    <3>1. CASE f <= Len(raw)
      <4>1. f \in 1..Len(raw)
        BY <3>1 DEF Fields
      <4> QED
        BY <2>1, <3>1, <4>1 DEF Read, ParseFails, Fails
    <3>2. CASE ~(f <= Len(raw))
      BY <3>2 DEF Read
    <3> QED
      BY <3>1, <3>2
  <2> HIDE DEF V
  <2>5. Cardinality(r) = Cardinality(V) => r = V
    BY <2>3, <2>4, FS_Subset
  <2>6. ASSUME f <= Len(raw) \/ Len(text') = 1
        PROVE  Said(raw, f) = IF r = {} THEN V ELSE r
    <3>1. CASE f <= Len(raw)
      <4>1. f \in 1..Len(raw) /\ raw[f] \in Seq(Int)
        BY <3>1 DEF Fields
      <4>2. r = ToSet(raw[f]) /\ ~(f > Len(raw))
        BY <3>1, <4>1 DEF Read
      <4>3. r = {} <=> raw[f] = <<>>
        <5>1. raw[f] = <<>> => r = {}
          BY <4>2 DEF ToSet
        <5>2. raw[f] # <<>> => 1 \in DOMAIN raw[f]
          BY <4>1, NotEmpty
        <5>3. 1 \in DOMAIN raw[f] => raw[f][1] \in r
          BY <4>2 DEF ToSet
        <5> QED
          BY <5>1, <5>2, <5>3
      <4> QED
        BY <4>2, <4>3 DEF Said, V
    <3>2. CASE ~(f <= Len(raw))
      <4>1. f > Len(raw)
        BY <3>2 DEF Fields
      <4>2. r = {}
        BY <1>5, <2>6, <3>2 DEF Read, Blank
      <4> QED
        BY <4>1, <4>2 DEF Said, V
    <3> QED
      BY <3>1, <3>2
  <2> HIDE DEF r
  <2>7. Cardinality(spec'[f]) # Cardinality(V)
    BY <2>2, <2>3
  <2>8. ASSUME f <= Len(raw) \/ Len(text') = 1
        PROVE  Said(raw, f) = IF spec'[f] = {} THEN V ELSE spec'[f]
    BY <2>2, <2>3, <2>5, <2>6, <2>8
  <2> QED
    BY <2>7, <2>8 DEF V
<1>7. SpecMeansText'
  BY <1>5, <1>6 DEF SpecMeansText
<1> QED
  BY <1>2, <1>4, <1>5, <1>6, <1>7

(***************************************************************************)
(* Every step keeps what the schedule means.                               *)
(***************************************************************************)
LEMMA NextMeant == Meant /\ [ParseNext]_parsed => Meant'
<1> SUFFICES ASSUME Meant, [ParseNext]_parsed PROVE Meant'
  OBVIOUS
<1>1. CASE ParseNext
  <2>1. PICK raw \in Specs \cup Respecs : Unmarshal(raw)
    BY <1>1 DEF ParseNext
  <2>2. raw \in Seq(Seq(Int))
    BY TextAssumption
  <2> QED
    BY <2>1, <2>2, UnmarshalMeant
<1>2. CASE UNCHANGED parsed
  BY <1>2 DEF parsed, Meant, SpecMeansText, Said
<1> QED
  BY <1>1, <1>2

(***************************************************************************)
(* After a parse without error a ticker ticks at the values that the text  *)
(* names, for a calendar of any sizes and any texts; in a ticker that was  *)
(* parsed into before, in the fields whose parts are there (parse,         *)
(* scheduler.go).                                                          *)
(***************************************************************************)
THEOREM ScheduleIsAsWritten == ParseSpec => []SpecMeansText
<1>1. Meant => SpecMeansText
  BY DEF Meant
<1> QED
  BY <1>1, InitMeant, NextMeant, PTL DEF ParseSpec

(***************************************************************************)
(* What String writes of a schedule that was parsed without error is       *)
(* parsed to that schedule, whatever was in the ticker.                    *)
(***************************************************************************)
LEMMA StringParsesBack ==
  ASSUME Meant, result = "ok", NEW s
  PROVE  parse(s, String(spec)) = spec
<1> DEFINE raw == String(spec)
<1>1. ASSUME NEW f \in Fields
      PROVE  ToSet(raw[f]) = spec[f] /\ spec[f] \subseteq Valid[f]
  <2>1. spec[f] \subseteq Nat /\ spec[f] \subseteq Valid[f]
    BY DEF Meant
  <2>2. IsFiniteSet(spec[f])
    BY <2>1, FieldValues, FS_Subset
  <2> QED
    BY <2>1, <2>2, WriteLists DEF String
<1>2. Len(raw) = 6
  BY DEF String, Fields
<1> HIDE DEF raw
<1>3. ~ParseFails(raw)
  BY <1>1, <1>2 DEF ParseFails, Fails, Fields
<1>4. \A f \in Fields : Read(s, raw, f) = spec[f]
  BY <1>1, <1>2 DEF Read, Fields
<1>5. \A f \in Fields : Cardinality(spec[f]) # Cardinality(Valid[f])
  BY DEF Meant
<1>6. parse(s, raw) = [f \in Fields |-> spec[f]]
  BY <1>3, <1>4, <1>5, ParseReads
<1> QED
  BY <1>6 DEF raw, Meant

(***************************************************************************)
(* String, MarshalText and MarshalJSON can be trusted to store a schedule: *)
(* what they write is parsed to the same schedule, for a calendar of any   *)
(* sizes and any texts (String and parse, scheduler.go).                   *)
(***************************************************************************)
THEOREM StringIsParsedBack == ParseSpec => []RoundTrip
<1>1. Meant => RoundTrip
  BY StringParsesBack DEF RoundTrip
<1> QED
  BY <1>1, InitMeant, NextMeant, PTL DEF ParseSpec

-----------------------------------------------------------------------------
\* The whole ticker: its schedule and Next.
CONSTANT Froms
VARIABLES step, from, loc, at

Whole == INSTANCE ScheduledTicker WITH pc <- step

(***************************************************************************)
(* The instance parses as the module does.                                 *)
(***************************************************************************)
LEMMA SameParse ==
  /\ \A s, raw : Whole!parse(s, raw) = parse(s, raw)
  /\ \A raw : Whole!ParseFails(raw) <=> ParseFails(raw)
  /\ Whole!Blank = Blank
<1>1. \A raw : Whole!ParseFails(raw) <=> ParseFails(raw)
  BY DEF Whole!ParseFails, ParseFails, Whole!Fields, Fields, Whole!Fails, Fails, Whole!ToSet,
         ToSet, Whole!Valid, Valid, Whole!maxDaysInMonth, maxDaysInMonth, Whole!monthsInYear,
         monthsInYear, Whole!Max, Max
<1>2. \A s, raw : Whole!parse(s, raw) = parse(s, raw)
  BY DEF Whole!parse, parse, Whole!Fields, Fields, Whole!Fails, Fails, Whole!parsePart,
         parsePart, Whole!ParseFails, ParseFails, Whole!ToSet, ToSet, Whole!Valid, Valid,
         Whole!maxDaysInMonth, maxDaysInMonth, Whole!monthsInYear, monthsInYear,
         Whole!Max, Max, Whole!Min, Min, Whole!Cardinality, Cardinality
<1>3. Whole!Blank = Blank
  BY DEF Whole!Blank, Blank, Whole!Fields, Fields
<1> QED
  BY <1>1, <1>2, <1>3

(***************************************************************************)
(* Next only reads the schedule: what holds of the parser alone holds of   *)
(* the whole ticker.                                                       *)
(***************************************************************************)
THEOREM TickerIsParsed == Whole!Spec => ParseSpec
<1>1. Whole!Init => ParseInit
  BY SameParse DEF Whole!Init, Whole!ParseInit, ParseInit
<1>2. [Whole!Next]_(Whole!vars) => [ParseNext]_parsed
  <2> SUFFICES ASSUME [Whole!Next]_(Whole!vars) PROVE [ParseNext]_parsed
    OBVIOUS
  <2>1. CASE Whole!ParseNext
    <3>1. PICK raw \in IF text = <<>> THEN Specs ELSE Respecs : Whole!Unmarshal(raw)
      BY <2>1 DEF Whole!ParseNext
    <3>2. Unmarshal(raw)
      BY <3>1, SameParse DEF Whole!Unmarshal, Unmarshal
    <3> QED
      BY <3>2 DEF ParseNext
  <2>2. CASE UNCHANGED parsed
    BY <2>2
  <2> QED
    BY <2>1, <2>2
    DEF parsed, Whole!Next, Whole!Turn, Whole!vars, Whole!Decode, Whole!Call, Whole!Advance,
        Whole!Return, Whole!MonthStep, Whole!DayStep, Whole!HourStep, Whole!MinuteStep,
        Whole!SecondStep
<1> QED
  BY <1>1, <1>2, PTL DEF Whole!Spec, ParseSpec
=============================================================================
