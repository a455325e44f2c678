---------------------------- MODULE ChannelProofs ----------------------------
(***************************************************************************)
(* Proofs about what is built on a FanIn, for any inputs, closers and      *)
(* values.  First the FanIn and a FanOut behind it, for any outputs; then  *)
(* the chain of loggers that merges the Wait channels of its servers, for  *)
(* any servers, chains and requests.  The inductive invariant of the       *)
(* chain, IInv, follows the end of a server through the goroutines in      *)
(* between: from its own two, over the goroutine of the fan-in, to the     *)
(* closer of the merged channel.                                           *)
(***************************************************************************)
EXTENDS Pipeline, LogServices, TLAPS

\* Whoever passed Wait found all goroutines ended, and unless Input was
\* called since, they are the only ones.
Closing ==
  /\ closed => \E c \in Closers : closer[c] = "done"
  /\ ~late => Alive
  /\ ~late /\ (\E c \in Closers : closer[c] \in {"close", "done"}) =>
       \A i \in Inputs : routine[i] \in {"off", "done"}

\* A goroutine that sends has a value.
Holding == \A i \in Inputs : routine[i] \in {"send", "panicked"} => n[i] > 0

FIInv == FITypeOK /\ Closing /\ Holding /\ MergedOnce

-----------------------------------------------------------------------------
(***************************************************************************)
(* FIInv holds initially.                                                  *)
(***************************************************************************)
LEMMA InitFI == FIInit => FIInv
<1> SUFFICES ASSUME FIInit PROVE FIInv
  OBVIOUS
<1>1. FITypeOK
  <2>1. <<>> \in Seq(Inputs \X (1..MaxValues)) /\ 0 \in 0..MaxValues
    BY ValuesAssumption
  <2> QED
    BY <2>1 DEF FIInit, FITypeOK
<1>2. Closing /\ Holding
  BY DEF FIInit, Closing, Holding, Alive
<1>3. MergedOnce
  <2>1. merged = <<>> /\ DOMAIN merged = {}
    BY DEF FIInit
  <2>2. \A i \in Inputs : routine[i] = "off" /\ n[i] = 0
    BY DEF FIInit
  <2>3. 1..0 = {}
    OBVIOUS
  <2>4. ASSUME NEW i \in Inputs
        PROVE  /\ {p \in DOMAIN merged : merged[p][1] = i} = {}
               /\ 1..(IF routine[i] \in {"send", "panicked"} THEN n[i] - 1 ELSE n[i]) = {}
    BY <2>1, <2>2, <2>3
  <2> QED
    BY <2>4 DEF MergedOnce
<1> QED
  BY <1>1, <1>2, <1>3 DEF FIInv

(***************************************************************************)
(* A step that delivers nothing keeps MergedOnce if every goroutine that   *)
(* begins to send has received one more value.                             *)
(***************************************************************************)
LEMMA KeepsMerged ==
  ASSUME FITypeOK, FITypeOK', MergedOnce, merged' = merged,
         \A i \in Inputs :
           \/ /\ n'[i] = n[i]
              /\ routine'[i] \in {"send", "panicked"} <=> routine[i] \in {"send", "panicked"}
           \/ /\ n'[i] = n[i] + 1
              /\ routine[i] = "recv"
              /\ routine'[i] = "send"
  PROVE  MergedOnce'
<1> DEFINE Limit(i) == IF routine[i] \in {"send", "panicked"} THEN n[i] - 1 ELSE n[i]
           LimitN(i) == IF routine'[i] \in {"send", "panicked"} THEN n'[i] - 1 ELSE n'[i]
<1>1. \A i \in Inputs : LimitN(i) = Limit(i)
  BY DEF FITypeOK
<1> QED
  BY <1>1 DEF MergedOnce

(***************************************************************************)
(* Every step of FanIn without its receiver keeps FIInv.                   *)
(***************************************************************************)
LEMMA StepFI == FIInv /\ FIStep => FIInv'
<1> SUFFICES ASSUME FIInv, FIStep PROVE FIInv'
  OBVIOUS
<1> USE DEF FIInv
<1>1. ASSUME NEW i \in Inputs, CloseInput(i)
      PROVE  FIInv'
  <2>1. FITypeOK'
    BY <1>1 DEF CloseInput, FITypeOK
  <2>2. Closing' /\ Holding'
    BY <1>1 DEF CloseInput, Closing, Holding, Alive
  <2> QED
    BY <1>1, <2>1, <2>2, KeepsMerged DEF CloseInput
<1>2. ASSUME NEW i \in Inputs, Input(i)
      PROVE  FIInv'
  <2>1. FITypeOK'
    BY <1>2 DEF Input, FITypeOK
  <2>2. Closing' /\ Holding'
    BY <1>2 DEF Input, Closing, Holding, Alive, FITypeOK
  <2>3. MergedOnce'
    BY <1>2, <2>1, KeepsMerged DEF Input, FITypeOK
  <2> QED
    BY <2>1, <2>2, <2>3
<1>3. ASSUME NEW i \in Inputs, ReceiveFrom(i)
      PROVE  FIInv'
  <2>1. FITypeOK'
    BY <1>3, ValuesAssumption DEF ReceiveFrom, FITypeOK
  <2>2. Closing' /\ Holding'
    BY <1>3 DEF ReceiveFrom, Closing, Holding, Alive, FITypeOK
  <2>3. MergedOnce'
    BY <1>3, <2>1, KeepsMerged DEF ReceiveFrom, FITypeOK
  <2> QED
    BY <2>1, <2>2, <2>3
<1>4. ASSUME NEW i \in Inputs, Done(i)
      PROVE  FIInv'
  <2>1. FITypeOK'
    BY <1>4 DEF Done, FITypeOK
  <2>2. Closing' /\ Holding'
    BY <1>4 DEF Done, Closing, Holding, Alive, FITypeOK
  <2>3. MergedOnce'
    BY <1>4, <2>1, KeepsMerged DEF Done, FITypeOK
  <2> QED
    BY <2>1, <2>2, <2>3
<1>5. ASSUME NEW i \in Inputs, SendPanics(i)
      PROVE  FIInv'
  <2>1. FITypeOK'
    BY <1>5 DEF SendPanics, FITypeOK
  <2>2. late
    BY <1>5 DEF SendPanics, Closing
  <2>3. Closing' /\ Holding'
    BY <1>5, <2>2 DEF SendPanics, Closing, Holding, FITypeOK
  <2>4. MergedOnce'
    BY <1>5, <2>1, KeepsMerged DEF SendPanics, FITypeOK
  <2> QED
    BY <2>1, <2>3, <2>4
<1>6. ASSUME NEW c \in Closers, BeginWait(c) \/ Wait(c) \/ Close(c)
      PROVE  FIInv'
  <2>1. FITypeOK'
    BY <1>6 DEF BeginWait, Wait, Close, FITypeOK
  <2>2. Holding' /\ UNCHANGED <<n, routine, late, merged>>
    BY <1>6 DEF BeginWait, Wait, Close, Holding
  <2>3. Closing'
    <3>1. CASE BeginWait(c)
      BY <3>1 DEF BeginWait, Closing, FITypeOK, Alive
    <3>2. CASE Wait(c)
      <4>1. ~late => \A i \in Inputs : routine[i] \in {"off", "done"}
        BY <3>2 DEF Wait, Counted, Closing, Alive, FITypeOK
      <4> QED
        BY <3>2, <4>1 DEF Wait, Closing, FITypeOK, Alive
    <3>3. CASE Close(c)
      BY <3>3 DEF Close, Closing, FITypeOK, Alive
    <3> QED
      BY <1>6, <3>1, <3>2, <3>3
  <2>4. MergedOnce'
    BY <2>1, <2>2, KeepsMerged
  <2> QED
    BY <2>1, <2>2, <2>3, <2>4
<1> QED
  BY <1>1, <1>2, <1>3, <1>4, <1>5, <1>6 DEF FIStep

(***************************************************************************)
(* Delivering a value keeps FIInv.                                         *)
(***************************************************************************)
LEMMA DeliverFI ==
  ASSUME FIInv, NEW i \in Inputs, Deliver(i)
  PROVE  FIInv'
<1> USE DEF FIInv
<1>1. n[i] \in Nat /\ n[i] > 0 /\ Value(i, n[i]) \in Inputs \X (1..MaxValues)
  BY ValuesAssumption DEF Deliver, Holding, FITypeOK, Value
<1>2. FITypeOK'
  BY <1>1 DEF Deliver, FITypeOK
<1>3. Closing' /\ Holding'
  BY DEF Deliver, Closing, Holding, Alive, FITypeOK
<1>4. MergedOnce'
  <2>1. /\ Len(merged') = Len(merged) + 1
        /\ \A p \in 1..Len(merged) : merged'[p] = merged[p]
        /\ merged'[Len(merged) + 1] = <<i, n[i]>>
    BY <1>1 DEF Deliver, FITypeOK, Value
  <2> DEFINE Own(j) == {p \in DOMAIN merged : merged[p][1] = j}
             OwnN(j) == {p \in DOMAIN merged' : merged'[p][1] = j}
  <2>2. DOMAIN merged = 1..Len(merged) /\ DOMAIN merged' = 1..(Len(merged) + 1)
        /\ Len(merged) \in Nat
    BY <1>2, <2>1 DEF FITypeOK
  <2>3. OwnN(i) = Own(i) \cup {Len(merged) + 1}
    BY <2>1, <2>2
  <2>4. \A j \in Inputs \ {i} : OwnN(j) = Own(j)
    BY <2>1, <2>2
  <2>5. \A j \in Inputs : \A p \in Own(j) : merged'[p] = merged[p]
    BY <2>1, <2>2
  <2>6. /\ {merged[p][2] : p \in Own(i)} = 1..(n[i] - 1)
        /\ \A p, q \in Own(i) : p < q => merged[p][2] < merged[q][2]
    BY DEF MergedOnce, Deliver, FITypeOK
  <2>7. /\ {merged'[p][2] : p \in OwnN(i)} = 1..n[i]
        /\ \A p, q \in OwnN(i) : p < q => merged'[p][2] < merged'[q][2]
    <3>1. merged'[Len(merged) + 1][2] = n[i]
      BY <2>1
    <3>2. {merged'[p][2] : p \in OwnN(i)} = {merged[p][2] : p \in Own(i)} \cup {n[i]}
      BY <2>3, <2>5, <3>1
    <3>3. 1..n[i] = (1..(n[i] - 1)) \cup {n[i]}
      BY <1>1
    <3>4. \A p \in Own(i) : merged[p][2] \in 1..(n[i] - 1)
      BY <2>6
    <3>5. ASSUME NEW p \in OwnN(i), NEW q \in OwnN(i), p < q
          PROVE  merged'[p][2] < merged'[q][2]
      <4>1. p \in Own(i)
        BY <2>2, <2>3, <3>5
      <4>2. CASE q \in Own(i)
        BY <2>5, <2>6, <3>5, <4>1, <4>2
      <4>3. CASE q = Len(merged) + 1
        <5>1. merged'[p][2] \in 1..(n[i] - 1)
          BY <2>5, <3>4, <4>1
        <5> QED
          BY <1>1, <3>1, <4>3, <5>1
      <4> QED
        BY <2>3, <4>2, <4>3
    <3> QED
      BY <2>6, <3>2, <3>3, <3>5
  <2>8. /\ routine'[i] = "recv"
        /\ \A j \in Inputs \ {i} : routine'[j] = routine[j]
        /\ n' = n
    BY DEF Deliver, FITypeOK
  <2>9. ASSUME NEW j \in Inputs \ {i}
        PROVE  /\ {merged'[p][2] : p \in OwnN(j)} = {merged[p][2] : p \in Own(j)}
               /\ \A p, q \in OwnN(j) : p < q => merged'[p][2] < merged'[q][2]
    BY <2>4, <2>5 DEF MergedOnce
  <2> QED
    BY <2>7, <2>8, <2>9 DEF MergedOnce
<1> QED
  BY <1>2, <1>3, <1>4

-----------------------------------------------------------------------------
\* fanOutRoutine has a value from the receive to the end of the round, and a
\* round serves open outputs only.
Rounds ==
  /\ fan \in {"lock", "send"} => Len(seen) > 0
  /\ fan = "send" => left \subseteq FO!Open
  /\ fan # "send" => left = {}

\* An output begins with no value, and not beyond the ones received.
Joining ==
  /\ \A o \in Outputs : out[o] = "new" => got[o] = <<>>
  /\ \A o \in Outputs : joined[o] + Len(got[o]) <= Len(seen)

FOInv == FO!FOTypeOK /\ Rounds /\ Joining /\ FO!InStep

(***************************************************************************)
(* FOInv holds initially.                                                  *)
(***************************************************************************)
LEMMA InitFO == FO!FOInit => FOInv
<1> SUFFICES ASSUME FO!FOInit PROVE FOInv
  OBVIOUS
<1>1. FO!FOTypeOK
  BY DEF FO!FOInit, FO!FOTypeOK
<1>2. Rounds /\ Joining
  BY DEF FO!FOInit, Rounds, Joining
<1>3. FO!InStep
  BY DEF FO!FOInit, FO!InStep
<1> QED
  BY <1>1, <1>2, <1>3 DEF FOInv

(***************************************************************************)
(* Every step of FanOut without its sender keeps FOInv.                    *)
(***************************************************************************)
LEMMA StepFO == FOInv /\ FO!FOStep => FOInv'
<1> SUFFICES ASSUME FOInv, FO!FOStep PROVE FOInv'
  OBVIOUS
<1> USE DEF FOInv
<1>1. ASSUME NEW o \in Outputs, FO!Output(o)
      PROVE  FOInv'
  <2> DEFINE j == IF fan = "lock" THEN Len(seen) - 1 ELSE Len(seen)
  <2>1. j \in Nat /\ j <= Len(seen) /\ Len(seen) \in Nat
    BY DEF FO!FOTypeOK, Rounds
  <2>2. /\ joined' = [joined EXCEPT ![o] = j]
        /\ UNCHANGED <<fan, left, quit, seen, got>>
        /\ fan # "send"
        /\ got[o] = <<>>
    BY <1>1 DEF FO!Output, FO!Free, Joining
  <2>3. \E s \in {"open", "closed"} : out' = [out EXCEPT ![o] = s]
    BY <1>1 DEF FO!Output
  <2>4. ctx' \in [Outputs -> {"none", "live", "done"}]
    BY <1>1 DEF FO!Output, FO!FOTypeOK
  <2>5. out'[o] = "open" => fan # "done"
    BY <1>1 DEF FO!Output, FO!FOTypeOK
  <2>6. FO!Pending(o)' <=> fan = "lock"
    BY <2>2 DEF FO!Pending
  <2>7. \A q \in Outputs : FO!Pending(q)' <=> FO!Pending(q)
    BY <2>2 DEF FO!Pending
  <2>8. Len(got[o]) = 0
    BY <2>2
  <2>9. joined' \in [Outputs -> Nat] /\ joined'[o] = j
        /\ \A q \in Outputs \ {o} : joined'[q] = joined[q] /\ out'[q] = out[q]
    BY <2>1, <2>2, <2>3 DEF FO!FOTypeOK
  <2>10. FO!FOTypeOK'
    BY <2>2, <2>3, <2>4, <2>9 DEF FO!FOTypeOK
  <2>11. Rounds'
    BY <2>2 DEF Rounds
  <2>12. Joining'
    <3>1. \A q \in Outputs : out'[q] = "new" => got'[q] = <<>>
      BY <2>2, <2>9 DEF Joining
    <3>2. ASSUME NEW q \in Outputs
          PROVE  joined'[q] + Len(got'[q]) <= Len(seen')
      <4>1. CASE q = o
        <5>1. joined'[q] = j /\ Len(got'[q]) = 0 /\ seen' = seen
          BY <2>2, <2>8, <2>9, <4>1
        <5> HIDE DEF j
        <5> QED
          BY <2>1, <5>1
      <4>2. CASE q # o
        BY <2>2, <2>9, <4>2 DEF Joining
      <4> QED
        BY <4>1, <4>2
    <3> QED
      BY <3>1, <3>2 DEF Joining
  <2>13. FO!InStep'
    <3>1. ASSUME NEW q \in Outputs
          PROVE  /\ \A k \in 1..Len(got'[q]) : got'[q][k] = seen'[joined'[q] + k]
                 /\ out'[q] = "open" =>
                      joined'[q] + Len(got'[q])
                        = Len(seen') - (IF FO!Pending(q)' THEN 1 ELSE 0)
      <4>1. CASE q = o
        <5>1. joined'[q] = j /\ Len(got'[q]) = 0 /\ seen' = seen
          BY <2>2, <2>8, <2>9, <4>1
        <5>2. j = Len(seen) - (IF FO!Pending(q)' THEN 1 ELSE 0)
          <6>1. FO!Pending(q)' <=> fan = "lock"
            BY <2>6, <4>1
          <6>2. CASE fan = "lock"
            BY <2>1, <6>1, <6>2
          <6>3. CASE fan # "lock"
            BY <2>1, <6>1, <6>3
          <6> QED
            BY <6>2, <6>3
        <5> HIDE DEF j
        <5>3. 1..Len(got'[q]) = {}
          BY <5>1
        <5> QED
          BY <2>1, <5>1, <5>2, <5>3
      <4>2. CASE q # o
        BY <2>2, <2>7, <2>9, <4>2 DEF FO!InStep
      <4> QED
        BY <4>1, <4>2
    <3> QED
      BY <3>1 DEF FO!InStep
  <2> QED
    BY <2>10, <2>11, <2>12, <2>13
<1>2. ASSUME NEW o \in Outputs, FO!Close(o)
      PROVE  FOInv'
  <2>1. FO!FOTypeOK' /\ Rounds' /\ Joining'
    BY <1>2 DEF FO!Close, FO!FOTypeOK, FO!Free, Rounds, Joining
  <2>2. FO!InStep'
    BY <1>2 DEF FO!Close, FO!FOTypeOK, FO!Pending, FO!InStep
  <2> QED
    BY <2>1, <2>2
<1>3. ASSUME NEW o \in Outputs, FO!Cancel(o) \/ FO!Quit(o)
      PROVE  FOInv'
  <2>1. FO!FOTypeOK' /\ Rounds' /\ Joining'
    BY <1>3 DEF FO!Cancel, FO!Quit, FO!FOTypeOK, FO!Open, Rounds, Joining
  <2>2. FO!InStep'
    BY <1>3 DEF FO!Cancel, FO!Quit, FO!Pending, FO!InStep
  <2> QED
    BY <2>1, <2>2
<1>4. CASE FO!Round
  <2>1. FO!FOTypeOK' /\ Rounds' /\ Joining'
    BY <1>4 DEF FO!Round, FO!FOTypeOK, FO!Open, Rounds, Joining
  <2>2. FO!InStep'
    BY <1>4 DEF FO!Round, FO!FOTypeOK, FO!Open, FO!Pending, FO!InStep
  <2> QED
    BY <2>1, <2>2
<1>5. ASSUME NEW o \in Outputs, FO!Send(o)
      PROVE  FOInv'
  <2>1. Len(seen) > 0 /\ seen[Len(seen)] \in Inputs \X (1..MaxValues)
        /\ joined[o] \in Nat /\ got[o] \in Seq(Inputs \X (1..MaxValues))
    BY <1>5 DEF FO!Send, FO!FOTypeOK, Rounds
  <2>2. joined[o] + Len(got[o]) = Len(seen) - 1 /\ out[o] = "open"
    BY <1>5 DEF FO!Send, FO!InStep, FO!Pending, FO!Open, Rounds
  <2>3. /\ got'[o] = Append(got[o], seen[Len(seen)])
        /\ \A q \in Outputs \ {o} : got'[q] = got[q]
        /\ UNCHANGED <<out, seen, joined>>
    BY <1>5 DEF FO!Send, FO!FOTypeOK
  <2>4. /\ Len(got'[o]) = Len(got[o]) + 1
        /\ \A k \in 1..Len(got[o]) : got'[o][k] = got[o][k]
        /\ got'[o][Len(got[o]) + 1] = seen[Len(seen)]
    BY <2>1, <2>3
  <2>5. FO!FOTypeOK'
    BY <1>5, <2>1 DEF FO!Send, FO!FOTypeOK
  <2>6. Rounds'
    BY <1>5, <2>1 DEF FO!Send, FO!FOTypeOK, FO!Open, Rounds
  <2>7. Joining'
    <3>1. \A q \in Outputs : out'[q] = "new" => got'[q] = <<>>
      BY <2>2, <2>3 DEF Joining
    <3>2. joined'[o] + Len(got'[o]) <= Len(seen')
      <4>1. Len(got[o]) \in Nat /\ Len(seen) \in Nat
        BY <2>1 DEF FO!FOTypeOK
      <4>2. joined'[o] = joined[o] /\ seen' = seen
        BY <2>3
      <4> QED
        BY <2>1, <2>2, <2>4, <4>1, <4>2
    <3>3. \A q \in Outputs \ {o} : joined'[q] + Len(got'[q]) <= Len(seen')
      BY <2>3 DEF Joining
    <3> QED
      BY <3>1, <3>2, <3>3 DEF Joining
  <2>8. \A k \in 1..Len(got'[o]) : got'[o][k] = seen[joined[o] + k]
    <3>1. Len(got[o]) \in Nat /\ Len(seen) \in Nat
      BY <2>1 DEF FO!FOTypeOK
    <3>2. \A k \in 1..Len(got[o]) : got[o][k] = seen[joined[o] + k]
      BY DEF FO!InStep
    <3>3. Len(seen) = joined[o] + (Len(got[o]) + 1)
      BY <2>1, <2>2, <3>1
    <3>4. \A k \in 1..Len(got'[o]) : k \in 1..Len(got[o]) \/ k = Len(got[o]) + 1
      BY <2>4, <3>1
    <3> QED
      BY <2>4, <3>2, <3>3, <3>4
  <2>9. ~FO!Pending(o)'
    BY <1>5 DEF FO!Send, FO!Pending
  <2>10. \A q \in Outputs \ {o} : FO!Pending(q)' <=> FO!Pending(q)
    BY <1>5 DEF FO!Send, FO!Pending
  <2>11. FO!InStep'
    <3>1. Len(got[o]) \in Nat /\ Len(seen) \in Nat
      BY <2>1 DEF FO!FOTypeOK
    <3>2. joined[o] + Len(got'[o]) = Len(seen)
      BY <2>1, <2>2, <2>4, <3>1
    <3>3. ASSUME NEW q \in Outputs
          PROVE  /\ \A k \in 1..Len(got'[q]) : got'[q][k] = seen'[joined'[q] + k]
                 /\ out'[q] = "open" =>
                      joined'[q] + Len(got'[q])
                        = Len(seen') - (IF FO!Pending(q)' THEN 1 ELSE 0)
      <4>1. CASE q = o
        <5>1. joined'[o] = joined[o] /\ seen' = seen
          BY <2>3
        <5>2. \A k \in 1..Len(got'[o]) : got'[o][k] = seen'[joined'[o] + k]
          BY <2>8, <5>1
        <5>3. Len(seen') - (IF FO!Pending(o)' THEN 1 ELSE 0) = Len(seen)
          BY <2>9, <3>1, <5>1
        <5>4. joined'[o] + Len(got'[o]) = Len(seen)
          BY <3>2, <5>1
        <5> QED
          BY <4>1, <5>2, <5>3, <5>4
      <4>2. CASE q # o
        BY <2>3, <2>10, <4>2 DEF FO!InStep
      <4> QED
        BY <4>1, <4>2
    <3> QED
      BY <3>3 DEF FO!InStep
  <2> QED
    BY <2>5, <2>6, <2>7, <2>11
<1>6. CASE FO!InputEnds \/ FO!Final
  <2>1. FO!FOTypeOK' /\ Rounds' /\ Joining'
    BY <1>6 DEF FO!InputEnds, FO!Final, FO!FOTypeOK, Rounds, Joining
  <2>2. FO!InStep'
    BY <1>6 DEF FO!InputEnds, FO!Final, FO!FOTypeOK, FO!Pending, FO!InStep
  <2> QED
    BY <2>1, <2>2
<1> QED
  BY <1>1, <1>2, <1>3, <1>4, <1>5, <1>6 DEF FO!FOStep, FO!Routine, FO!CloseOnDone

(***************************************************************************)
(* Receiving a value keeps FOInv.                                          *)
(***************************************************************************)
LEMMA ReceiveFO ==
  ASSUME FOInv, NEW v \in Inputs \X (1..MaxValues), FO!Receive(v)
  PROVE  FOInv'
<1> USE DEF FOInv
<1>1. /\ seen' \in Seq(Inputs \X (1..MaxValues))
      /\ Len(seen') = Len(seen) + 1
      /\ \A k \in 1..Len(seen) : seen'[k] = seen[k]
      /\ UNCHANGED <<out, joined, got>>
  BY DEF FO!Receive, FO!FOTypeOK
<1>2. FO!FOTypeOK' /\ Rounds'
  BY <1>1 DEF FO!Receive, FO!FOTypeOK, Rounds
<1>3. Joining'
  BY <1>1 DEF Joining, FO!FOTypeOK
<1>4. \A o \in Outputs : ~FO!Pending(o) /\ FO!Pending(o)'
  BY DEF FO!Receive, FO!Pending
<1>5. ASSUME NEW o \in Outputs, NEW k \in 1..Len(got[o])
      PROVE  got[o][k] = seen'[joined[o] + k]
  <2>1. joined[o] \in Nat /\ Len(got[o]) \in Nat /\ Len(seen) \in Nat
    BY DEF FO!FOTypeOK
  <2>2. joined[o] + k \in 1..Len(seen)
    BY <2>1 DEF Joining
  <2> QED
    BY <1>1, <2>2 DEF FO!InStep
<1>6. FO!InStep'
  <2>1. ASSUME NEW o \in Outputs
        PROVE  /\ \A k \in 1..Len(got'[o]) : got'[o][k] = seen'[joined'[o] + k]
               /\ out'[o] = "open" =>
                    joined'[o] + Len(got'[o])
                      = Len(seen') - (IF FO!Pending(o)' THEN 1 ELSE 0)
    <3>1. Len(seen) \in Nat
      BY DEF FO!FOTypeOK
    <3>2. out[o] = "open" => joined[o] + Len(got[o]) = Len(seen)
      BY <1>4, <3>1 DEF FO!InStep
    <3> QED
      BY <1>1, <1>4, <1>5, <3>1, <3>2
  <2> QED
    BY <2>1 DEF FO!InStep
<1> QED
  BY <1>2, <1>3, <1>6

-----------------------------------------------------------------------------
PipeInv == FIInv /\ FOInv /\ seen = merged

(***************************************************************************)
(* The inductive invariant of both ends and the channel between holds      *)
(* throughout.                                                             *)
(***************************************************************************)
THEOREM PipeInductive == PipeSpec => []PipeInv
<1>1. PipeInit => PipeInv
  BY InitFI, InitFO DEF PipeInit, PipeInv, FIInit, FO!FOInit
<1>2. PipeInv /\ [PipeNext]_pipeVars => PipeInv'
  <2> SUFFICES ASSUME PipeInv, [PipeNext]_pipeVars PROVE PipeInv'
    OBVIOUS
  <2> USE DEF PipeInv
  <2>1. ASSUME UNCHANGED fiVars PROVE FIInv'
    BY <2>1 DEF fiVars, FIInv, FITypeOK, Closing, Alive, Holding, MergedOnce
  <2>2. ASSUME UNCHANGED outVars PROVE FOInv'
    BY <2>2 DEF outVars, FOInv, FO!FOTypeOK, Rounds, FO!Open, Joining,
                FO!InStep, FO!Pending
  <2>3. CASE FIStep /\ UNCHANGED outVars
    <3>1. merged' = merged
      BY <2>3 DEF FIStep, CloseInput, Input, ReceiveFrom, Done, SendPanics,
                  BeginWait, Wait, Close
    <3> QED
      BY <2>2, <2>3, <3>1, StepFI DEF outVars
  <2>4. CASE FO!FOStep /\ UNCHANGED fiVars
    <3>1. seen' = seen
      BY <2>4 DEF FO!FOStep, FO!Output, FO!Close, FO!Cancel, FO!CloseOnDone,
                  FO!Quit, FO!Routine, FO!Round, FO!Send, FO!InputEnds, FO!Final
    <3> QED
      BY <2>1, <2>4, <3>1, StepFO DEF fiVars
  <2>5. ASSUME NEW i \in Inputs, PassOn(i)
        PROVE  PipeInv'
    <3>1. Value(i, n[i]) \in Inputs \X (1..MaxValues)
      BY <2>5, ValuesAssumption
      DEF PassOn, Deliver, FIInv, FITypeOK, Holding, Value
    <3>2. FIInv' /\ FOInv'
      BY <2>5, <3>1, DeliverFI, ReceiveFO DEF PassOn
    <3>3. seen' = merged'
      BY <2>5 DEF PassOn, Deliver, FO!Receive
    <3> QED
      BY <3>2, <3>3
  <2>6. CASE UNCHANGED pipeVars
    BY <2>1, <2>2, <2>6 DEF pipeVars, fiVars, outVars
  <2> QED
    BY <2>3, <2>4, <2>5, <2>6 DEF PipeNext
<1> QED
  BY <1>1, <1>2, PTL DEF PipeSpec

(***************************************************************************)
(* Type correctness of both ends.                                          *)
(***************************************************************************)
THEOREM TypeCorrect == PipeSpec => []PipeTypeOK
<1>1. PipeInv => PipeTypeOK
  BY DEF PipeInv, FIInv, FOInv, PipeTypeOK
<1> QED
  BY <1>1, PipeInductive, PTL

(***************************************************************************)
(* Without a late Input no goroutine of a FanIn sends on the closed output *)
(* channel, for any number of inputs and concurrent closers.               *)
(***************************************************************************)
THEOREM NoSendOnClosed == PipeSpec => []ClosedAfterAll
<1>1. PipeInv => ClosedAfterAll
  BY DEF PipeInv, FIInv, Closing, ClosedAfterAll
<1> QED
  BY <1>1, PipeInductive, PTL

(***************************************************************************)
(* FanIn delivers every value once and keeps the order of each input.      *)
(***************************************************************************)
THEOREM MergesAll == PipeSpec => []MergedOnce
<1>1. PipeInv => MergedOnce
  BY DEF PipeInv, FIInv
<1> QED
  BY <1>1, PipeInductive, PTL

(***************************************************************************)
(* FanOut gives every output exactly what was merged since it was added.   *)
(***************************************************************************)
THEOREM OutputsInStep == PipeSpec => []InStep
<1>1. PipeInv => InStep
  BY DEF PipeInv, FOInv, InStep
<1> QED
  BY <1>1, PipeInductive, PTL

-----------------------------------------------------------------------------
TypeOK ==
  /\ HttpTypeOK
  /\ FITypeOK
  /\ loggers \in Seq(Servers)
  /\ stage \in {"start", "handler", "input", "dummy", "autoClose", "running", "failed"}
  /\ at \in Nat

\* How far Start has come, and which goroutines exist then.
Started ==
  /\ stage \in {"start", "handler", "input"} => at \in 1..Len(loggers)
  /\ stage = "input" => \A k \in 1..(at - 1) : routine[loggers[k]] # "off"
  /\ stage \in {"dummy", "autoClose", "running"} =>
       \A k \in 1..Len(loggers) : routine[loggers[k]] # "off"
  /\ stage \in {"autoClose", "running"} => routine[Dummy] # "off"
  /\ \A s \in Servers : serve[s] # "off" => \E k \in 1..Len(loggers) : loggers[k] = s

\* What the goroutines of a server have left behind.
Serving ==
  \A s \in Servers :
    /\ phase[s] = "new" => serve[s] = "off" /\ shut[s] = "off"
    /\ serve[s] = "off" => \A r \in Requests : request[s][r] = "none"
    /\ shut[s] = "shutting" => s \in closing
    /\ shut[s] \in {"send", "close", "done"} =>
         err[s] # "none" /\ (s \in closing \/ serve[s] = "done")
    /\ err[s] = "nil" => s \in closing /\ Idle(s)

\* What the end of an input, of its goroutine and of a closer each imply.
Merging ==
  /\ \A s \in Servers : s \in inputs => shut[s] = "done"
  /\ Dummy \in inputs => ctxDone
  /\ \A i \in Inputs : /\ routine[i] # "panicked"
                       /\ routine[i] = "send" => n[i] # 0
                       /\ routine[i] = "done" => i \in inputs
  /\ \A c \in Closers : closer[c] # "off" => stage = "running"
  /\ \A c \in Closers : closer[c] \in {"close", "done"} => \A i \in Inputs : ~Counted(i)
  /\ closed => \E c \in Closers : closer[c] = "done"

IInv == TypeOK /\ Started /\ Serving /\ Merging

-----------------------------------------------------------------------------
(***************************************************************************)
(* IInv holds initially.                                                   *)
(***************************************************************************)
LEMMA InitIInv == Init => IInv
<1> SUFFICES ASSUME Init
             PROVE  IInv
  OBVIOUS
<1> USE DEF Init, HttpInit, FIInit
<1>1. TypeOK
  <2>1. loggers \in Seq(Servers)
    BY ChainAssumption
  <2>2. HttpTypeOK
    BY DEF HttpTypeOK
  <2>3. FITypeOK
    <3>1. <<>> \in Seq(Inputs \X (1..MaxValues)) /\ 0 \in 0..MaxValues
      BY ValuesAssumption
    <3> QED
      BY <3>1 DEF FITypeOK
  <2> QED
    BY <2>1, <2>2, <2>3 DEF TypeOK
<1>2. Started
  <2>1. loggers \in Seq(Servers)
    BY ChainAssumption
  <2>2. CASE loggers = <<>>
    <3>1. Len(loggers) = 0 /\ stage = "dummy"
      BY <2>2
    <3>2. Len(loggers) \in Nat /\ 1..Len(loggers) = {}
      BY <3>1
    <3>3. \A s \in Servers : serve[s] = "off"
      OBVIOUS
    <3> QED
      BY <3>1, <3>2, <3>3 DEF Started
  <2>3. CASE loggers # <<>>
    <3>1. Len(loggers) \in Nat /\ Len(loggers) > 0
      BY <2>1, <2>3
    <3> QED
      BY <2>3, <3>1 DEF Started
  <2> QED
    BY <2>2, <2>3
<1>3. Serving
  BY DEF Serving
<1>4. Merging
  BY DEF Merging, Counted
<1> QED
  BY <1>1, <1>2, <1>3, <1>4 DEF IInv

-----------------------------------------------------------------------------
(***************************************************************************)
(* A step of the goroutines and requests of one server keeps the types of  *)
(* all of them.                                                            *)
(***************************************************************************)
LEMMA HttpType ==
  ASSUME HttpTypeOK,
         NEW s \in Servers,
         \/ Listen(s) \/ ListenFails(s) \/ SetHandler(s) \/ ServerStep(s)
         \/ SendErr(s) \/ CloseWait(s) \/ RequestStep(s) \/ ServeFails(s) \/ Cancel
  PROVE  HttpTypeOK'
<1> USE DEF HttpTypeOK
<1>1. CASE Listen(s)
  BY <1>1 DEF Listen
<1>2. CASE ListenFails(s)
  BY <1>2 DEF ListenFails
<1>3. CASE SetHandler(s)
  BY <1>3 DEF SetHandler
<1>4. CASE Serve(s)
  BY <1>4 DEF Serve
<1>5. CASE ServeEnds(s) \/ ServeFails(s)
  BY <1>5 DEF ServeEnds, ServeFails
<1>6. CASE HandOver(s)
  BY <1>6 DEF HandOver
<1>7. CASE Drop(s)
  BY <1>7 DEF Drop
<1>8. CASE Select(s)
  BY <1>8 DEF Select
<1>9. CASE Shutdown(s)
  BY <1>9 DEF Shutdown
<1>10. CASE ShutdownReturns(s) \/ ShutdownTimesOut(s)
  BY <1>10 DEF ShutdownReturns, ShutdownTimesOut
<1>11. CASE SendErr(s) \/ CloseWait(s)
  BY <1>11 DEF SendErr, CloseWait
<1>12. ASSUME NEW r \in Requests, Accept(s, r) \/ ServeHTTP(s, r) \/ Answer(s, r)
       PROVE  HttpTypeOK'
  <2>1. PICK v \in {"none", "looking", "handling", "done"} :
          request' = [request EXCEPT ![s][r] = v]
    BY <1>12 DEF Accept, ServeHTTP, Answer
  <2>2. request' \in [Servers -> [Requests -> {"none", "looking", "handling", "done"}]]
    BY <2>1
  <2>3. UNCHANGED <<ctxDone, phase, handlerSet, serve, shut, closing, err, crashed>>
    BY <1>12 DEF Accept, ServeHTTP, Answer
  <2> QED
    BY <2>2, <2>3
<1>13. CASE Cancel
  BY <1>13 DEF Cancel
<1> QED
  BY <1>1, <1>2, <1>3, <1>4, <1>5, <1>6, <1>7, <1>8, <1>9, <1>10, <1>11, <1>12, <1>13
  DEF ServerStep, RequestStep

(***************************************************************************)
(* A step of the fan-in keeps the types of its state.                      *)
(***************************************************************************)
LEMMA FanInType ==
  ASSUME FITypeOK,
         \A i \in Inputs : routine[i] = "send" => n[i] # 0,
         \/ \E i \in Inputs : Input(i) \/ CloseInput(i) \/ ReceiveFrom(i) \/ Deliver(i) \/ Done(i)
         \/ \E c \in Closers : BeginWait(c) \/ Wait(c) \/ Close(c)
  PROVE  FITypeOK'
<1> USE DEF FITypeOK
<1>1. ASSUME NEW i \in Inputs, Input(i)
      PROVE  FITypeOK'
  BY <1>1 DEF Input
<1>2. ASSUME NEW i \in Inputs, CloseInput(i)
      PROVE  FITypeOK'
  BY <1>2 DEF CloseInput
<1>3. ASSUME NEW i \in Inputs, ReceiveFrom(i)
      PROVE  FITypeOK'
  BY <1>3, ValuesAssumption DEF ReceiveFrom
<1>4. ASSUME NEW i \in Inputs, Deliver(i)
      PROVE  FITypeOK'
  <2>1. n[i] \in 1..MaxValues
    BY <1>4, ValuesAssumption DEF Deliver
  <2> QED
    BY <1>4, <2>1 DEF Deliver, Value
<1>5. ASSUME NEW i \in Inputs, Done(i)
      PROVE  FITypeOK'
  BY <1>5 DEF Done
<1>6. ASSUME NEW c \in Closers, BeginWait(c) \/ Wait(c) \/ Close(c)
      PROVE  FITypeOK'
  BY <1>6 DEF BeginWait, Wait, Close
<1> QED
  BY <1>1, <1>2, <1>3, <1>4, <1>5, <1>6

(***************************************************************************)
(* Every step keeps the type of the state.                                 *)
(***************************************************************************)
LEMMA KeepsType == TypeOK /\ Started /\ Merging /\ Next => TypeOK'
<1> SUFFICES ASSUME TypeOK, Started, Merging, Next
             PROVE  TypeOK'
  OBVIOUS
<1> DEFINE Chain == /\ loggers \in Seq(Servers)
                    /\ stage \in {"start", "handler", "input", "dummy", "autoClose",
                                  "running", "failed"}
                    /\ at \in Nat
<1>1. HttpTypeOK /\ FITypeOK /\ Chain
  BY DEF TypeOK
<1>2. \A i \in Inputs : routine[i] = "send" => n[i] # 0
  BY DEF Merging
<1>3. \A s \in Servers : s \in Inputs
  BY ChainAssumption
<1>4. stage \in {"start", "handler", "input"} => loggers[at] \in Servers
  BY <1>1 DEF Started
<1>5. ASSUME UNCHANGED httpVars
      PROVE  HttpTypeOK'
  BY <1>1, <1>5 DEF httpVars, HttpTypeOK
<1>6. ASSUME UNCHANGED fiVars
      PROVE  FITypeOK'
  BY <1>1, <1>6 DEF fiVars, FITypeOK
<1>7. ASSUME UNCHANGED chainVars
      PROVE  Chain'
  BY <1>1, <1>7 DEF chainVars
<1>8. CASE StartLogger \/ StartFails
  BY <1>8, <1>1, <1>4, <1>6, HttpType DEF StartLogger, StartFails, TypeOK
<1>9. CASE SetMetricsHandler
  BY <1>9, <1>1, <1>4, <1>6, HttpType DEF SetMetricsHandler, NextLogger, TypeOK
<1>10. CASE AddInput
  BY <1>10, <1>1, <1>2, <1>3, <1>4, <1>5, FanInType DEF AddInput, NextLogger, TypeOK
<1>11. CASE AddDummy
  BY <1>11, <1>1, <1>2, <1>5, FanInType, ChainAssumption DEF AddDummy, TypeOK
<1>12. CASE AutoClose
  BY <1>12, <1>1, <1>2, <1>5, FanInType DEF AutoClose, TypeOK
<1>13. CASE ContextCancelHandler
  BY <1>13, <1>1, <1>2, <1>5, <1>7, FanInType, ChainAssumption DEF ContextCancelHandler, TypeOK
<1>14. ASSUME NEW s \in Servers, ReceiveErr(s) \/ CloseServer(s)
       PROVE  TypeOK'
  <2>1. HttpTypeOK'
    BY <1>14, <1>1, HttpType DEF ReceiveErr, CloseServer
  <2>2. FITypeOK'
    BY <1>14, <1>1, <1>2, <1>3, FanInType DEF ReceiveErr, CloseServer
  <2> QED
    BY <1>14, <1>7, <2>1, <2>2 DEF ReceiveErr, CloseServer, TypeOK
<1>15. ASSUME NEW s \in Servers,
              ServerStep(s) \/ RequestStep(s) \/ ServeFails(s),
              UNCHANGED <<chainVars, fiVars>>
       PROVE  TypeOK'
  BY <1>15, <1>1, <1>6, <1>7, HttpType DEF TypeOK
<1>16. ASSUME NEW i \in Inputs, Watch(i)
       PROVE  TypeOK'
  BY <1>16, <1>1, <1>2, <1>5, <1>7, FanInType DEF Watch, TypeOK
<1>17. CASE FanInStep
  BY <1>17, <1>1, <1>2, <1>5, <1>7, FanInType DEF FanInStep, TypeOK
<1>18. CASE Cancel /\ UNCHANGED <<chainVars, fiVars>>
  <2>1. HttpTypeOK'
    BY <1>18, <1>1 DEF Cancel, HttpTypeOK
  <2> QED
    BY <1>18, <1>6, <1>7, <2>1 DEF TypeOK
<1> QED
  BY <1>8, <1>9, <1>10, <1>11, <1>12, <1>13, <1>14, <1>15, <1>16, <1>17, <1>18
  DEF Next, Step, World

-----------------------------------------------------------------------------
(***************************************************************************)
(* Every step keeps what is known of a server's goroutines: a server that  *)
(* is closing accepts nothing, and one that Shutdown found idle stays so.  *)
(***************************************************************************)
LEMMA KeepsServing == TypeOK /\ Started /\ Serving /\ Next => Serving'
<1> SUFFICES ASSUME TypeOK, Started, Serving, Next
             PROVE  Serving'
  OBVIOUS
<1>1. HttpTypeOK
  BY DEF TypeOK
<1> USE <1>1 DEF HttpTypeOK, Serving, Idle
<1>2. ASSUME UNCHANGED <<phase, serve, shut, closing, err, request>>
      PROVE  Serving'
  BY <1>2
<1>3. ASSUME NEW s \in Servers, Listen(s)
      PROVE  Serving'
  BY <1>3 DEF Listen
<1>4. ASSUME NEW s \in Servers, ListenFails(s)
      PROVE  Serving'
  BY <1>4 DEF ListenFails
<1>5. ASSUME NEW s \in Servers, Serve(s)
      PROVE  Serving'
  BY <1>5 DEF Serve
<1>6. ASSUME NEW s \in Servers, ServeEnds(s) \/ ServeFails(s)
      PROVE  Serving'
  BY <1>6 DEF ServeEnds, ServeFails, Accepting
<1>7. ASSUME NEW s \in Servers, HandOver(s)
      PROVE  Serving'
  BY <1>7 DEF HandOver
<1>8. ASSUME NEW s \in Servers, Drop(s)
      PROVE  Serving'
  BY <1>8 DEF Drop
<1>9. ASSUME NEW s \in Servers, Select(s)
      PROVE  Serving'
  BY <1>9 DEF Select
<1>10. ASSUME NEW s \in Servers, Shutdown(s)
       PROVE  Serving'
  BY <1>10 DEF Shutdown
<1>11. ASSUME NEW s \in Servers, ShutdownReturns(s)
       PROVE  Serving'
  BY <1>11 DEF ShutdownReturns
<1>12. ASSUME NEW s \in Servers, ShutdownTimesOut(s)
       PROVE  Serving'
  BY <1>12 DEF ShutdownTimesOut
<1>13. ASSUME NEW s \in Servers, SendErr(s) \/ CloseWait(s)
       PROVE  Serving'
  BY <1>13 DEF SendErr, CloseWait
<1>14. ASSUME NEW s \in Servers, NEW r \in Requests, Accept(s, r)
       PROVE  Serving'
  BY <1>14 DEF Accept, Accepting
<1>15. ASSUME NEW s \in Servers, NEW r \in Requests, ServeHTTP(s, r) \/ Answer(s, r)
       PROVE  Serving'
  <2>1. ~Idle(s) /\ serve[s] # "off"
    BY <1>15 DEF ServeHTTP, Answer
  <2>2. UNCHANGED <<phase, serve, shut, closing, err>>
    BY <1>15 DEF ServeHTTP, Answer
  <2>3. \A t \in Servers \ {s} : request'[t] = request[t]
    BY <1>15 DEF ServeHTTP, Answer
  <2> QED
    BY <2>1, <2>2, <2>3
<1>16. stage = "start" => loggers[at] \in Servers
  BY DEF TypeOK, Started
<1>17. CASE StartLogger \/ StartFails
  BY <1>17, <1>16, <1>3, <1>4 DEF StartLogger, StartFails
<1>18. CASE SetMetricsHandler
  BY <1>18, <1>2 DEF SetMetricsHandler, SetHandler
<1>19. CASE AddInput \/ AddDummy \/ AutoClose \/ ContextCancelHandler \/ FanInStep
  BY <1>19, <1>2 DEF AddInput, AddDummy, AutoClose, ContextCancelHandler, FanInStep, httpVars
<1>20. ASSUME NEW s \in Servers, ReceiveErr(s) \/ CloseServer(s)
       PROVE  Serving'
  BY <1>20, <1>13 DEF ReceiveErr, CloseServer
<1>21. ASSUME NEW i \in Inputs, Watch(i)
       PROVE  Serving'
  BY <1>21, <1>2 DEF Watch, httpVars
<1>22. CASE Cancel
  BY <1>22, <1>2 DEF Cancel
<1> QED
  BY <1>5, <1>6, <1>7, <1>8, <1>9, <1>10, <1>11, <1>12, <1>14, <1>15, <1>17,
     <1>18, <1>19, <1>20, <1>21, <1>22
  DEF Next, Step, World, ServerStep, RequestStep

-----------------------------------------------------------------------------
(***************************************************************************)
(* Every step keeps what is known of Start.                                *)
(***************************************************************************)
LEMMA KeepsStarted == TypeOK /\ Started /\ Serving /\ Next => Started'
<1> SUFFICES ASSUME TypeOK, Started, Serving, Next
             PROVE  Started'
  OBVIOUS
<1>1. /\ serve \in [Servers -> {"off", "begin", "serving", "returned", "done"}]
      /\ routine \in [Inputs -> {"off", "recv", "send", "done", "panicked"}]
      /\ loggers \in Seq(Servers) /\ Len(loggers) \in Nat /\ at \in Nat
      /\ \A k \in 1..Len(loggers) : loggers[k] \in Servers
  BY DEF TypeOK, HttpTypeOK, FITypeOK
<1>2. \A s \in Servers : s \in Inputs
  BY ChainAssumption
<1>3. ASSUME UNCHANGED chainVars,
             \A i \in Inputs : routine'[i] = "off" => routine[i] = "off",
             \A s \in Servers : serve'[s] # "off" => serve[s] # "off"
      PROVE  Started'
  <2>1. UNCHANGED <<loggers, stage, at>>
    BY <1>3 DEF chainVars
  <2>2. \A k \in 1..Len(loggers) : routine'[loggers[k]] = "off" => routine[loggers[k]] = "off"
    BY <1>1, <1>2, <1>3
  <2>3. routine'[Dummy] = "off" => routine[Dummy] = "off"
    BY <1>3, ChainAssumption
  <2> QED
    BY <1>1, <1>3, <2>1, <2>2, <2>3 DEF Started
<1>4. CASE StartLogger
  BY <1>4, <1>1 DEF StartLogger, Listen, Started
<1>5. CASE StartFails
  BY <1>5, <1>1 DEF StartFails, ListenFails, Started
<1>6. CASE SetMetricsHandler
  BY <1>6, <1>1 DEF SetMetricsHandler, SetHandler, NextLogger, Started, fiVars
<1>7. CASE AddInput
  <2>1. /\ loggers[at] \in Inputs /\ at \in 1..Len(loggers)
        /\ UNCHANGED <<loggers, serve>>
        /\ routine' = [routine EXCEPT ![loggers[at]] = "recv"]
        /\ \A k \in 1..(at - 1) : routine[loggers[k]] # "off"
    BY <1>7, <1>1, <1>2 DEF AddInput, Input, NextLogger, httpVars, Started
  <2>2. \A k \in 1..at : routine'[loggers[k]] # "off"
    <3> SUFFICES ASSUME NEW k \in 1..at
                 PROVE  routine'[loggers[k]] # "off"
      OBVIOUS
    <3>1. k = at \/ k \in 1..(at - 1)
      BY <1>1
    <3> QED
      BY <2>1, <3>1, <1>1, <1>2
  <2>3. CASE at < Len(loggers)
    <3>1. stage' = "input" /\ at' = at + 1 /\ at' \in 1..Len(loggers) /\ at' - 1 = at
      BY <1>7, <1>1, <2>3 DEF AddInput, NextLogger
    <3> QED
      BY <2>1, <2>2, <3>1 DEF Started
  <2>4. CASE ~(at < Len(loggers))
    <3>1. stage' = "dummy" /\ at = Len(loggers)
      BY <1>7, <1>1, <2>1, <2>4 DEF AddInput, NextLogger
    <3> QED
      BY <2>1, <2>2, <3>1 DEF Started
  <2> QED
    BY <2>3, <2>4
<1>8. CASE AddDummy
  BY <1>8, <1>1, <1>2, ChainAssumption DEF AddDummy, Input, Started, httpVars
<1>9. CASE AutoClose
  BY <1>9, <1>1 DEF AutoClose, BeginWait, Started, httpVars
<1>10. CASE ContextCancelHandler
  BY <1>10, <1>3 DEF ContextCancelHandler, CloseInput, httpVars
<1>11. ASSUME NEW s \in Servers, ReceiveErr(s)
       PROVE  Started'
  BY <1>11, <1>1, <1>2, <1>3 DEF ReceiveErr, SendErr, ReceiveFrom
<1>12. ASSUME NEW s \in Servers, CloseServer(s)
       PROVE  Started'
  BY <1>12, <1>3 DEF CloseServer, CloseWait, CloseInput
<1>13. ASSUME NEW s \in Servers, ServerStep(s) \/ ServeFails(s), UNCHANGED <<chainVars, fiVars>>
       PROVE  Started'
  <2>1. serve' = serve \/ (serve[s] # "off" /\ \E v : serve' = [serve EXCEPT ![s] = v])
    BY <1>13 DEF ServerStep, Serve, ServeEnds, ServeFails, HandOver, Drop, Select, Shutdown,
                 ShutdownReturns, ShutdownTimesOut, Accepting
  <2>2. \A t \in Servers : serve'[t] # "off" => serve[t] # "off"
    BY <1>1, <2>1
  <2> QED
    BY <1>13, <1>3, <2>2 DEF fiVars
<1>14. ASSUME NEW s \in Servers, RequestStep(s), UNCHANGED <<chainVars, fiVars>>
       PROVE  Started'
  BY <1>14, <1>3 DEF RequestStep, Accept, ServeHTTP, Answer, fiVars
<1>15. ASSUME NEW i \in Inputs, Watch(i)
       PROVE  Started'
  BY <1>15, <1>1, <1>3 DEF Watch, Deliver, httpVars
<1>16. CASE FanInStep
  BY <1>16, <1>1, <1>3 DEF FanInStep, Done, Wait, Close, httpVars
<1>17. CASE Cancel /\ UNCHANGED <<chainVars, fiVars>>
  BY <1>17, <1>3 DEF Cancel, fiVars
<1> QED
  BY <1>4, <1>5, <1>6, <1>7, <1>8, <1>9, <1>10, <1>11, <1>12, <1>13, <1>14,
     <1>15, <1>16, <1>17
  DEF Next, Step, World

-----------------------------------------------------------------------------
(***************************************************************************)
(* Every step keeps the chain of conclusions from the merged channel back  *)
(* to the servers and the context.                                         *)
(***************************************************************************)
LEMMA KeepsMerging == TypeOK /\ Started /\ Serving /\ Merging /\ Next => Merging'
<1> SUFFICES ASSUME TypeOK, Started, Serving, Merging, Next
             PROVE  Merging'
  OBVIOUS
<1>1. /\ shut \in [Servers -> {"off", "begin", "select", "shutting", "send", "close", "done"}]
      /\ routine \in [Inputs -> {"off", "recv", "send", "done", "panicked"}]
      /\ closer \in [Closers -> {"off", "wait", "close", "done"}]
      /\ n \in [Inputs -> 0..MaxValues] /\ MaxValues \in Nat
  BY ValuesAssumption DEF TypeOK, HttpTypeOK, FITypeOK
<1>2. /\ \A s \in Servers : s \in Inputs /\ s # Dummy
      /\ Dummy \in Inputs
  BY ChainAssumption
<1>3. stage # "running" => \A c \in Closers : closer[c] = "off"
  BY DEF Merging
<1>4. ASSUME UNCHANGED fiVars,
             \A s \in Servers : shut[s] = "done" => shut'[s] = "done",
             ctxDone => ctxDone',
             stage = "running" => stage' = "running"
      PROVE  Merging'
  BY <1>4 DEF Merging, fiVars, Counted
<1>5. CASE StartLogger
  <2>1. loggers[at] \in Servers /\ shut[loggers[at]] = "off"
    BY <1>5 DEF StartLogger, Listen, TypeOK, Started, Serving
  <2> QED
    BY <1>5, <1>1, <1>4, <2>1 DEF StartLogger, Listen
<1>6. CASE StartFails
  BY <1>6, <1>4 DEF StartFails, ListenFails
<1>7. CASE SetMetricsHandler
  BY <1>7, <1>4 DEF SetMetricsHandler, SetHandler
<1>8. ASSUME NEW i \in Inputs, Input(i), stage # "running", UNCHANGED httpVars
      PROVE  Merging'
  <2>1. \A c \in Closers : closer'[c] = "off"
    BY <1>8, <1>3 DEF Input
  <2>2. UNCHANGED <<inputs, closed, n, shut, ctxDone>>
    BY <1>8 DEF Input, httpVars
  <2>3. ~closed
    BY <1>8 DEF Input
  <2>4. \A j \in Inputs : routine'[j] = routine[j] \/ routine'[j] = "recv"
    BY <1>8, <1>1 DEF Input
  <2> QED
    BY <2>1, <2>2, <2>3, <2>4 DEF Merging
<1>9. CASE AddInput
  BY <1>9, <1>2, <1>8 DEF AddInput, TypeOK, Started
<1>10. CASE AddDummy
  BY <1>10, <1>2, <1>8 DEF AddDummy
<1>11. CASE AutoClose
  <2>1. PICK c \in Closers : BeginWait(c)
    BY <1>11 DEF AutoClose
  <2>2. /\ closer' = [closer EXCEPT ![c] = "wait"] /\ closer[c] = "off"
        /\ stage' = "running"
        /\ UNCHANGED <<n, inputs, routine, closed, shut, ctxDone>>
    BY <1>11, <2>1 DEF AutoClose, BeginWait, httpVars
  <2> QED
    BY <1>1, <2>2 DEF Merging, Counted
<1>12. CASE ContextCancelHandler
  BY <1>12, <1>2 DEF ContextCancelHandler, CloseInput, Merging, Counted, httpVars, chainVars
<1>13. ASSUME NEW s \in Servers, ReceiveErr(s)
       PROVE  Merging'
  <2>1. /\ routine[s] = "recv" /\ routine' = [routine EXCEPT ![s] = "send"]
        /\ n' = [n EXCEPT ![s] = @ + 1]
        /\ shut' = [shut EXCEPT ![s] = "close"] /\ shut[s] = "send"
        /\ UNCHANGED <<inputs, closer, closed, ctxDone, stage>>
    BY <1>13 DEF ReceiveErr, SendErr, ReceiveFrom, chainVars
  <2>2. \A i \in Inputs : Counted(i)' <=> Counted(i)
    BY <1>1, <1>2, <2>1 DEF Counted
  <2>3. \A i \in Inputs : routine'[i] = "send" => n'[i] # 0
    BY <1>1, <1>2, <2>1 DEF Merging
  <2>4. \A i \in Inputs : routine'[i] = routine[i] \/ routine'[i] = "send"
    BY <1>1, <2>1
  <2>5. \A t \in Servers : shut[t] = "done" => shut'[t] = "done"
    BY <1>1, <2>1
  <2> QED
    BY <2>1, <2>2, <2>3, <2>4, <2>5 DEF Merging
<1>14. ASSUME NEW s \in Servers, CloseServer(s)
       PROVE  Merging'
  <2>1. /\ shut' = [shut EXCEPT ![s] = "done"]
        /\ inputs' = inputs \cup {s}
        /\ UNCHANGED <<n, routine, closer, closed, ctxDone, stage>>
    BY <1>14 DEF CloseServer, CloseWait, CloseInput, chainVars
  <2> QED
    BY <1>1, <1>2, <2>1 DEF Merging, Counted
<1>15. ASSUME NEW s \in Servers, ServerStep(s), UNCHANGED <<chainVars, fiVars>>
       PROVE  Merging'
  <2>1. shut' = shut \/ (shut[s] # "done" /\ \E v : shut' = [shut EXCEPT ![s] = v])
    BY <1>15 DEF ServerStep, Serve, ServeEnds, HandOver, Drop, Select, Shutdown,
                 ShutdownReturns, ShutdownTimesOut
  <2>2. UNCHANGED ctxDone
    BY <1>15 DEF ServerStep, Serve, ServeEnds, HandOver, Drop, Select, Shutdown,
                 ShutdownReturns, ShutdownTimesOut
  <2>3. \A t \in Servers : shut[t] = "done" => shut'[t] = "done"
    BY <1>1, <2>1
  <2> QED
    BY <1>15, <1>4, <2>2, <2>3 DEF chainVars
<1>16. ASSUME NEW s \in Servers, RequestStep(s) \/ ServeFails(s), UNCHANGED <<chainVars, fiVars>>
       PROVE  Merging'
  BY <1>16, <1>4 DEF RequestStep, Accept, ServeHTTP, Answer, ServeFails, chainVars
<1>17. ASSUME NEW i \in Inputs, Watch(i)
       PROVE  Merging'
  <2>1. /\ routine[i] = "send" /\ routine' = [routine EXCEPT ![i] = "recv"]
        /\ UNCHANGED <<n, inputs, closer, closed, ctxDone, stage, shut>>
    BY <1>17 DEF Watch, Deliver, chainVars, httpVars
  <2>2. \A j \in Inputs : Counted(j)' <=> Counted(j)
    BY <1>1, <2>1 DEF Counted
  <2>3. \A j \in Inputs : routine'[j] = routine[j] \/ routine'[j] = "recv"
    BY <1>1, <2>1
  <2> QED
    BY <2>1, <2>2, <2>3 DEF Merging
<1>18. ASSUME NEW i \in Inputs, Done(i), UNCHANGED <<chainVars, httpVars>>
       PROVE  Merging'
  BY <1>18, <1>1 DEF Done, Merging, Counted, chainVars, httpVars
<1>19. ASSUME NEW c \in Closers, Wait(c) \/ Close(c), UNCHANGED <<chainVars, httpVars>>
       PROVE  Merging'
  BY <1>19, <1>1 DEF Wait, Close, Merging, Counted, chainVars, httpVars
<1>20. CASE Cancel /\ UNCHANGED <<chainVars, fiVars>>
  BY <1>20, <1>4 DEF Cancel, chainVars
<1> QED
  BY <1>5, <1>6, <1>7, <1>9, <1>10, <1>11, <1>12, <1>13, <1>14, <1>15, <1>16,
     <1>17, <1>18, <1>19, <1>20
  DEF Next, Step, World, FanInStep

(***************************************************************************)
(* IInv is an invariant of the chain.                                      *)
(***************************************************************************)
THEOREM Inductive == Spec => []IInv
<1>1. IInv /\ [Next]_vars => IInv'
  <2> SUFFICES ASSUME IInv, [Next]_vars
               PROVE  IInv'
    OBVIOUS
  <2>1. CASE Next
    BY <2>1, KeepsType, KeepsStarted, KeepsServing, KeepsMerging DEF IInv
  <2>2. CASE UNCHANGED vars
    BY <2>2 DEF vars, httpVars, fiVars, chainVars, IInv, TypeOK, HttpTypeOK, FITypeOK,
                Started, Serving, Merging, Idle, Counted
  <2> QED
    BY <2>1, <2>2
<1> QED
  BY <1>1, InitIInv, PTL DEF Spec

-----------------------------------------------------------------------------
\* When a closer has seen all goroutines of the fan-in end, the context is
\* done, every server of the chain has gone through shutdownHandler and
\* accepts nothing, and the other servers were never started.
AllStopped ==
  \A c \in Closers : closer[c] \in {"close", "done"} =>
    /\ stage = "running" /\ ctxDone
    /\ \A s \in Servers : \/ serve[s] = "off"
                          \/ shut[s] = "done" /\ (s \in closing \/ serve[s] = "done")

(***************************************************************************)
(* AllStopped follows from IInv.                                           *)
(***************************************************************************)
LEMMA StopsAll == IInv => AllStopped
<1> SUFFICES ASSUME IInv, NEW c \in Closers, closer[c] \in {"close", "done"}
             PROVE  /\ stage = "running" /\ ctxDone
                    /\ \A s \in Servers :
                         \/ serve[s] = "off"
                         \/ shut[s] = "done" /\ (s \in closing \/ serve[s] = "done")
  BY DEF AllStopped
<1> USE DEF IInv
<1>1. stage = "running"
  BY DEF Merging
<1>2. \A i \in Inputs : routine[i] # "off" => i \in inputs
  BY DEF Merging, Counted, TypeOK, FITypeOK
<1>3. ctxDone
  BY <1>1, <1>2, ChainAssumption DEF Started, Merging
<1>4. ASSUME NEW s \in Servers, serve[s] # "off"
      PROVE  shut[s] = "done" /\ (s \in closing \/ serve[s] = "done")
  <2>1. PICK k \in 1..Len(loggers) : loggers[k] = s
    BY <1>4 DEF Started
  <2>2. routine[s] # "off"
    BY <1>1, <2>1 DEF Started
  <2>3. shut[s] = "done"
    BY <1>2, <2>2, ChainAssumption DEF Merging
  <2> QED
    BY <2>3 DEF Serving
<1> QED
  BY <1>1, <1>3, <1>4

(***************************************************************************)
(* The merged channel is closed only when the context is done, and a       *)
(* server that reported no error has answered all of its requests then.    *)
(***************************************************************************)
THEOREM ClosesClean == Spec => []CleanClose
<1>1. IInv => CleanClose
  <2> SUFFICES ASSUME IInv, closed
               PROVE  /\ ctxDone
                      /\ stage = "running"
                      /\ \A s \in Servers : err[s] \in {"none", "nil"} => Idle(s)
    BY DEF CleanClose
  <2>1. PICK c \in Closers : closer[c] = "done"
    BY DEF IInv, Merging
  <2>2. \A s \in Servers : serve[s] = "off" \/ shut[s] = "done"
    BY <2>1, StopsAll DEF AllStopped
  <2>3. \A s \in Servers : err[s] \in {"none", "nil"} => Idle(s)
    BY <2>2 DEF IInv, Serving, Idle
  <2> QED
    BY <2>1, <2>3, StopsAll DEF AllStopped
<1> QED
  BY <1>1, Inductive, PTL

-----------------------------------------------------------------------------
\* The refinement mapping of phase and busy.
Phase == IF Returned THEN stage ELSE "new"
Busy == \E s \in Servers : Accepting(s)

(***************************************************************************)
(* Every step of the chain is a step of a Service or leaves the Service's  *)
(* state alone.                                                            *)
(***************************************************************************)
LEMMA StepRefines ==
  IInv /\ IInv' /\ AllStopped' /\ [Next]_vars => [Contract!Next]_(Contract!vars)
<1> SUFFICES ASSUME IInv, IInv', AllStopped', [Next]_vars
             PROVE  [Contract!Next]_(Contract!vars)
  OBVIOUS
<1>1. ASSUME UNCHANGED <<Phase, closed, merged>>
      PROVE  [Contract!Next]_(Contract!vars)
  <2>1. CASE UNCHANGED Busy
    BY <1>1, <2>1 DEF Contract!vars, Phase, Busy
  <2>2. CASE ~ UNCHANGED Busy
    <3>1. Busy' = ~Busy
      BY <2>2 DEF Busy
    <3>2. closed => ~Busy'
      <4> SUFFICES ASSUME closed
                   PROVE  ~Busy'
        OBVIOUS
      <4>1. PICK c \in Closers : closer'[c] = "done"
        BY <1>1 DEF IInv, Merging
      <4>2. \A s \in Servers : serve'[s] = "off" \/ s \in closing' \/ serve'[s] = "done"
        BY <4>1 DEF AllStopped
      <4> QED
        BY <4>2 DEF Busy, Accepting
    <3> QED
      BY <1>1, <3>1, <3>2 DEF Contract!Next, Contract!Work, Phase, Busy
  <2> QED
    BY <2>1, <2>2
<1>2. CASE StartLogger \/ SetMetricsHandler
  BY <1>1, <1>2 DEF StartLogger, SetMetricsHandler, NextLogger, fiVars, Phase, Returned
<1>3. CASE StartFails
  <2>1. Phase = "new" /\ Phase' = "failed"
    BY <1>3 DEF StartFails, Phase, Returned
  <2>2. UNCHANGED <<serve, closing, closed, merged>>
    BY <1>3 DEF StartFails, ListenFails, fiVars
  <2>3. Busy' = Busy /\ Busy \in BOOLEAN
    BY <2>2 DEF Busy, Accepting
  <2> QED
    BY <2>1, <2>2, <2>3 DEF Contract!Next, Contract!StartFails, Phase, Busy
<1>4. CASE AddInput \/ AddDummy
  BY <1>1, <1>4 DEF AddInput, AddDummy, Input, NextLogger, Phase, Returned
<1>5. CASE AutoClose
  <2>1. Phase = "new" /\ Phase' = "running"
    BY <1>5 DEF AutoClose, Phase, Returned
  <2>2. UNCHANGED <<serve, closing, closed, merged>>
    BY <1>5 DEF AutoClose, BeginWait, httpVars
  <2> QED
    BY <2>1, <2>2 DEF Contract!Next, Contract!Start, Phase, Accepting
<1>6. ASSUME UNCHANGED <<chainVars, closed, merged>>
      PROVE  [Contract!Next]_(Contract!vars)
  BY <1>1, <1>6 DEF chainVars, Phase, Returned
<1>7. CASE ContextCancelHandler
  BY <1>6, <1>7 DEF ContextCancelHandler, CloseInput
<1>8. ASSUME NEW s \in Servers, ReceiveErr(s) \/ CloseServer(s)
      PROVE  [Contract!Next]_(Contract!vars)
  BY <1>6, <1>8 DEF ReceiveErr, ReceiveFrom, CloseServer, CloseInput
<1>9. CASE UNCHANGED <<chainVars, fiVars>>
  BY <1>6, <1>9 DEF fiVars
<1>10. ASSUME NEW i \in Inputs, Watch(i)
       PROVE  [Contract!Next]_(Contract!vars)
  <2>1. Phase = "running" /\ Phase' = "running" /\ ~closed /\ ~closed'
    BY <1>10 DEF Watch, Deliver, Phase, Returned, chainVars
  <2>2. Len(merged') = Len(merged) + 1
    <3>1. merged \in Seq(Inputs \X (1..MaxValues)) /\ merged' = Append(merged, Value(i, n[i]))
      BY <1>10 DEF Watch, Deliver, IInv, TypeOK, FITypeOK
    <3> QED
      BY <3>1
  <2>3. UNCHANGED <<serve, closing>>
    BY <1>10 DEF Watch, httpVars
  <2> QED
    BY <2>1, <2>2, <2>3 DEF Contract!Next, Contract!Hand, Phase, Accepting
<1>11. ASSUME NEW i \in Inputs, Done(i), UNCHANGED <<chainVars, httpVars>>
       PROVE  [Contract!Next]_(Contract!vars)
  BY <1>6, <1>11 DEF Done
<1>12. ASSUME NEW c \in Closers, Wait(c), UNCHANGED <<chainVars, httpVars>>
       PROVE  [Contract!Next]_(Contract!vars)
  BY <1>6, <1>12 DEF Wait
<1>13. ASSUME NEW c \in Closers, Close(c), UNCHANGED <<chainVars, httpVars>>
       PROVE  [Contract!Next]_(Contract!vars)
  <2>1. CASE closed
    BY <1>6, <1>13, <2>1 DEF Close
  <2>2. CASE ~closed
    <3>1. closed' /\ UNCHANGED <<serve, closing, merged, stage>>
      BY <1>13 DEF Close, chainVars, httpVars
    <3>2. AllStopped
      BY StopsAll
    <3>3. Phase = "running" /\ Phase' = "running"
      BY <1>13, <3>1, <3>2 DEF Close, AllStopped, Phase, Returned
    <3>4. ~Busy
      BY <1>13, <3>2 DEF Close, AllStopped, Busy, Accepting
    <3> QED
      BY <2>2, <3>1, <3>3, <3>4 DEF Contract!Next, Contract!Close, Phase, Busy, Accepting
  <2> QED
    BY <2>1, <2>2
<1>14. CASE UNCHANGED vars
  BY <1>9, <1>14 DEF vars
<1> QED
  BY <1>2, <1>3, <1>4, <1>5, <1>7, <1>8, <1>9, <1>10, <1>11, <1>12, <1>13, <1>14
  DEF Next, Step, World, FanInStep

(***************************************************************************)
(* The chain implements the Service interface of its loggers: its channel  *)
(* is closed only behind servers that accept nothing, and errors come      *)
(* before.                                                                 *)
(***************************************************************************)
THEOREM Refinement == Spec => ImplementsService
<1>1. Init => Contract!Init
  <2> SUFFICES ASSUME Init
               PROVE  Contract!Init
    OBVIOUS
  <2>1. ~Returned /\ ~closed /\ Len(merged) = 0 /\ ~Busy
    BY DEF Init, HttpInit, FIInit, Returned, Busy, Accepting
  <2> QED
    BY <2>1 DEF Contract!Init, Busy
<1>2. IInv => AllStopped
  BY StopsAll
<1> QED
  BY <1>1, <1>2, Inductive, StepRefines, PTL DEF Spec, ImplementsService, Contract!Spec
=============================================================================
