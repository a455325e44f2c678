--------------------------- MODULE MetricsProofs ---------------------------
(***************************************************************************)
(* Proofs about the metrics logger and the chain it is in, for any         *)
(* configuration, any loggers in any order and any log calls: the loggers  *)
(* hear what their levels promise, the time reported of a metric is that   *)
(* of its latest point in the window, and its value comes from points that *)
(* include all in the window and none from before a silence.  The latter   *)
(* rest on the two loops of the code, over the metrics in collect and over *)
(* the slots in get, whose turns CollectTurns and GetTurns name, and on    *)
(* which points each slot of the ring holds (Holds).                       *)
(***************************************************************************)
EXTENDS Metrics, FoldLemmas

-----------------------------------------------------------------------------
(***************************************************************************)
(* Every logger has a level, and the chain has the highest of them.        *)
(***************************************************************************)
LEMMA LevelOfType ==
  ASSUME NEW i \in DOMAIN Chain
  PROVE  LevelOf[i] \in DOMAIN Rank
<1>1. CASE Chain[i].typ \in {"metrics", "callback"} /\ Chain[i].level \in DOMAIN ParseLevel
  BY <1>1 DEF LevelOf, ParseLevel, Rank
<1>2. CASE Chain[i].typ = "logrus" /\ Chain[i].level \in DOMAIN LogrusRank
  BY <1>2 DEF LevelOf, LogrusRank, LogrusLevel, Rank
<1>3. CASE Chain[i].typ \in {"entry", "null"}
  BY <1>3 DEF LevelOf, Rank
<1> QED
  BY <1>1, <1>2, <1>3, LevelAssumption

(***************************************************************************)
(* The level of the chain is at least that of each of its loggers.         *)
(***************************************************************************)
LEMMA LevelIsHighest ==
  /\ Level \in DOMAIN Rank
  /\ \A i \in DOMAIN Chain : Rank[Level] >= Rank[LevelOf[i]]
<1> DEFINE Highest(level) == /\ \A i \in DOMAIN Chain : Rank[level] >= Rank[LevelOf[i]]
                             /\ \E i \in DOMAIN Chain : level = LevelOf[i]
           T == {t \in Nat : \E i \in DOMAIN Chain : t = 4 - Rank[LevelOf[i]]}
<1>1. \A level \in DOMAIN Rank : Rank[level] \in 0..4
  BY DEF Rank
<1>2. \A i \in DOMAIN Chain : 4 - Rank[LevelOf[i]] \in T
  BY <1>1, LevelOfType
<1>3. T \subseteq Nat /\ T # {}
  BY <1>2, ChainAssumption
<1>4. PICK t \in T : \A y \in T : t <= y
  <2> HIDE DEF T
  <2> QED
    BY <1>3, LeastNat
<1>5. PICK i \in DOMAIN Chain : t = 4 - Rank[LevelOf[i]]
  BY <1>4
<1>6. ASSUME NEW j \in DOMAIN Chain
      PROVE  Rank[LevelOf[i]] >= Rank[LevelOf[j]]
  <2>1. 4 - Rank[LevelOf[i]] <= 4 - Rank[LevelOf[j]]
    BY <1>2, <1>4, <1>5
  <2>2. Rank[LevelOf[i]] \in 0..4 /\ Rank[LevelOf[j]] \in 0..4
    BY <1>1, LevelOfType
  <2> QED
    BY <2>1, <2>2
<1>7. LevelOf[i] \in DOMAIN Rank /\ Highest(LevelOf[i])
  BY <1>6, LevelOfType
<1>8. Level = CHOOSE level \in DOMAIN Rank : Highest(level)
  BY DEF Level
<1> HIDE DEF Highest
<1>9. Level \in DOMAIN Rank /\ Highest(Level)
  BY <1>7, <1>8
<1> QED
  BY <1>9 DEF Highest

(***************************************************************************)
(* A callback or Logrus logger hears exactly what its level promises; a    *)
(* Logrus entry, whose level is not known, at most everything.             *)
(***************************************************************************)
LEMMA HearsItsLevel ==
  ASSUME NEW i \in DOMAIN Chain, NEW level \in DOMAIN Rank
  PROVE  /\ Hears(i, level) => Rank[LevelOf[i]] >= Rank[level]
         /\ Chain[i].typ \in {"callback", "logrus"} =>
              (Hears(i, level) <=> Rank[LevelOf[i]] >= Rank[level])
<1>1. level \in {"Panic", "Error", "Warn", "Info", "Debug"}
  BY DEF Rank
<1>2. \A l \in DOMAIN Rank : Rank[l] \in 0..4
  BY DEF Rank
<1>3. Rank["Panic"] = 0 /\ Rank["Debug"] = 4
  BY DEF Rank
<1>4. CASE Chain[i].typ = "callback"
  BY <1>2, <1>3, <1>4, LevelOfType DEF Hears, CallsBack
<1>5. CASE Chain[i].typ = "logrus"
  <2>1. Chain[i].level \in DOMAIN LogrusRank
    BY <1>5, LevelAssumption
  <2>2. LevelOf[i] = LogrusLevel[Chain[i].level]
    BY <1>5 DEF LevelOf
  <2>3. \A l \in DOMAIN LogrusRank :
          LogrusRank[l] >= Rank[level] <=> Rank[LogrusLevel[l]] >= Rank[level]
    BY <1>1 DEF LogrusRank, LogrusLevel, Rank
  <2> QED
    BY <1>5, <2>1, <2>2, <2>3 DEF Hears, Writes
<1>6. CASE Chain[i].typ = "entry"
  <2>1. LevelOf[i] = "Debug"
    BY <1>6 DEF LevelOf
  <2> QED
    BY <1>2, <1>3, <1>6, <2>1
<1>7. CASE Chain[i].typ \notin {"callback", "logrus", "entry"}
  BY <1>7 DEF Hears
<1> QED
  BY <1>4, <1>5, <1>6, <1>7

(***************************************************************************)
(* Whoever asks IsLevel before logging keeps nothing from any logger.      *)
(***************************************************************************)
LEMMA IsLevelCovers ==
  ASSUME NEW i \in DOMAIN Chain, NEW level \in DOMAIN Rank, Hears(i, level)
  PROVE  IsLevel(level)
<1>1. \A l \in DOMAIN Rank : Rank[l] \in 0..4
  BY DEF Rank
<1>2. Rank[LevelOf[i]] >= Rank[level]
  BY HearsItsLevel
<1>3. Rank[Level] >= Rank[LevelOf[i]] /\ Level \in DOMAIN Rank
  BY LevelIsHighest
<1>4. LevelOf[i] \in DOMAIN Rank
  BY LevelOfType
<1>5. Rank[Level] \in Int /\ Rank[LevelOf[i]] \in Int /\ Rank[level] \in Int
  BY <1>1, <1>3, <1>4
<1> QED
  BY <1>2, <1>3, <1>5 DEF IsLevel

\* The loggers that the second half of ChainTellsAll compares.
Listeners == {i \in DOMAIN Chain : Chain[i].typ \in {"callback", "logrus"}}

\* How many entries the second of two loggers may have missed.
Missed(i, j) == IF i < Self /\ Self < j THEN broken ELSE 0

\* The inductive invariant: counters, and the second half of ChainTellsAll.
Counted ==
  /\ heard \in [DOMAIN Chain -> Nat]
  /\ broken \in Nat
  /\ \A i, j \in Listeners :
       i < j /\ LevelOf[i] = LevelOf[j] =>
         heard[j] <= heard[i] /\ heard[i] - heard[j] <= Missed(i, j)

(***************************************************************************)
(* A log call, whatever collect makes of it, keeps the counters of two     *)
(* loggers of one level together: the second is reached whenever the first *)
(* is, unless the metrics logger between them has panicked.                *)
(***************************************************************************)
LEMMA LogKeepsCounted ==
  ASSUME Counted, NEW call \in Calls, NEW delays, Log(call, delays)
  PROVE  Counted'
<1> DEFINE panics == (IF Collects(call.level) THEN collect(call, delays) ELSE Start).panicked
<1>1.   /\ heard' = [i \in DOMAIN Chain |->
             IF Hears(i, call.level) /\ Reached(i, call.level, panics)
             THEN heard[i] + 1 ELSE heard[i]]
        /\ broken' = IF panics /\ call.level # "Panic" THEN broken + 1 ELSE broken
  BY DEF Log
<1> HIDE DEF panics
<1>2. heard' \in [DOMAIN Chain -> Nat] /\ broken' \in Nat
  BY <1>1 DEF Counted
<1>3. Self \in DOMAIN Chain /\ Chain[Self].typ = "metrics" /\ DOMAIN Chain \subseteq Nat
  BY ChainAssumption DEF Self
<1>4. ASSUME NEW i \in Listeners, NEW j \in Listeners, i < j, LevelOf[i] = LevelOf[j]
      PROVE  heard'[j] <= heard'[i] /\ heard'[i] - heard'[j] <= Missed(i, j)'
  <2>1. heard[j] <= heard[i] /\ heard[i] - heard[j] <= Missed(i, j)
    BY <1>4 DEF Counted
  <2>2. i \in DOMAIN Chain /\ j \in DOMAIN Chain /\ heard[i] \in Nat /\ heard[j] \in Nat
    BY DEF Listeners, Counted
  <2>3. Hears(i, call.level) <=> Hears(j, call.level)
    <3>1. call.level \in DOMAIN Rank
      BY LevelAssumption
    <3> QED
      BY <1>4, <2>2, <3>1, HearsItsLevel DEF Listeners
  <2>4. i # Self /\ j # Self
    BY <1>3 DEF Listeners
  <2>5. Reached(j, call.level, panics) => Reached(i, call.level, panics)
    BY <1>3, <1>4, <2>2 DEF Reached
  <2>6. Reached(i, call.level, panics) /\ ~ Reached(j, call.level, panics) =>
          i < Self /\ Self < j /\ broken' = broken + 1
    BY <1>1, <1>3, <1>4, <2>2, <2>4 DEF Reached
  <2>7. Missed(i, j)' = (IF i < Self /\ Self < j THEN broken' ELSE 0) /\ broken' >= broken
        /\ broken \in Nat
    BY <1>1 DEF Missed, Counted
  <2>8. heard'[i] = (IF Hears(i, call.level) /\ Reached(i, call.level, panics)
                     THEN heard[i] + 1 ELSE heard[i])
        /\ heard'[j] = (IF Hears(j, call.level) /\ Reached(j, call.level, panics)
                        THEN heard[j] + 1 ELSE heard[j])
    BY <1>1, <2>2
  <2> QED
    BY <1>2, <2>1, <2>2, <2>3, <2>5, <2>6, <2>7, <2>8 DEF Missed
<1>5. Listeners' = Listeners /\ LevelOf' = LevelOf
  BY DEF Listeners, LevelOf
<1> QED
  BY <1>2, <1>4, <1>5 DEF Counted

(***************************************************************************)
(* In every run two loggers of one level have heard the same but for the   *)
(* calls in which the metrics logger between them panicked.                *)
(***************************************************************************)
THEOREM CountsAgree == Spec => []Counted
<1>1. Init => Counted
  <2> SUFFICES ASSUME Init PROVE Counted
    OBVIOUS
  <2>1. heard = [i \in DOMAIN Chain |-> 0] /\ broken = 0
    BY DEF Init
  <2> QED
    BY <2>1 DEF Counted, Missed, Listeners
<1>2. Counted /\ [Next]_vars => Counted'
  <2> SUFFICES ASSUME Counted, [Next]_vars PROVE Counted'
    OBVIOUS
  <2>1. CASE Pass \/ UNCHANGED vars
    <3>1. heard' = heard /\ broken' = broken
      BY <2>1 DEF Pass, vars
    <3> QED
      BY <3>1 DEF Counted, Missed
  <2>2. CASE \E call \in Calls : \E delays \in [DOMAIN metrics -> 0..MaxDelay] : Log(call, delays)
    BY <2>2, LogKeepsCounted
  <2> QED
    BY <2>1, <2>2 DEF Next
<1> QED
  BY <1>1, <1>2, PTL DEF Spec

(***************************************************************************)
(* The loggers of a chain hear what their levels promise (chain.Level,     *)
(* log.IsLevel and the log methods of log/chain/log.go): ChainTellsAll     *)
(* holds for any chain with a metrics logger.                              *)
(***************************************************************************)
THEOREM ChainKeepsItsPromise == Spec => []ChainTellsAll
<1>1. Counted => ChainTellsAll
  <2> SUFFICES ASSUME Counted PROVE ChainTellsAll
    OBVIOUS
  <2>1. \A i \in DOMAIN Chain, level \in DOMAIN Rank : Hears(i, level) => IsLevel(level)
    BY IsLevelCovers
  <2>2. ASSUME NEW i \in {k \in DOMAIN Chain : Chain[k].typ \in {"callback", "logrus"}},
               NEW j \in {k \in DOMAIN Chain : Chain[k].typ \in {"callback", "logrus"}},
               i < j, LevelOf[i] = LevelOf[j]
        PROVE  /\ heard[j] =< heard[i]
               /\ heard[i] - heard[j] =< (IF i < Self /\ Self < j THEN broken ELSE 0)
    BY <2>2 DEF Counted, Missed, Listeners
  <2> QED
    BY <2>1, <2>2 DEF ChainTellsAll
<1> QED
  BY <1>1, CountsAgree, PTL

-----------------------------------------------------------------------------
\* m is what collect keeps of the points ps of one name, at time t.
Keeps(m, ps, t) ==
  LET last == ps[Len(ps)]
  IN  IF m.window = 0 THEN m.values = <<last>>
      ELSE /\ m.values = [s \in 1..m.window |-> m.values[s]]
           /\ \A s \in 1..m.window : m.values[s].time \in 0..last.time
           /\ last.time >= From(t, m.window) =>
                /\ m.values[Slot(last.time, m.window)].time = last.time
                /\ m.window = 1 /\ m.agg = "Replace" =>
                     m.values[Slot(last.time, m.window)].value = last.value

\* ps are points in the order of their times, up to t, and at least one.
InOrder(ps, t) ==
  /\ Len(ps) \in Nat \ {0}
  /\ ps = [i \in 1..Len(ps) |-> ps[i]]
  /\ \A i \in 1..Len(ps) : ps[i].time \in 0..t
  /\ \A i, j \in 1..Len(ps) : i <= j => ps[i].time <= ps[j].time

\* What add, get and collect find under a name.
Aggregated(m) ==
  /\ m = [values |-> m.values, agg |-> m.agg, window |-> m.window]
  /\ m.window \in Nat
  /\ m.window * Minute < Begin

(***************************************************************************)
(* The slot of a time is one of the window's.                              *)
(***************************************************************************)
LEMMA SlotInWindow ==
  ASSUME NEW time \in Nat, NEW window \in Nat \ {0}
  PROVE  Slot(time, window) \in 1..window
<1> DEFINE q == time \div Minute
<1>1. q \in Int
  BY TimeAssumption
<1> HIDE DEF q
<1>2. q % window \in 0..(window - 1)
  BY <1>1
<1>3. Slot(time, window) = (q % window) + 1
  BY DEF Slot, q
<1> QED
  BY <1>2, <1>3

(***************************************************************************)
(* A window begins later than time.Time{}.                                 *)
(***************************************************************************)
LEMMA FromPositive ==
  ASSUME NEW window \in Nat, window * Minute < Begin, NEW t \in Nat, t >= Begin
  PROVE  From(t, window) \in Nat \ {0} /\ From(t, window) <= t
<1>1. window * Minute \in Nat /\ Begin \in Nat
  BY TimeAssumption
<1> DEFINE length == window * Minute
<1>2. length \in Nat /\ length < Begin
  BY <1>1
<1>3. From(t, window) = t - length
  BY DEF From
<1> HIDE DEF length
<1> QED
  BY <1>1, <1>2, <1>3

(***************************************************************************)
(* A window that ends later begins later.                                  *)
(***************************************************************************)
LEMMA FromMonotone ==
  ASSUME NEW window \in Nat, NEW t \in Nat, NEW u \in Nat, t <= u
  PROVE  From(t, window) \in Int /\ From(u, window) \in Int /\ From(t, window) <= From(u, window)
<1>1. window * Minute \in Nat
  BY TimeAssumption
<1> DEFINE length == window * Minute
<1>2. From(t, window) = t - length /\ From(u, window) = u - length /\ length \in Nat
  BY <1>1 DEF From
<1> HIDE DEF length
<1> QED
  BY <1>2

(***************************************************************************)
(* Append, element by element, whatever the elements are.                  *)
(***************************************************************************)
LEMMA AppendShape ==
  ASSUME NEW n \in Nat, NEW ps, ps = [i \in 1..n |-> ps[i]], NEW x
  PROVE  /\ Len(ps) = n
         /\ Len(Append(ps, x)) = n + 1
         /\ Append(ps, x) = [i \in 1..(n + 1) |-> Append(ps, x)[i]]
         /\ \A i \in 1..n : Append(ps, x)[i] = ps[i]
         /\ Append(ps, x)[n + 1] = x
<1> DEFINE X == {ps[i] : i \in 1..n} \cup {x}
<1>1. ps \in [1..n -> X] /\ x \in X
  <2>1. \A i \in 1..n : ps[i] \in X
    OBVIOUS
  <2> HIDE DEF X
  <2>2. ps \in [1..n -> X]
    BY <2>1
  <2> QED
    BY <2>2 DEF X
<1> HIDE DEF X
<1>2. ps \in Seq(X) /\ Len(ps) = n
  BY <1>1
<1>3. /\ Append(ps, x) \in Seq(X) /\ Len(Append(ps, x)) = n + 1
      /\ \A i \in 1..n : Append(ps, x)[i] = ps[i]
      /\ Append(ps, x)[n + 1] = x
  BY <1>1, <1>2
<1>4. Append(ps, x) = [i \in 1..(n + 1) |-> Append(ps, x)[i]]
  BY <1>3
<1> QED
  BY <1>2, <1>3, <1>4

(***************************************************************************)
(* A point with the time of the clock, added to points in order, leaves    *)
(* them in order.                                                          *)
(***************************************************************************)
LEMMA AppendInOrder ==
  ASSUME NEW ps, NEW c \in Nat, NEW t \in Nat, c <= t, ps = <<>> \/ InOrder(ps, c),
         NEW mp, mp.time = c
  PROVE  InOrder(Append(ps, mp), t) /\ Append(ps, mp)[Len(Append(ps, mp))] = mp
<1> DEFINE n == Len(ps)
           qs == Append(ps, mp)
<1>1. n \in Nat /\ ps = [i \in 1..n |-> ps[i]]
  <2>1. CASE ps = <<>>
    BY <2>1
  <2>2. CASE InOrder(ps, c)
    BY <2>2, Zenon DEF InOrder
  <2> QED
    BY <2>1, <2>2
<1>2. \A i \in 1..n : ps[i].time \in 0..c
  BY DEF InOrder
<1>3. \A i, j \in 1..n : i <= j => ps[i].time <= ps[j].time
  BY DEF InOrder
<1> HIDE DEF n
<1>4. /\ Len(qs) = n + 1 /\ qs = [i \in 1..(n + 1) |-> qs[i]]
      /\ \A i \in 1..n : qs[i] = ps[i]
      /\ qs[n + 1] = mp
  BY <1>1, AppendShape
<1> HIDE DEF qs
<1>5. \A i \in 1..(n + 1) : i \in 1..n \/ i = n + 1
  BY <1>1
<1>6. \A i \in 1..(n + 1) : qs[i].time \in 0..c
  BY <1>2, <1>4, <1>5
<1>7. ASSUME NEW i \in 1..(n + 1), NEW j \in 1..(n + 1), i <= j
      PROVE  qs[i].time <= qs[j].time
  <2>1. CASE j = n + 1
    BY <1>4, <1>6, <2>1
  <2>2. CASE j \in 1..n
    <3>1. i \in 1..n
      BY <1>1, <1>7, <2>2
    <3> QED
      BY <1>3, <1>4, <1>7, <2>2, <3>1
  <2> QED
    BY <1>5, <2>1, <2>2
<1>8. \A i \in 1..(n + 1) : qs[i].time \in 0..t
  BY <1>6
<1>9. InOrder(qs, t)
  BY <1>1, <1>4, <1>7, <1>8 DEF InOrder
<1> QED
  BY <1>4, <1>9 DEF qs

(***************************************************************************)
(* Keeps, for a window that is not 0, from its parts.                      *)
(***************************************************************************)
LEMMA KeepsIntro ==
  ASSUME NEW m, NEW ps, NEW t, NEW mp, ps[Len(ps)] = mp, m.window # 0,
         m.values = [s \in 1..m.window |-> m.values[s]],
         \A s \in 1..m.window : m.values[s].time \in 0..mp.time,
         mp.time >= From(t, m.window) =>
           /\ m.values[Slot(mp.time, m.window)].time = mp.time
           /\ m.window = 1 /\ m.agg = "Replace" =>
                m.values[Slot(mp.time, m.window)].value = mp.value
  PROVE  Keeps(m, ps, t)
BY Zenon DEF Keeps

\* What add starts from: the slots of a new name are all empty.
Old(m) == IF m.values = <<>> THEN [s \in 1..m.window |-> Zero] ELSE m.values

(***************************************************************************)
(* metricAggregated.add keeps the time of the latest point in its slot,    *)
(* unless the window has passed this point before add was called.          *)
(***************************************************************************)
LEMMA AddKeeps ==
  ASSUME NEW m, Aggregated(m), NEW c \in Nat, NEW t \in Nat, c <= t,
         m.window > 0 => /\ Old(m) = [s \in 1..m.window |-> Old(m)[s]]
                         /\ \A s \in 1..m.window : Old(m)[s].time \in 0..c,
         NEW mp, mp.time = c, NEW ps, ps[Len(ps)] = mp
  PROVE  Aggregated(add(m, t, mp)) /\ Keeps(add(m, t, mp), ps, t)
<1> DEFINE old == Old(m)
           k == Slot(mp.time, m.window)
           new == IF Stale(old[k].time, t, m.window) THEN mp
                  ELSE [value |-> aggregate(m.agg, old[k].value, mp.value),
                        time |-> Later(old[k].time, mp.time)]
<1>0. m.window \in Nat
  BY DEF Aggregated
<1>1. CASE m.window = 0
  <2>1. add(m, t, mp) = [m EXCEPT !.values = <<mp>>]
    BY <1>1 DEF add
  <2>2. add(m, t, mp).values = <<mp>> /\ add(m, t, mp).window = 0
        /\ Aggregated(add(m, t, mp))
    BY <1>1, <2>1 DEF Aggregated
  <2> QED
    BY <2>2 DEF Keeps
<1>2. CASE m.window > 0 /\ Stale(mp.time, t, m.window)
  <2>1. add(m, t, mp) = [m EXCEPT !.values = old]
    BY <1>2 DEF add, Old
  <2> HIDE DEF old
  <2>2. add(m, t, mp).values = old /\ add(m, t, mp).window = m.window
        /\ Aggregated(add(m, t, mp))
    BY <2>1 DEF Aggregated
  <2>3. ~(c >= From(t, m.window))
    BY <1>0, <1>2, FromMonotone DEF Stale
  <2>4. old = [s \in 1..m.window |-> old[s]] /\ \A s \in 1..m.window : old[s].time \in 0..c
    BY <1>2 DEF old
  <2>5. add(m, t, mp).window # 0
    BY <1>0, <1>2, <2>2
  <2> DEFINE a == add(m, t, mp)
  <2>6. a.window # 0 /\ a.window = m.window /\ a.values = old
    BY <2>2, <2>5
  <2> HIDE DEF a
  <2>7. a.values = [s \in 1..a.window |-> a.values[s]]
    BY <2>4, <2>6, Zenon
  <2>8. \A s \in 1..a.window : a.values[s].time \in 0..mp.time
    BY <2>4, <2>6, Zenon
  <2>9. ~(mp.time >= From(t, a.window))
    BY <2>3, <2>6, Zenon
  <2>10. Keeps(a, ps, t)
    BY <2>6, <2>7, <2>8, <2>9, KeepsIntro, Zenon
  <2> QED
    BY <2>2, <2>10 DEF a
<1>3. CASE m.window > 0 /\ ~ Stale(mp.time, t, m.window)
  <2>1. add(m, t, mp) = [m EXCEPT !.values = [old EXCEPT ![k] = new]]
    <3>1. m.window # 0
      BY <1>0, <1>3
    <3> QED
      BY <1>3, <3>1 DEF add, Old
  <2>2. k \in 1..m.window
    BY <1>0, <1>3, SlotInWindow
  <2>3. old = [s \in 1..m.window |-> old[s]] /\ \A s \in 1..m.window : old[s].time \in 0..c
    BY <1>3
  <2> HIDE DEF old
  <2>4. new.time = c
    <3>1. CASE Stale(old[k].time, t, m.window)
      BY <3>1
    <3>2. CASE ~ Stale(old[k].time, t, m.window)
      <4>1. new.time = Later(old[k].time, mp.time)
        BY <3>2
      <4>2. old[k].time \in 0..c
        BY <2>2, <2>3
      <4>3. Later(old[k].time, mp.time) = c
        <5> DEFINE o == old[k].time
        <5>1. o \in 0..c
          BY <4>2
        <5> HIDE DEF o
        <5>2. Later(o, c) = c
          BY <5>1 DEF Later
        <5> QED
          BY <5>2 DEF o
      <4> QED
        BY <4>1, <4>3
    <3> QED
      BY <3>1, <3>2
  <2>5. m.window = 1 /\ m.agg = "Replace" => new.value = mp.value
    BY DEF aggregate
  <2> HIDE DEF new, k
  <2>6. add(m, t, mp).values = [old EXCEPT ![k] = new] /\ add(m, t, mp).window = m.window
        /\ add(m, t, mp).agg = m.agg /\ Aggregated(add(m, t, mp))
    BY <2>1 DEF Aggregated
  <2> DEFINE values == [old EXCEPT ![k] = new]
  <2>7. values = [s \in 1..m.window |-> values[s]] /\ values[k] = new
    BY <2>2, <2>3
  <2>8. \A s \in 1..m.window : values[s].time \in 0..c
    BY <2>2, <2>3, <2>4
  <2> HIDE DEF values
  <2>9. k = Slot(c, m.window)
    BY DEF k
  <2>10. add(m, t, mp).values = values
    BY <2>6 DEF values
  <2> DEFINE a == add(m, t, mp)
  <2>11. a.window # 0 /\ a.window = m.window /\ a.values = values /\ a.agg = m.agg
    BY <1>0, <1>3, <2>6, <2>10
  <2> HIDE DEF a
  <2>12. a.values = [s \in 1..a.window |-> a.values[s]]
    BY <2>7, <2>11, Zenon
  <2>13. \A s \in 1..a.window : a.values[s].time \in 0..mp.time
    BY <2>8, <2>11, Zenon
  <2>14. /\ a.values[Slot(mp.time, a.window)].time = mp.time
         /\ a.window = 1 /\ a.agg = "Replace" =>
              a.values[Slot(mp.time, a.window)].value = mp.value
    BY <2>4, <2>5, <2>7, <2>9, <2>11, Zenon
  <2>15. Keeps(a, ps, t)
    BY <2>11, <2>12, <2>13, <2>14, KeepsIntro, Zenon
  <2> QED
    BY <2>6, <2>15 DEF a
<1> QED
  BY <1>0, <1>1, <1>2, <1>3

\* it computes what get makes of any slots from lo on, the last slot first.
Taken(m, t, lo, it) ==
  /\ it = [s \in SUBSET (lo..m.window) |-> it[s]]
  /\ it[{}] = Zero
  /\ \A s \in SUBSET (lo..m.window) :
       s # {} => it[s] = Take(m, t, m.values[Min(s)], it[s \ {Min(s)}])

(***************************************************************************)
(* Such a function exists: it is built from the last slot to the first.    *)
(***************************************************************************)
LEMMA TakenExists ==
  ASSUME NEW m, NEW t, m.window \in Nat
  PROVE  \E it : Taken(m, t, 1, it)
<1> DEFINE n == m.window
           S == {k \in 0..n : \E it : Taken(m, t, n - k + 1, it)}
<1>1. 0 \in S
  <2> DEFINE it == [s \in SUBSET ((n + 1)..n) |-> Zero]
  <2>1. \A s \in SUBSET ((n + 1)..n) : s = {}
    OBVIOUS
  <2>2. it = [s \in SUBSET ((n + 1)..n) |-> it[s]] /\ it[{}] = Zero
    OBVIOUS
  <2> HIDE DEF it
  <2>3. Taken(m, t, n + 1, it)
    BY <2>1, <2>2 DEF Taken
  <2>4. n - 0 + 1 = n + 1
    OBVIOUS
  <2> QED
    BY <2>3, <2>4
<1>2. ASSUME NEW k \in 1..n, k - 1 \in S
      PROVE  k \in S
  <2> DEFINE lo == n - k + 1
  <2>0. lo \in 1..n /\ n - (k - 1) + 1 = lo + 1
    OBVIOUS
  <2>1. PICK f : Taken(m, t, lo + 1, f)
    BY <1>2, <2>0
  <2> HIDE DEF lo
  <2> DEFINE it == [s \in SUBSET (lo..n) |->
                      IF lo \in s THEN Take(m, t, m.values[lo], f[s \ {lo}]) ELSE f[s]]
  <2>2. \A s \in SUBSET (lo..n) : /\ s \ {lo} \in SUBSET ((lo + 1)..n)
                                  /\ lo \notin s => s \in SUBSET ((lo + 1)..n)
    BY <2>0
  <2>3. it = [s \in SUBSET (lo..n) |-> it[s]]
    OBVIOUS
  <2>4. ASSUME NEW s \in SUBSET (lo..n), s # {}
        PROVE  it[s] = Take(m, t, m.values[Min(s)], it[s \ {Min(s)}])
    <3>0. Min(s) \in s /\ \A y \in s : Min(s) <= y
      <4>1. s \subseteq Nat
        BY <2>0
      <4> QED
        BY <2>4, <4>1, MinIn
    <3>1. CASE lo \in s
      <4>1. Min(s) = lo
        <5>1. Min(s) \in lo..n /\ Min(s) <= lo
          BY <3>0, <3>1
        <5> QED
          BY <2>0, <5>1
      <4>2. it[s \ {lo}] = f[s \ {lo}]
        BY <2>2
      <4> QED
        BY <3>1, <4>1, <4>2
    <3>2. CASE lo \notin s
      <4>1. s \in SUBSET ((lo + 1)..n) /\ s \ {Min(s)} \in SUBSET ((lo + 1)..n)
        BY <2>2, <3>2
      <4>2. f[s] = Take(m, t, m.values[Min(s)], f[s \ {Min(s)}])
        BY <2>1, <2>4, <4>1 DEF Taken
      <4>3. it[s] = f[s] /\ it[s \ {Min(s)}] = f[s \ {Min(s)}]
        BY <3>2, <4>1
      <4> HIDE DEF it
      <4> QED
        BY <4>2, <4>3
    <3> QED
      BY <3>1, <3>2
  <2>5. it[{}] = Zero
    BY <2>1 DEF Taken
  <2> HIDE DEF it
  <2>6. Taken(m, t, lo, it)
    BY <2>3, <2>4, <2>5, Zenon DEF Taken
  <2> QED
    BY <2>6 DEF lo
<1>3. n \in S
  <2> HIDE DEF S
  <2> QED
    BY <1>1, <1>2, UpTo
<1>4. n - n + 1 = 1
  OBVIOUS
<1> QED
  BY <1>3, <1>4

(***************************************************************************)
(* metricAggregated.get, slot by slot: f[k] is what it has after the last  *)
(* k slots.                                                                *)
(***************************************************************************)
LEMMA GetTurns ==
  ASSUME NEW m, NEW t, m.window \in Nat \ {0},
         m.values = [s \in 1..m.window |-> m.values[s]]
  PROVE  \E f : /\ f[0] = Zero
                /\ \A k \in 1..m.window :
                     f[k] = Take(m, t, m.values[m.window + 1 - k], f[k - 1])
                /\ get(m, t) = f[m.window]
<1> DEFINE n == m.window
           Eq(it) == it = [s \in SUBSET DOMAIN m.values |->
             IF s = {} THEN Zero ELSE Take(m, t, m.values[Min(s)], it[s \ {Min(s)}])]
<1>1. DOMAIN m.values = 1..n /\ n \in Nat \ {0}
  OBVIOUS
<1>2. PICK it : Taken(m, t, 1, it)
  BY TakenExists
<1>3. Eq(it)
  BY <1>1, <1>2, Zenon DEF Taken
<1> DEFINE c == CHOOSE g : Eq(g)
<1>4. Eq(c)
  BY <1>3
<1>5. get(m, t) = c[DOMAIN m.values]
  <2>1. m.values # <<>> /\ m.window # 0
    BY <1>1
  <2> QED
    BY <2>1 DEF get, FoldRight, MapThenFoldSet
<1> DEFINE f == [k \in 0..n |-> c[(n - k + 1)..n]]
<1> HIDE DEF c
<1>6. ASSUME NEW s \in SUBSET (1..n), s # {}
      PROVE  c[s] = Take(m, t, m.values[Min(s)], c[s \ {Min(s)}])
  BY <1>1, <1>4, <1>6, Zenon
<1>7. c[{}] = Zero
  BY <1>1, <1>4
<1> HIDE DEF Eq
<1>8. get(m, t) = f[n] /\ f[0] = Zero
  <2>1. (n - n + 1)..n = 1..n /\ (n - 0 + 1)..n = {} /\ n \in 0..n /\ 0 \in 0..n
    BY <1>1
  <2> QED
    BY <1>1, <1>5, <1>7, <2>1
<1>9. ASSUME NEW k \in 1..n
      PROVE  f[k] = Take(m, t, m.values[n + 1 - k], f[k - 1])
  <2> DEFINE lo == n + 1 - k
  <2>1. lo \in 1..n /\ lo..n \in SUBSET (1..n) /\ lo..n # {} /\ lo..n \subseteq Nat
        /\ (lo..n) \ {lo} = (lo + 1)..n /\ lo \in lo..n
    BY <1>1
  <2>2. n - k + 1 = lo /\ n - (k - 1) + 1 = lo + 1 /\ k \in 0..n /\ k - 1 \in 0..n
    BY <1>1
  <2> HIDE DEF lo, n
  <2>3. Min(lo..n) = lo
    <3>1. Min(lo..n) \in lo..n /\ \A y \in lo..n : Min(lo..n) <= y
      BY <2>1, MinIn
    <3> QED
      BY <1>1, <2>1, <3>1
  <2>4. c[lo..n] = Take(m, t, m.values[lo], c[(lo + 1)..n])
    BY <1>6, <2>1, <2>3
  <2>5. f[k] = c[lo..n] /\ f[k - 1] = c[(lo + 1)..n]
    BY <2>2
  <2> QED
    BY <2>4, <2>5 DEF lo
<1> HIDE DEF f
<1> QED
  BY <1>8, <1>9

(***************************************************************************)
(* One turn of get: a slot that has left the window changes nothing, and   *)
(* the time becomes the later one otherwise.                               *)
(***************************************************************************)
LEMMA TakeTime ==
  ASSUME NEW m, NEW t, From(t, m.window) \in Nat \ {0}, NEW v, v.time \in Nat,
         NEW mp, mp.time \in Nat
  PROVE  /\ v.time < From(t, m.window) => Take(m, t, v, mp) = mp
         /\ v.time >= From(t, m.window) => /\ Take(m, t, v, mp).time = Later(mp.time, v.time)
                                           /\ mp = Zero => Take(m, t, v, mp) = v
<1>1. CASE v.time < From(t, m.window)
  BY <1>1 DEF Take, Stale
<1>2. CASE v.time >= From(t, m.window)
  <2>1. ~ Stale(v.time, t, m.window)
    BY <1>2 DEF Stale
  <2>2. CASE mp.time = 0
    <3>1. Take(m, t, v, mp) = v
      BY <2>1, <2>2 DEF Take
    <3>2. Later(mp.time, v.time) = v.time
      BY <1>2, <2>2 DEF Later
    <3> QED
      BY <1>2, <3>1, <3>2
  <2>3. CASE mp.time # 0
    <3>1. Take(m, t, v, mp) = [value |-> aggregate(m.agg, mp.value, v.value),
                               time |-> Later(mp.time, v.time)]
      BY <2>1, <2>3 DEF Take
    <3> QED
      BY <1>2, <2>3, <3>1 DEF Zero
  <2> QED
    BY <2>2, <2>3
<1> QED
  BY <1>1, <1>2

(***************************************************************************)
(* metricAggregated.get reports no time if all slots have left the window, *)
(* the latest time otherwise, and the slot itself if there is only one.    *)
(***************************************************************************)
LEMMA GetLatest ==
  ASSUME NEW m, NEW t, m.window \in Nat \ {0}, From(t, m.window) \in Nat \ {0},
         m.values = [s \in 1..m.window |-> m.values[s]],
         NEW latest \in Nat, \A s \in 1..m.window : m.values[s].time \in 0..latest
  PROVE  /\ latest < From(t, m.window) => get(m, t) = Zero
         /\ latest >= From(t, m.window) /\ (\E s \in 1..m.window : m.values[s].time = latest) =>
              /\ get(m, t).time = latest
              /\ m.window = 1 => get(m, t) = m.values[1]
<1> DEFINE n == m.window
           from == From(t, m.window)
           time(s) == m.values[s].time
<1>1. PICK f : /\ f[0] = Zero
               /\ \A k \in 1..n : f[k] = Take(m, t, m.values[n + 1 - k], f[k - 1])
               /\ get(m, t) = f[n]
  BY GetTurns
<1>2. n \in Nat \ {0} /\ from \in Nat \ {0} /\ \A s \in 1..n : time(s) \in 0..latest
  OBVIOUS
<1> DEFINE S == {k \in 0..n :
                   /\ f[k].time \in 0..latest
                   /\ latest < from => f[k] = Zero
                   /\ \A s \in (n + 1 - k)..n : time(s) >= from => f[k].time >= time(s)}
<1>3. 0 \in S
  BY <1>1, <1>2 DEF Zero
<1>4. ASSUME NEW k \in 1..n, k - 1 \in S
      PROVE  k \in S
  <2> DEFINE lo == n + 1 - k
             mp == f[k - 1]
             v == m.values[lo]
  <2>1. lo \in 1..n /\ lo..n = {lo} \cup ((lo + 1)..n) /\ n + 1 - (k - 1) = lo + 1
    BY <1>2
  <2>2. v.time \in 0..latest /\ v.time = time(lo)
    BY <1>2, <2>1
  <2>3. /\ mp.time \in 0..latest
        /\ latest < from => mp = Zero
        /\ \A s \in (lo + 1)..n : time(s) >= from => mp.time >= time(s)
    BY <1>4, <2>1
  <2>4. f[k] = Take(m, t, v, mp)
    BY <1>1
  <2>5. /\ v.time < from => f[k] = mp
        /\ v.time >= from => f[k].time = Later(mp.time, v.time)
    <3>1. v.time \in Nat /\ mp.time \in Nat /\ From(t, m.window) \in Nat \ {0}
      BY <2>2, <2>3
    <3> HIDE DEF v, mp
    <3> QED
      BY <2>4, <3>1, TakeTime
  <2> HIDE DEF time, from, lo, mp, v, n
  <2>6. CASE v.time < from
    <3>1. \A s \in lo..n : time(s) >= from => mp.time >= time(s)
      BY <1>2, <2>1, <2>2, <2>3, <2>6
    <3>2. k \in 0..n
      BY <1>2
    <3> QED
      BY <2>3, <2>5, <2>6, <3>1, <3>2 DEF lo
  <2>7. CASE v.time >= from
    <3>1. f[k].time = Later(mp.time, v.time)
      BY <2>5, <2>7
    <3>2. f[k].time \in 0..latest /\ f[k].time >= mp.time /\ f[k].time >= v.time
      BY <2>2, <2>3, <3>1 DEF Later
    <3>3. ~(latest < from)
      BY <1>2, <2>2, <2>7
    <3>4. ASSUME NEW s \in lo..n, time(s) >= from
          PROVE  f[k].time >= time(s)
      <4>1. CASE s = lo
        BY <2>2, <3>2, <4>1
      <4>2. CASE s \in (lo + 1)..n
        <5>1. mp.time >= time(s)
          BY <2>3, <3>4, <4>2
        <5>2. time(s) \in Nat
          <6>1. s \in 1..n
            BY <1>2, <2>1, <4>2
          <6> QED
            BY <1>2, <6>1
        <5> QED
          BY <2>3, <3>2, <5>1, <5>2
      <4> QED
        BY <2>1, <4>1, <4>2
    <3>5. k \in 0..n
      BY <1>2
    <3> QED
      BY <3>2, <3>3, <3>4, <3>5 DEF lo
  <2>8. v.time \in Nat /\ from \in Nat
    BY <1>2, <2>2
  <2> QED
    BY <2>6, <2>7, <2>8
<1>5. n \in S
  <2> HIDE DEF S
  <2> QED
    BY <1>2, <1>3, <1>4, UpTo
<1>6. latest < from => get(m, t) = Zero
  BY <1>1, <1>5
<1>7. ASSUME latest >= from, NEW s \in 1..n, time(s) = latest
      PROVE  get(m, t).time = latest
  <2>1. s \in (n + 1 - n)..n
    BY <1>2
  <2>2. f[n].time >= latest /\ f[n].time \in 0..latest
    BY <1>5, <1>7, <2>1
  <2> QED
    BY <1>1, <2>2
<1>8. ASSUME latest >= from, NEW s \in 1..n, time(s) = latest, n = 1
      PROVE  get(m, t) = m.values[1]
  <2>1. s = 1 /\ n + 1 - 1 = 1 /\ 1 - 1 = 0
    BY <1>8
  <2>2. get(m, t) = Take(m, t, m.values[1], Zero)
    BY <1>1, <1>8, <2>1
  <2>3. m.values[1].time \in Nat /\ m.values[1].time >= from /\ Zero.time \in Nat
    BY <1>2, <1>8, <2>1 DEF Zero
  <2> QED
    BY <2>2, <2>3, TakeTime
<1> QED
  BY <1>6, <1>7, <1>8

-----------------------------------------------------------------------------
\* ps is a list of n points, all of whose values are numbers.
NumberList(ps, n) ==
  /\ n \in Nat
  /\ ps = [i \in 1..n |-> ps[i]]
  /\ \A i \in 1..n : ps[i].value \in Int

\* f computes the sum of the points of ps in S point by point.
Summed(ps, n, S, f) ==
  /\ f \in [0..n -> Int]
  /\ f[0] = 0
  /\ \A k \in 1..n : f[k] = IF k \in S THEN f[k - 1] + ps[k].value ELSE f[k - 1]
  /\ SumOf(ps, S) = f[n]

(***************************************************************************)
(* A sum, point by point: f[k] is the sum over the first k points.         *)
(***************************************************************************)
LEMMA SumTurns ==
  ASSUME NEW ps, NEW n, NumberList(ps, n), NEW S
  PROVE  \E f : Summed(ps, n, S, f)
<1> DEFINE Eq(it) == it = [s \in SUBSET (1..n) |->
             IF s = {} THEN 0
             ELSE IF Max(s) \in S THEN it[s \ {Max(s)}] + ps[Max(s)].value ELSE it[s \ {Max(s)}]]
           step == [p \in (1..n) \X Int |-> IF p[1] \in S THEN p[2] + ps[p[1]].value ELSE p[2]]
<1>1. n \in Nat /\ DOMAIN ps = 1..n /\ \A i \in 1..n : ps[i].value \in Int
  <2>1. n \in Nat /\ ps = [i \in 1..n |-> ps[i]] /\ \A i \in 1..n : ps[i].value \in Int
    BY Zenon DEF NumberList
  <2> QED
    BY <2>1, Zenon
<1>2. step \in [(1..n) \X Int -> Int]
  BY <1>1
<1>3. PICK it : Iterates(Int, 0, step, n, it)
  <2> HIDE DEF step
  <2>1. 0 \in Int
    OBVIOUS
  <2> QED
    BY <1>1, <1>2, <2>1, FoldExists
<1>4. Eq(it)
  <2>1. ASSUME NEW s \in SUBSET (1..n), s # {}
        PROVE  it[s] = IF Max(s) \in S THEN it[s \ {Max(s)}] + ps[Max(s)].value
                       ELSE it[s \ {Max(s)}]
    <3>1. Max(s) \in s
      BY <1>1, <2>1, MaxIn
    <3>2. it[s \ {Max(s)}] \in Int /\ Max(s) \in 1..n
      BY <1>3, <3>1 DEF Iterates
    <3>3. it[s] = step[<<Max(s), it[s \ {Max(s)}]>>]
      BY <1>3, <2>1 DEF Iterates
    <3> QED
      BY <3>2, <3>3
  <2> QED
    BY <1>1, <1>3, <2>1 DEF Iterates
<1> DEFINE index == [i \in DOMAIN ps |-> i]
           c == CHOOSE g : g = [s \in SUBSET DOMAIN index |->
                  IF s = {} THEN 0
                  ELSE IF index[Max(s)] \in S
                       THEN g[s \ {Max(s)}] + ps[index[Max(s)]].value
                       ELSE g[s \ {Max(s)}]]
<1>5. SumOf(ps, S) = c[DOMAIN index]
  BY DEF SumOf, FoldLeftDomain, FoldLeft, MapThenFoldSet
<1>6. DOMAIN index = 1..n
  BY <1>1
<1>7. \A s \in SUBSET (1..n) : s # {} => Max(s) \in 1..n /\ index[Max(s)] = Max(s)
  <2>1. \A s \in SUBSET (1..n) : s # {} => Max(s) \in s
    BY <1>1, MaxIn
  <2> QED
    BY <1>1, <2>1
<1>8. \A g : (g = [s \in SUBSET DOMAIN index |->
                  IF s = {} THEN 0
                  ELSE IF index[Max(s)] \in S
                       THEN g[s \ {Max(s)}] + ps[index[Max(s)]].value
                       ELSE g[s \ {Max(s)}]]) <=> Eq(g)
  <2> HIDE DEF index
  <2> QED
    BY <1>6, <1>7
<1>9. Eq(c)
  <2> HIDE DEF Eq, index
  <2> QED
    BY <1>4, <1>8
<1> DEFINE f == [k \in 0..n |-> c[1..k]]
           T == {k \in 0..n : f[k] \in Int}
<1> HIDE DEF c, index
<1>10. SumOf(ps, S) = f[n] /\ f[0] = 0
  <2>1. 1..0 = {} /\ {} \in SUBSET (1..n) /\ n \in 0..n /\ 0 \in 0..n
    BY <1>1
  <2> QED
    BY <1>5, <1>6, <1>9, <2>1
<1>11. ASSUME NEW k \in 1..n
       PROVE  f[k] = IF k \in S THEN f[k - 1] + ps[k].value ELSE f[k - 1]
  <2>1. k \in Nat \ {0} /\ 1..k \in SUBSET (1..n) /\ k \in 0..n /\ k - 1 \in 0..n
    BY <1>1
  <2>2. Max(1..k) = k /\ (1..k) \ {k} = 1..(k - 1) /\ 1..k # {}
    BY <2>1, MaxUpTo
  <2>3. c[1..k] = IF k \in S THEN c[1..(k - 1)] + ps[k].value ELSE c[1..(k - 1)]
    BY <1>9, <2>1, <2>2, Zenon
  <2>4. f[k] = c[1..k] /\ f[k - 1] = c[1..(k - 1)]
    BY <2>1
  <2> QED
    BY <2>3, <2>4, Zenon
<1>12. \A j \in 0..n : f[j] \in Int
  <2> TAKE j \in 0..n
  <2>1. 0 \in T
    BY <1>1, <1>10
  <2>2. ASSUME NEW k \in 1..j, k - 1 \in T
        PROVE  k \in T
    <3>1. k \in 1..n /\ k \in 0..n
      BY <1>1
    <3>2. f[k - 1] \in Int
      BY <2>2
    <3> HIDE DEF f
    <3>3. f[k] \in Int
      BY <1>1, <1>11, <3>1, <3>2
    <3> QED
      BY <3>1, <3>3 DEF f
  <2>3. j \in Nat
    BY <1>1
  <2>4. j \in T
    <3> HIDE DEF T
    <3> QED
      BY <2>1, <2>2, <2>3, UpTo
  <2> QED
    BY <2>4
<1>13. f \in [0..n -> Int]
  <2>1. f = [k \in 0..n |-> f[k]]
    OBVIOUS
  <2> HIDE DEF f
  <2> QED
    BY <1>12, <2>1
<1> HIDE DEF f
<1> QED
  BY <1>10, <1>11, <1>13 DEF Summed

(***************************************************************************)
(* A sum is a number; that of no points is 0.                              *)
(***************************************************************************)
LEMMA SumEmpty ==
  ASSUME NEW ps, NEW n, NumberList(ps, n)
  PROVE  SumOf(ps, {}) = 0 /\ \A S : SumOf(ps, S) \in Int
<1>0. n \in Nat
  BY DEF NumberList
<1>1. \A S : SumOf(ps, S) \in Int
  <2> TAKE S
  <2>1. PICK f : Summed(ps, n, S, f)
    BY SumTurns
  <2> QED
    BY <1>0, <2>1 DEF Summed
<1>2. PICK f : Summed(ps, n, {}, f)
  BY SumTurns
<1> DEFINE T == {k \in 0..n : f[k] = 0}
<1>3. 0 \in T
  BY <1>0, <1>2 DEF Summed
<1>4. ASSUME NEW k \in 1..n, k - 1 \in T
      PROVE  k \in T
  BY <1>0, <1>2, <1>4 DEF Summed
<1>5. n \in T
  <2> HIDE DEF T
  <2> QED
    BY <1>0, <1>3, <1>4, UpTo
<1> QED
  BY <1>1, <1>2, <1>5 DEF Summed

(***************************************************************************)
(* The sum over two sets that share no index is the sum of both sums.      *)
(***************************************************************************)
LEMMA SumUnion ==
  ASSUME NEW ps, NEW n, NumberList(ps, n), NEW A, NEW B, A \cap B = {}
  PROVE  SumOf(ps, A \cup B) = SumOf(ps, A) + SumOf(ps, B)
<1>0. n \in Nat /\ \A i \in 1..n : ps[i].value \in Int
  BY DEF NumberList
<1>1. PICK f : Summed(ps, n, A, f)
  BY SumTurns
<1>2. PICK g : Summed(ps, n, B, g)
  BY SumTurns
<1>3. PICK h : Summed(ps, n, A \cup B, h)
  BY SumTurns
<1> DEFINE T == {k \in 0..n : h[k] = f[k] + g[k]}
<1>4. 0 \in T
  BY <1>0, <1>1, <1>2, <1>3 DEF Summed
<1>5. ASSUME NEW k \in 1..n, k - 1 \in T
      PROVE  k \in T
  <2>1. f[k - 1] \in Int /\ g[k - 1] \in Int /\ h[k - 1] = f[k - 1] + g[k - 1]
        /\ ps[k].value \in Int /\ k \in 0..n
    BY <1>0, <1>1, <1>2, <1>5 DEF Summed
  <2>2. /\ f[k] = IF k \in A THEN f[k - 1] + ps[k].value ELSE f[k - 1]
        /\ g[k] = IF k \in B THEN g[k - 1] + ps[k].value ELSE g[k - 1]
        /\ h[k] = IF k \in A \cup B THEN h[k - 1] + ps[k].value ELSE h[k - 1]
    BY <1>1, <1>2, <1>3 DEF Summed
  <2>3. ~(k \in A /\ k \in B)
    OBVIOUS
  <2> QED
    BY <2>1, <2>2, <2>3
<1>6. n \in T
  <2> HIDE DEF T
  <2> QED
    BY <1>0, <1>4, <1>5, UpTo
<1> QED
  BY <1>1, <1>2, <1>3, <1>6 DEF Summed

(***************************************************************************)
(* More points that are not negative make no smaller sum.                  *)
(***************************************************************************)
LEMMA SumMonotone ==
  ASSUME NEW ps, NEW n, NumberList(ps, n), NEW A, NEW B, A \subseteq B,
         \A i \in 1..n : ps[i].value >= 0
  PROVE  SumOf(ps, A) <= SumOf(ps, B)
<1>0. n \in Nat /\ \A i \in 1..n : ps[i].value \in Int /\ ps[i].value >= 0
  BY DEF NumberList
<1>1. PICK f : Summed(ps, n, A, f)
  BY SumTurns
<1>2. PICK g : Summed(ps, n, B, g)
  BY SumTurns
<1> DEFINE T == {k \in 0..n : f[k] <= g[k]}
<1>4. 0 \in T
  BY <1>0, <1>1, <1>2 DEF Summed
<1>5. ASSUME NEW k \in 1..n, k - 1 \in T
      PROVE  k \in T
  <2>1. f[k - 1] \in Int /\ g[k - 1] \in Int /\ f[k - 1] <= g[k - 1]
        /\ ps[k].value \in Int /\ ps[k].value >= 0 /\ k \in 0..n
    BY <1>0, <1>1, <1>2, <1>5 DEF Summed
  <2>2. /\ f[k] = IF k \in A THEN f[k - 1] + ps[k].value ELSE f[k - 1]
        /\ g[k] = IF k \in B THEN g[k - 1] + ps[k].value ELSE g[k - 1]
    BY <1>1, <1>2 DEF Summed
  <2>3. k \in A => k \in B
    OBVIOUS
  <2> QED
    BY <2>1, <2>2, <2>3
<1>6. n \in T
  <2> HIDE DEF T
  <2> QED
    BY <1>0, <1>4, <1>5, UpTo
<1> QED
  BY <1>1, <1>2, <1>6 DEF Summed

(***************************************************************************)
(* Points that are added make no difference to the sums over the others.   *)
(***************************************************************************)
LEMMA SumSame ==
  ASSUME NEW ps, NEW n, NumberList(ps, n), NEW qs, NEW l, NumberList(qs, l), n <= l,
         \A i \in 1..n : qs[i] = ps[i], NEW S \in SUBSET (1..n)
  PROVE  SumOf(qs, S) = SumOf(ps, S)
<1>0. n \in Nat /\ l \in Nat
  BY DEF NumberList
<1>1. PICK f : Summed(ps, n, S, f)
  BY SumTurns
<1>2. PICK g : Summed(qs, l, S, g)
  BY SumTurns
<1> DEFINE T == {k \in 0..l : g[k] = IF k <= n THEN f[k] ELSE f[n]}
<1>3. 0 \in T
  BY <1>0, <1>1, <1>2 DEF Summed
<1>4. ASSUME NEW k \in 1..l, k - 1 \in T
      PROVE  k \in T
  <2>1. g[k] = IF k \in S THEN g[k - 1] + qs[k].value ELSE g[k - 1]
    BY <1>2 DEF Summed
  <2>2. CASE k <= n
    <3>1. k \in 1..n /\ g[k - 1] = f[k - 1] /\ qs[k] = ps[k]
      BY <1>0, <1>4, <2>2
    <3>2. f[k] = IF k \in S THEN f[k - 1] + ps[k].value ELSE f[k - 1]
      BY <1>1, <3>1 DEF Summed
    <3> QED
      BY <1>0, <2>1, <2>2, <3>1, <3>2
  <2>3. CASE ~(k <= n)
    <3>1. k \notin S /\ g[k - 1] = f[n]
      BY <1>0, <1>4, <2>3
    <3> QED
      BY <1>0, <2>1, <2>3, <3>1
  <2> QED
    BY <2>2, <2>3
<1>5. l \in T
  <2> HIDE DEF T
  <2> QED
    BY <1>0, <1>3, <1>4, UpTo
<1>6. g[l] = f[n]
  BY <1>0, <1>5
<1> QED
  BY <1>1, <1>2, <1>6 DEF Summed

(***************************************************************************)
(* The sum over one index is the value of its point.                       *)
(***************************************************************************)
LEMMA SumOne ==
  ASSUME NEW ps, NEW n, NumberList(ps, n), NEW i \in 1..n
  PROVE  SumOf(ps, {i}) = ps[i].value
<1>0. n \in Nat /\ ps[i].value \in Int
  BY DEF NumberList
<1>1. PICK f : Summed(ps, n, {i}, f)
  BY SumTurns
<1> DEFINE T == {k \in 0..n : f[k] = IF k < i THEN 0 ELSE ps[i].value}
<1>2. 0 \in T
  BY <1>0, <1>1 DEF Summed
<1>3. ASSUME NEW k \in 1..n, k - 1 \in T
      PROVE  k \in T
  <2>1. f[k] = IF k = i THEN f[k - 1] + ps[i].value ELSE f[k - 1]
    BY <1>1 DEF Summed
  <2> QED
    BY <1>0, <1>3, <2>1
<1>4. n \in T
  <2> HIDE DEF T
  <2> QED
    BY <1>0, <1>2, <1>3, UpTo
<1> QED
  BY <1>0, <1>1, <1>4 DEF Summed

AllNumbers(ps, n) == \A i \in 1..n : ps[i].value \in Int

\* The value v of a slot comes from the points p of the n points ps.
HoldsValue(v, agg, ps, n, p) ==
  /\ v.value \in Int \cup {NaN}
  /\ v.value = NaN => \E i \in p : ps[i].value = NaN
  /\ AllNumbers(ps, n) =>
       /\ agg = "Sum" => v.value = SumOf(ps, p)
       /\ agg = "Max" => \A i \in p : v.value >= ps[i].value
       /\ agg = "Min" => \A i \in p : v.value <= ps[i].value

\* Its time is that of the latest of them, and there was no silence longer
\* than the window between the first of them and the latest.
HoldsTime(v, window, ps, n, p) ==
  /\ p = {} => v = Zero
  /\ p # {} => \E k \in p : ps[k].time = v.time
  /\ \A i \in p : ps[i].time <= v.time
  /\ \A i \in p : \A j \in 1..n :
       i < j /\ ps[j].time <= v.time => ps[j - 1].time >= From(ps[j].time, window)

\* P[s] are the points in the slot s; all that are in the window at time t
\* are in their slots.
Holds(values, agg, window, ps, n, t, P) ==
  /\ P \in [1..window -> SUBSET (1..n)]
  /\ \A s \in 1..window : /\ \A i \in P[s] : Slot(ps[i].time, window) = s
                          /\ HoldsValue(values[s], agg, ps, n, P[s])
                          /\ HoldsTime(values[s], window, ps, n, P[s])
  /\ \A i \in 1..n : ps[i].time >= From(t, window) => i \in P[Slot(ps[i].time, window)]

\* What AppendInOrder knows of a list with a new point.
Extended(ps, n, mp, qs) ==
  /\ n \in Nat
  /\ ps = [i \in 1..n |-> ps[i]]
  /\ qs = [i \in 1..(n + 1) |-> qs[i]]
  /\ \A i \in 1..n : qs[i] = ps[i]
  /\ qs[n + 1] = mp
  /\ \A i \in 1..(n + 1) : qs[i].time \in Nat /\ qs[i].value \in Int \cup {NaN}
  /\ \A i, j \in 1..(n + 1) : i <= j => qs[i].time <= qs[j].time

(***************************************************************************)
(* The parts of Extended.                                                  *)
(***************************************************************************)
LEMMA ExtendedPoints ==
  ASSUME NEW ps, NEW n, NEW mp, NEW qs, Extended(ps, n, mp, qs)
  PROVE  /\ n \in Nat
         /\ \A i \in 1..n : qs[i] = ps[i] /\ i \in 1..(n + 1)
         /\ qs[n + 1] = mp /\ n + 1 \in 1..(n + 1)
         /\ \A i \in 1..(n + 1) : qs[i].time \in Nat /\ qs[i].value \in Int \cup {NaN}
         /\ \A i, j \in 1..(n + 1) : i <= j => qs[i].time <= qs[j].time
<1>1. /\ n \in Nat
      /\ \A i \in 1..n : qs[i] = ps[i]
      /\ qs[n + 1] = mp
      /\ \A i \in 1..(n + 1) : qs[i].time \in Nat /\ qs[i].value \in Int \cup {NaN}
      /\ \A i, j \in 1..(n + 1) : i <= j => qs[i].time <= qs[j].time
  BY Zenon DEF Extended
<1>2. n + 1 \in 1..(n + 1) /\ \A i \in 1..n : i \in 1..(n + 1)
  BY <1>1
<1> QED
  BY <1>1, <1>2, Zenon

(***************************************************************************)
(* If all values of the longer list are numbers, those of the shorter one  *)
(* are.                                                                    *)
(***************************************************************************)
LEMMA ExtendedNumbers ==
  ASSUME NEW ps, NEW n, NEW mp, NEW qs, Extended(ps, n, mp, qs), AllNumbers(qs, n + 1)
  PROVE  NumberList(ps, n) /\ NumberList(qs, n + 1) /\ AllNumbers(ps, n) /\ mp.value \in Int
<1>1. n \in Nat /\ ps = [i \in 1..n |-> ps[i]] /\ qs = [i \in 1..(n + 1) |-> qs[i]]
  BY Zenon DEF Extended
<1>2. \A i \in 1..n : qs[i] = ps[i] /\ i \in 1..(n + 1)
  BY ExtendedPoints
<1>3. \A i \in 1..n : ps[i].value \in Int
  BY <1>2 DEF AllNumbers
<1>4. mp.value \in Int
  BY ExtendedPoints DEF AllNumbers
<1>5. n + 1 \in Nat
  BY <1>1
<1> QED
  BY <1>1, <1>3, <1>4, <1>5, Zenon DEF NumberList, AllNumbers

(***************************************************************************)
(* A slot that a point is not added to holds what it held.                 *)
(***************************************************************************)
LEMMA AppendHoldsValue ==
  ASSUME NEW ps, NEW n, NEW mp, NEW qs, Extended(ps, n, mp, qs),
         NEW v, NEW agg, NEW p \in SUBSET (1..n), HoldsValue(v, agg, ps, n, p)
  PROVE  HoldsValue(v, agg, qs, n + 1, p)
<1>1. \A i \in p : qs[i] = ps[i]
  BY ExtendedPoints
<1>2. v.value \in Int \cup {NaN} /\ (v.value = NaN => \E i \in p : qs[i].value = NaN)
  BY <1>1 DEF HoldsValue
<1>3. ASSUME AllNumbers(qs, n + 1)
      PROVE  /\ agg = "Sum" => v.value = SumOf(qs, p)
             /\ agg = "Max" => \A i \in p : v.value >= qs[i].value
             /\ agg = "Min" => \A i \in p : v.value <= qs[i].value
  <2>1. NumberList(ps, n) /\ NumberList(qs, n + 1) /\ AllNumbers(ps, n)
    BY <1>3, ExtendedNumbers
  <2>2. /\ agg = "Sum" => v.value = SumOf(ps, p)
        /\ agg = "Max" => \A i \in p : v.value >= ps[i].value
        /\ agg = "Min" => \A i \in p : v.value <= ps[i].value
    BY <2>1 DEF HoldsValue
  <2>3. SumOf(qs, p) = SumOf(ps, p)
    <3>1. \A i \in 1..n : qs[i] = ps[i]
      BY ExtendedPoints
    <3>2. n <= n + 1
      BY ExtendedPoints
    <3> QED
      BY <2>1, <3>1, <3>2, SumSame
  <2> QED
    BY <1>1, <2>2, <2>3
<1> QED
  BY <1>2, <1>3, Zenon DEF HoldsValue

(***************************************************************************)
(* HoldsTime from its parts.                                               *)
(***************************************************************************)
LEMMA HoldsTimeIntro ==
  ASSUME NEW v, NEW window, NEW ps, NEW n, NEW p,
         p = {} => v = Zero,
         p # {} => \E k \in p : ps[k].time = v.time,
         \A i \in p : ps[i].time <= v.time,
         \A i \in p : \A j \in 1..n :
           i < j /\ ps[j].time <= v.time => ps[j - 1].time >= From(ps[j].time, window)
  PROVE  HoldsTime(v, window, ps, n, p)
BY Zenon DEF HoldsTime

(***************************************************************************)
(* HoldsValue from its parts.                                              *)
(***************************************************************************)
LEMMA HoldsValueIntro ==
  ASSUME NEW v, NEW agg, NEW ps, NEW n, NEW p,
         v.value \in Int \cup {NaN},
         v.value = NaN => \E i \in p : ps[i].value = NaN,
         AllNumbers(ps, n) =>
           /\ agg = "Sum" => v.value = SumOf(ps, p)
           /\ agg = "Max" => \A i \in p : v.value >= ps[i].value
           /\ agg = "Min" => \A i \in p : v.value <= ps[i].value
  PROVE  HoldsValue(v, agg, ps, n, p)
BY Zenon DEF HoldsValue

(***************************************************************************)
(* The same of its time: a point with the time of the slot's latest one    *)
(* does not follow a silence.                                              *)
(***************************************************************************)
LEMMA AppendHoldsTime ==
  ASSUME NEW ps, NEW n, NEW mp, NEW qs, Extended(ps, n, mp, qs), NEW window \in Nat,
         NEW v, v.time \in Nat, v.time <= mp.time,
         NEW p \in SUBSET (1..n), HoldsTime(v, window, ps, n, p)
  PROVE  HoldsTime(v, window, qs, n + 1, p)
<1>0. n \in Nat /\ (\A i \in 1..n : qs[i] = ps[i] /\ i \in 1..(n + 1)) /\ qs[n + 1] = mp
  BY ExtendedPoints
<1>1. \A i \in p : qs[i] = ps[i]
  BY <1>0
<1>2. /\ p = {} => v = Zero
      /\ p # {} => \E k \in p : qs[k].time = v.time
      /\ \A i \in p : qs[i].time <= v.time
  BY <1>1 DEF HoldsTime
<1>3. ASSUME NEW i \in p, NEW j \in 1..(n + 1), i < j, qs[j].time <= v.time
      PROVE  qs[j - 1].time >= From(qs[j].time, window)
  <2>0. i \in 1..n
    OBVIOUS
  <2>1. i \in 1..n /\ j - 1 \in 1..n
    BY <1>0, <1>3, <2>0
  <2>2. CASE j \in 1..n
    <3>1. qs[j - 1] = ps[j - 1] /\ qs[j] = ps[j]
      BY <1>0, <2>1, <2>2
    <3> QED
      BY <1>3, <2>2, <3>1 DEF HoldsTime
  <2>3. CASE j = n + 1
    <3>1. mp.time = v.time /\ mp.time \in Nat
      BY <1>0, <1>3, <2>3, ExtendedPoints
    <3>2. PICK k \in p : qs[k].time = v.time
      BY <1>2, <1>3
    <3>3. qs[k].time <= qs[n].time /\ qs[n].time \in Nat
      <4>1. k \in 1..(n + 1) /\ n \in 1..(n + 1) /\ k <= n
        BY <1>0, <2>1
      <4> QED
        BY <4>1, ExtendedPoints
    <3>4. From(mp.time, window) \in Int /\ From(mp.time, window) <= mp.time
      <4> DEFINE w == window * Minute
      <4>1. w \in Nat /\ From(mp.time, window) = mp.time - w
        BY TimeAssumption DEF From
      <4> HIDE DEF w
      <4> QED
        BY <3>1, <4>1
    <3>5. qs[j - 1] = qs[n] /\ qs[j] = mp
      BY <1>0, <2>3
    <3> QED
      BY <3>1, <3>2, <3>3, <3>4, <3>5
  <2> QED
    BY <1>0, <2>2, <2>3
<1>4. \A i \in p : \A j \in 1..(n + 1) :
        i < j /\ qs[j].time <= v.time => qs[j - 1].time >= From(qs[j].time, window)
  BY <1>3
<1> QED
  BY <1>2, <1>4, HoldsTimeIntro, Zenon

(***************************************************************************)
(* A slot whose time has left the window is replaced: it holds the point.  *)
(***************************************************************************)
LEMMA ReplaceHolds ==
  ASSUME NEW ps, NEW n, NEW mp, NEW qs, Extended(ps, n, mp, qs), NEW agg, NEW window
  PROVE  /\ HoldsValue(mp, agg, qs, n + 1, {n + 1})
         /\ HoldsTime(mp, window, qs, n + 1, {n + 1})
<1>0. n \in Nat /\ n + 1 \in 1..(n + 1) /\ qs[n + 1] = mp
  BY ExtendedPoints
<1>1. mp.value \in Int \cup {NaN} /\ mp.time \in Nat
  BY <1>0, ExtendedPoints
<1>2. ASSUME AllNumbers(qs, n + 1)
      PROVE  /\ SumOf(qs, {n + 1}) = mp.value
             /\ mp.value >= qs[n + 1].value /\ mp.value <= qs[n + 1].value
  <2>1. NumberList(ps, n) /\ NumberList(qs, n + 1) /\ mp.value \in Int
    BY <1>2, ExtendedNumbers
  <2>2. SumOf(qs, {n + 1}) = qs[n + 1].value
    BY <1>0, <2>1, SumOne
  <2> QED
    BY <1>0, <2>1, <2>2
<1>3. HoldsValue(mp, agg, qs, n + 1, {n + 1})
  BY <1>0, <1>1, <1>2 DEF HoldsValue
<1>4. HoldsTime(mp, window, qs, n + 1, {n + 1})
  BY <1>0, <1>1 DEF HoldsTime
<1> QED
  BY <1>3, <1>4

(***************************************************************************)
(* Aggregate.aggregate: not a number only if one of both was not.          *)
(***************************************************************************)
LEMMA AggregateValue ==
  ASSUME NEW o, NEW a \in Int \cup {NaN}, NEW b \in Int \cup {NaN}
  PROVE  /\ aggregate(o, a, b) \in Int \cup {NaN}
         /\ aggregate(o, a, b) = NaN => a = NaN \/ b = NaN
         /\ a \in Int /\ b \in Int =>
              /\ o = "Sum" => aggregate(o, a, b) = a + b
              /\ o = "Max" => aggregate(o, a, b) >= a /\ aggregate(o, a, b) >= b
              /\ o = "Min" => aggregate(o, a, b) <= a /\ aggregate(o, a, b) <= b
<1>0. NaN \notin Int
  BY ValueAssumption
<1>1. CASE NaN \in {a, b}
  <2>1. aggregate(o, a, b) \in {a, b, NaN}
    BY <1>1 DEF aggregate
  <2> QED
    BY <1>0, <1>1, <2>1
<1>2. CASE NaN \notin {a, b}
  <2>1. a \in Int /\ b \in Int
    BY <1>2
  <2>2. CASE o = "Sum"
    BY <1>0, <1>2, <2>1, <2>2 DEF aggregate
  <2>3. CASE o = "Max"
    BY <1>0, <1>2, <2>1, <2>3 DEF aggregate
  <2>4. CASE o = "Min"
    BY <1>0, <1>2, <2>1, <2>4 DEF aggregate
  <2>5. CASE o \notin {"Sum", "Max", "Min"}
    BY <1>0, <1>2, <2>1, <2>5 DEF aggregate
  <2> QED
    BY <2>2, <2>3, <2>4, <2>5
<1> QED
  BY <1>1, <1>2
(***************************************************************************)
(* The same of two points.                                                 *)
(***************************************************************************)
LEMMA AggregateOf ==
  ASSUME NEW o, NEW v, NEW w, v.value \in Int \cup {NaN}, w.value \in Int \cup {NaN}
  PROVE  /\ aggregate(o, v.value, w.value) \in Int \cup {NaN}
         /\ aggregate(o, v.value, w.value) = NaN => v.value = NaN \/ w.value = NaN
BY AggregateValue

(***************************************************************************)
(* What two slots hold together.                                           *)
(***************************************************************************)
LEMMA AggregateHolds ==
  ASSUME NEW ps, NEW n, n \in Nat, ps = [i \in 1..n |-> ps[i]], NEW agg,
         NEW v, NEW A \in SUBSET (1..n), HoldsValue(v, agg, ps, n, A),
         NEW w, NEW B \in SUBSET (1..n), HoldsValue(w, agg, ps, n, B), A \cap B = {},
         NEW new, new.value = aggregate(agg, v.value, w.value)
  PROVE  HoldsValue(new, agg, ps, n, A \cup B)
<1> DEFINE r == A \cup B
<1>0. v.value \in Int \cup {NaN} /\ w.value \in Int \cup {NaN}
  BY DEF HoldsValue
<1>1. new.value \in Int \cup {NaN} /\ (new.value = NaN => v.value = NaN \/ w.value = NaN)
  <2>1. /\ aggregate(agg, v.value, w.value) \in Int \cup {NaN}
        /\ aggregate(agg, v.value, w.value) = NaN => v.value = NaN \/ w.value = NaN
    BY <1>0, AggregateOf
  <2> QED
    BY <2>1, Zenon
<1>2. new.value = NaN => \E i \in r : ps[i].value = NaN
  BY <1>1 DEF HoldsValue
<1>3. ASSUME AllNumbers(ps, n)
      PROVE  /\ agg = "Sum" => new.value = SumOf(ps, r)
             /\ agg = "Max" => \A i \in r : new.value >= ps[i].value
             /\ agg = "Min" => \A i \in r : new.value <= ps[i].value
  <2>1. NumberList(ps, n)
    BY <1>3, Zenon DEF NumberList, AllNumbers
  <2>2. (\A i \in A : ps[i].value \in Int) /\ \A i \in B : ps[i].value \in Int
    BY <1>3 DEF AllNumbers
  <2>3. NaN \notin Int
    BY ValueAssumption
  <2>4. v.value \in Int /\ w.value \in Int
    BY <2>2, <2>3 DEF HoldsValue
  <2>5. /\ agg = "Sum" => new.value = v.value + w.value
        /\ agg = "Max" => new.value >= v.value /\ new.value >= w.value
        /\ agg = "Min" => new.value <= v.value /\ new.value <= w.value
    BY <1>0, <2>4, AggregateValue
  <2>6. new.value \in Int
    BY <1>1, <2>3, <2>4
  <2>7. /\ agg = "Sum" => v.value = SumOf(ps, A) /\ w.value = SumOf(ps, B)
        /\ agg = "Max" => /\ \A i \in A : v.value >= ps[i].value
                          /\ \A i \in B : w.value >= ps[i].value
        /\ agg = "Min" => /\ \A i \in A : v.value <= ps[i].value
                          /\ \A i \in B : w.value <= ps[i].value
    BY <1>3 DEF HoldsValue
  <2>8. SumOf(ps, r) = SumOf(ps, A) + SumOf(ps, B)
    BY <2>1, SumUnion
  <2>9. agg = "Sum" => new.value = SumOf(ps, r)
    BY <2>5, <2>7, <2>8
  <2>10. ASSUME agg = "Max", NEW i \in r PROVE new.value >= ps[i].value
    <3>1. new.value >= v.value /\ new.value >= w.value /\ ps[i].value \in Int
      BY <2>2, <2>5, <2>10
    <3>2. v.value >= ps[i].value \/ w.value >= ps[i].value
      BY <2>7, <2>10
    <3> QED
      BY <2>4, <2>6, <3>1, <3>2
  <2>11. ASSUME agg = "Min", NEW i \in r PROVE new.value <= ps[i].value
    <3>1. new.value <= v.value /\ new.value <= w.value /\ ps[i].value \in Int
      BY <2>2, <2>5, <2>11
    <3>2. v.value <= ps[i].value \/ w.value <= ps[i].value
      BY <2>7, <2>11
    <3> QED
      BY <2>4, <2>6, <3>1, <3>2
  <2> QED
    BY <2>9, <2>10, <2>11
<1> HIDE DEF r
<1>4. HoldsValue(new, agg, ps, n, r)
  BY <1>1, <1>2, <1>3, HoldsValueIntro, Zenon
<1> QED
  BY <1>4 DEF r

(***************************************************************************)
(* A slot that is still in the window takes a point in.                    *)
(***************************************************************************)
LEMMA JoinHolds ==
  ASSUME NEW ps, NEW n, NEW mp, NEW qs, Extended(ps, n, mp, qs), NEW window \in Nat, NEW agg,
         NEW v, v.time \in Nat, v.time <= mp.time,
         NEW t \in Nat, mp.time <= t, v.time >= From(t, window), From(t, window) \in Nat \ {0},
         NEW p \in SUBSET (1..n), HoldsValue(v, agg, ps, n, p), HoldsTime(v, window, ps, n, p),
         NEW new, new.time = mp.time, new.value = aggregate(agg, v.value, mp.value)
  PROVE  /\ HoldsValue(new, agg, qs, n + 1, p \cup {n + 1})
         /\ HoldsTime(new, window, qs, n + 1, p \cup {n + 1})
<1> DEFINE r == p \cup {n + 1}
<1>0. /\ n \in Nat
      /\ \A i \in 1..n : qs[i] = ps[i] /\ i \in 1..(n + 1)
      /\ qs[n + 1] = mp /\ n + 1 \in 1..(n + 1)
      /\ \A i \in 1..(n + 1) : qs[i].time \in Nat /\ qs[i].value \in Int \cup {NaN}
      /\ \A i, j \in 1..(n + 1) : i <= j => qs[i].time <= qs[j].time
  BY ExtendedPoints
<1>1. HoldsValue(v, agg, qs, n + 1, p)
  BY AppendHoldsValue
<1>2. HoldsTime(v, window, qs, n + 1, p)
  BY AppendHoldsTime
<1>3. mp.time \in Nat
  BY <1>0
<1>4. HoldsValue(new, agg, qs, n + 1, r)
  <2>1. HoldsValue(mp, agg, qs, n + 1, {n + 1})
    BY ReplaceHolds
  <2>2. /\ n + 1 \in Nat /\ p \in SUBSET (1..(n + 1)) /\ {n + 1} \in SUBSET (1..(n + 1))
        /\ p \cap {n + 1} = {}
    BY <1>0
  <2>3. qs = [i \in 1..(n + 1) |-> qs[i]]
    BY Zenon DEF Extended
  <2> QED
    BY <1>1, <2>1, <2>2, <2>3, AggregateHolds
<1>5. HoldsTime(new, window, qs, n + 1, r)
  <2>1. r # {} /\ (\E k \in r : qs[k].time = new.time) /\ \A i \in r : i \in 1..(n + 1)
    BY <1>0
  <2>2. \A i \in r : qs[i].time <= new.time
    <3>1. \A i \in 1..(n + 1) : qs[i].time <= mp.time
      BY <1>0
    <3> QED
      BY <2>1, <3>1
  <2>3. ASSUME NEW i \in r, NEW j \in 1..(n + 1), i < j, qs[j].time <= new.time
        PROVE  qs[j - 1].time >= From(qs[j].time, window)
    <3>1. i \in p /\ j - 1 \in 1..(n + 1)
      BY <1>0, <2>1, <2>3
    <3>3. qs[j - 1].time \in Nat /\ qs[j].time \in Nat
      BY <1>0, <3>1
    <3>4. CASE qs[j].time <= v.time
      BY <1>2, <2>3, <3>1, <3>4 DEF HoldsTime
    <3>5. CASE qs[j].time > v.time
      <4>1. PICK k \in p : qs[k].time = v.time
        BY <1>2, <3>1 DEF HoldsTime
      <4>2. k \in 1..(n + 1)
        BY <1>0
      <4>3. k <= j - 1
        <5>1. SUFFICES ASSUME ~(k <= j - 1) PROVE FALSE
          OBVIOUS
        <5>2. j <= k
          BY <1>0, <4>2, <5>1
        <5>3. qs[j].time <= qs[k].time
          BY <1>0, <4>2, <5>2
        <5> QED
          BY <3>3, <3>5, <4>1, <5>3
      <4>4. qs[j - 1].time >= v.time
        <5>1. qs[k].time <= qs[j - 1].time
          BY <1>0, <3>1, <4>2, <4>3
        <5> QED
          BY <3>3, <4>1, <5>1
      <4>5. qs[j].time <= t
        BY <1>3, <2>3, <3>3
      <4>6. From(qs[j].time, window) \in Int /\ From(t, window) \in Int
            /\ From(qs[j].time, window) <= From(t, window)
        BY <3>3, <4>5, FromMonotone
      <4> QED
        BY <3>3, <4>4, <4>6
    <3> QED
      BY <3>3, <3>4, <3>5
  <2>4. \A i \in r : \A j \in 1..(n + 1) :
          i < j /\ qs[j].time <= new.time => qs[j - 1].time >= From(qs[j].time, window)
    BY <2>3
  <2> HIDE DEF r
  <2> QED
    BY <2>1, <2>2, <2>4, HoldsTimeIntro, Zenon
<1> QED
  BY <1>4, <1>5

\* What holds when add puts r into the slot k instead of P[k].
SlotChanged(old, values, agg, window, c, t, qs, n, P, k, r) ==
  /\ \A s \in 1..window : old[s].time \in 0..c
  /\ \A s \in (1..window) \ {k} : values[s] = old[s]
  /\ k = Slot(c, window)
  /\ r \in SUBSET (1..(n + 1))
  /\ \A i \in r : i \in P[k] \/ i = n + 1
  /\ HoldsValue(values[k], agg, qs, n + 1, r)
  /\ HoldsTime(values[k], window, qs, n + 1, r)
  /\ c >= From(t, window) => n + 1 \in r
  /\ \A i \in P[k] : qs[i].time >= From(t, window) => i \in r

(***************************************************************************)
(* A slot is changed, and all others hold what they held.                  *)
(***************************************************************************)
LEMMA HoldsWith ==
  ASSUME NEW ps, NEW n, NEW mp, NEW qs, Extended(ps, n, mp, qs), NEW window \in Nat \ {0},
         NEW agg, NEW c \in Nat, NEW t \in Nat, c <= t, mp.time = c,
         NEW old, NEW P, Holds(old, agg, window, ps, n, c, P), NEW values, NEW k, NEW r,
         SlotChanged(old, values, agg, window, c, t, qs, n, P, k, r)
  PROVE  Holds(values, agg, window, qs, n + 1, t, [P EXCEPT ![k] = r])
<1> DEFINE R == [P EXCEPT ![k] = r]
<1>8. /\ \A s \in 1..window : old[s].time \in 0..c
      /\ \A s \in (1..window) \ {k} : values[s] = old[s]
      /\ k = Slot(c, window)
      /\ r \in SUBSET (1..(n + 1))
      /\ \A i \in r : i \in P[k] \/ i = n + 1
      /\ HoldsValue(values[k], agg, qs, n + 1, r)
      /\ HoldsTime(values[k], window, qs, n + 1, r)
      /\ c >= From(t, window) => n + 1 \in r
      /\ \A i \in P[k] : qs[i].time >= From(t, window) => i \in r
  BY Zenon DEF SlotChanged
<1>0. /\ n \in Nat
      /\ \A i \in 1..n : qs[i] = ps[i] /\ i \in 1..(n + 1)
      /\ qs[n + 1] = mp /\ n + 1 \in 1..(n + 1)
      /\ \A i \in 1..(n + 1) : qs[i].time \in Nat
  BY ExtendedPoints
<1>1. k \in 1..window /\ mp.time \in Nat
  BY <1>8, SlotInWindow
<1>2. P \in [1..window -> SUBSET (1..n)]
  BY DEF Holds
<1>3. R \in [1..window -> SUBSET (1..(n + 1))]
  BY <1>0, <1>1, <1>2, <1>8
<1>4. R[k] = r /\ \A s \in (1..window) \ {k} : R[s] = P[s]
  BY <1>1, <1>2
<1> HIDE DEF R
<1>5. ASSUME NEW s \in 1..window
      PROVE  /\ \A i \in R[s] : Slot(qs[i].time, window) = s
             /\ HoldsValue(values[s], agg, qs, n + 1, R[s])
             /\ HoldsTime(values[s], window, qs, n + 1, R[s])
  <2>1. /\ \A i \in P[s] : i \in 1..n /\ Slot(ps[i].time, window) = s
        /\ HoldsValue(old[s], agg, ps, n, P[s])
        /\ HoldsTime(old[s], window, ps, n, P[s])
        /\ P[s] \in SUBSET (1..n)
    BY <1>2 DEF Holds
  <2>2. CASE s = k
    <3>1. \A i \in r : Slot(qs[i].time, window) = k
      BY <1>0, <1>8, <2>1, <2>2
    <3> QED
      BY <1>8, <1>4, <2>2, <3>1
  <2>3. CASE s # k
    <3>1. values[s] = old[s] /\ R[s] = P[s]
      BY <1>8, <1>4, <2>3
    <3>2. HoldsValue(old[s], agg, qs, n + 1, P[s])
      BY <2>1, AppendHoldsValue
    <3>3. old[s].time \in Nat /\ old[s].time <= mp.time /\ window \in Nat
      BY <1>8
    <3>4. HoldsTime(old[s], window, qs, n + 1, P[s])
      BY <2>1, <3>3, AppendHoldsTime
    <3> QED
      BY <1>0, <2>1, <3>1, <3>2, <3>4
  <2> QED
    BY <2>2, <2>3
<1>6. ASSUME NEW i \in 1..(n + 1), qs[i].time >= From(t, window)
      PROVE  i \in R[Slot(qs[i].time, window)]
  <2>1. CASE i = n + 1
    BY <1>0, <1>8, <1>4, <1>6, <2>1
  <2>2. CASE i \in 1..n
    <3>1. qs[i] = ps[i] /\ ps[i].time \in Nat
      BY <1>0, <2>2
    <3>2. From(c, window) \in Int /\ From(t, window) \in Int
          /\ From(c, window) <= From(t, window)
      BY FromMonotone
    <3>3. ps[i].time >= From(c, window) /\ ps[i].time >= From(t, window)
      BY <1>6, <3>1, <3>2
    <3>4. i \in P[Slot(ps[i].time, window)] /\ Slot(ps[i].time, window) \in 1..window
      BY <2>2, <3>1, <3>3, SlotInWindow DEF Holds
    <3> QED
      BY <1>8, <1>4, <3>1, <3>3, <3>4
  <2> QED
    BY <1>0, <1>8, <2>1, <2>2
<1>7. Holds(values, agg, window, qs, n + 1, t, R)
  BY <1>3, <1>5, <1>6 DEF Holds
<1> QED
  BY <1>7 DEF R

(***************************************************************************)
(* metricAggregated.add keeps the points of the slots: all that are in the *)
(* window are in their slots afterwards.                                   *)
(***************************************************************************)
LEMMA AddHolds ==
  ASSUME NEW m, Aggregated(m), m.window # 0, NEW c \in Nat, NEW t \in Nat, c <= t, t >= Begin,
         Old(m) = [s \in 1..m.window |-> Old(m)[s]],
         \A s \in 1..m.window : Old(m)[s].time \in 0..c,
         NEW ps, NEW n, NEW mp, NEW qs, Extended(ps, n, mp, qs), mp.time = c,
         NEW P, Holds(Old(m), m.agg, m.window, ps, n, c, P)
  PROVE  \E R : Holds(add(m, t, mp).values, m.agg, m.window, qs, n + 1, t, R)
<1> DEFINE old == Old(m)
           window == m.window
           agg == m.agg
           k == Slot(mp.time, window)
           new == IF Stale(old[k].time, t, window) THEN mp
                  ELSE [value |-> aggregate(agg, old[k].value, mp.value),
                        time |-> Later(old[k].time, mp.time)]
           values == add(m, t, mp).values
<1>0. /\ m.window \in Nat \ {0} /\ m.window * Minute < Begin
      /\ m = [values |-> m.values, agg |-> m.agg, window |-> m.window]
  BY DEF Aggregated
<1>1. values = IF Stale(mp.time, t, window) THEN old ELSE [old EXCEPT ![k] = new]
  <2>1. CASE Stale(mp.time, t, window)
    <3>1. add(m, t, mp) = [m EXCEPT !.values = old]
      BY <1>0, <2>1 DEF add, Old
    <3> QED
      BY <1>0, <2>1, <3>1
  <2>2. CASE ~ Stale(mp.time, t, window)
    <3>1. add(m, t, mp) = [m EXCEPT !.values = [old EXCEPT ![k] = new]]
      BY <1>0, <2>2 DEF add, Old
    <3> QED
      BY <1>0, <2>2, <3>1
  <2> QED
    BY <2>1, <2>2
<1>2. From(t, window) \in Nat \ {0} /\ From(t, window) <= t
  BY <1>0, FromPositive
<1> HIDE DEF values, new, old
<1>3. /\ window \in Nat \ {0} /\ old = [s \in 1..window |-> old[s]]
      /\ \A s \in 1..window : old[s].time \in 0..c
      /\ Holds(old, agg, window, ps, n, c, P)
  BY <1>0 DEF old
<1> HIDE DEF window, agg
<1>4. k \in 1..window
  BY <1>3, SlotInWindow
<1> HIDE DEF k
<1>5. /\ P[k] \in SUBSET (1..n) /\ P \in [1..window -> SUBSET (1..n)]
      /\ HoldsValue(old[k], agg, ps, n, P[k])
      /\ HoldsTime(old[k], window, ps, n, P[k])
  BY <1>3, <1>4 DEF Holds
<1>6. /\ n \in Nat
      /\ \A i \in 1..n : qs[i] = ps[i] /\ i \in 1..(n + 1)
      /\ qs[n + 1] = mp /\ n + 1 \in 1..(n + 1)
      /\ \A i \in 1..(n + 1) : qs[i].time \in Nat
  BY ExtendedPoints
<1>7. old[k].time \in Nat /\ old[k].time <= mp.time /\ window \in Nat
  BY <1>3, <1>4
<1> DEFINE At(v, r) ==
      /\ r \in SUBSET (1..(n + 1))
      /\ \A i \in r : i \in P[k] \/ i = n + 1
      /\ HoldsValue(v, agg, qs, n + 1, r)
      /\ HoldsTime(v, window, qs, n + 1, r)
      /\ c >= From(t, window) => n + 1 \in r
      /\ \A i \in P[k] : qs[i].time >= From(t, window) => i \in r
<1>8. \E r : At(values[k], r)
  <2>1. CASE Stale(mp.time, t, window)
    <3>1. values[k] = old[k]
      BY <1>1, <2>1
    <3>2. HoldsValue(old[k], agg, qs, n + 1, P[k])
      BY <1>5, AppendHoldsValue
    <3>3. HoldsTime(old[k], window, qs, n + 1, P[k])
      BY <1>5, <1>7, AppendHoldsTime
    <3>4. ~(mp.time >= From(t, window)) /\ P[k] \in SUBSET (1..(n + 1))
      BY <1>2, <1>5, <1>6, <2>1 DEF Stale
    <3>5. At(old[k], P[k])
      BY <3>2, <3>3, <3>4
    <3> HIDE DEF At
    <3> QED
      BY <3>1, <3>5
  <2>2. CASE ~ Stale(mp.time, t, window)
    <3>1. values[k] = new
      BY <1>1, <1>3, <1>4, <2>2
    <3>2. CASE Stale(old[k].time, t, window)
      <4>1. new = mp
        BY <3>2 DEF new
      <4>2. HoldsValue(mp, agg, qs, n + 1, {n + 1}) /\ HoldsTime(mp, window, qs, n + 1, {n + 1})
        BY ReplaceHolds
      <4>3. \A i \in P[k] : ~(qs[i].time >= From(t, window))
        <5>1. \A i \in P[k] : qs[i].time <= old[k].time /\ qs[i].time \in Nat
          BY <1>5, <1>6 DEF HoldsTime
        <5>2. old[k].time < From(t, window)
          BY <3>2 DEF Stale
        <5> QED
          BY <1>2, <1>7, <5>1, <5>2
      <4>4. At(mp, {n + 1})
        BY <1>6, <4>2, <4>3
      <4> HIDE DEF At
      <4> QED
        BY <3>1, <4>1, <4>4
    <3>3. CASE ~ Stale(old[k].time, t, window)
      <4> DEFINE r == P[k] \cup {n + 1}
      <4>1. new = [value |-> aggregate(agg, old[k].value, mp.value),
                   time |-> Later(old[k].time, mp.time)]
        BY <3>3 DEF new
      <4>2. new.value = aggregate(agg, old[k].value, mp.value) /\ new.time = mp.time
        <5>1. new.time = Later(old[k].time, mp.time)
          BY <4>1
        <5> QED
          BY <1>7, <4>1, <5>1 DEF Later
      <4>3. old[k].time >= From(t, window) /\ mp.time <= t
        BY <1>2, <1>7, <3>3 DEF Stale
      <4>4. HoldsValue(new, agg, qs, n + 1, r) /\ HoldsTime(new, window, qs, n + 1, r)
        BY <1>2, <1>5, <1>7, <4>2, <4>3, JoinHolds
      <4>5. At(new, r)
        BY <1>5, <1>6, <4>4
      <4> HIDE DEF At
      <4> QED
        BY <3>1, <4>5
    <3> QED
      BY <3>2, <3>3
  <2> QED
    BY <2>1, <2>2
<1>9. PICK r : At(values[k], r)
  BY <1>8
<1>10. \A s \in (1..window) \ {k} : values[s] = old[s]
  BY <1>1, <1>3, <1>4
<1>11. SlotChanged(old, values, agg, window, c, t, qs, n, P, k, r)
  <2>1. k = Slot(c, window)
    BY DEF k
  <2> QED
    BY <1>3, <1>9, <1>10, <2>1, Zenon DEF SlotChanged
<1>12. Holds(values, agg, window, qs, n + 1, t, [P EXCEPT ![k] = r])
  BY <1>3, <1>11, HoldsWith
<1> QED
  BY <1>12 DEF values, agg, window

(***************************************************************************)
(* metricAggregated.get reports of the points in all slots that are in the *)
(* window.                                                                 *)
(***************************************************************************)
LEMMA GetHolds ==
  ASSUME NEW m, NEW t, m.window \in Nat \ {0}, From(t, m.window) \in Nat \ {0},
         m.values = [s \in 1..m.window |-> m.values[s]],
         \A s \in 1..m.window : m.values[s].time \in Nat,
         NEW ps, NEW n \in Nat, ps = [i \in 1..n |-> ps[i]],
         NEW P, Holds(m.values, m.agg, m.window, ps, n, t, P),
         NEW A, A = {i \in 1..n : \E s \in 1..m.window :
                       m.values[s].time >= From(t, m.window) /\ i \in P[s]}
  PROVE  HoldsValue(get(m, t), m.agg, ps, n, A)
<1> DEFINE w == m.window
           values == m.values
           from == From(t, w)
           U(k) == {i \in 1..n : \E s \in (w + 1 - k)..w : values[s].time >= from /\ i \in P[s]}
<1>1. PICK f : /\ f[0] = Zero
               /\ \A k \in 1..w : f[k] = Take(m, t, values[w + 1 - k], f[k - 1])
               /\ get(m, t) = f[w]
  BY GetTurns
<1>2. /\ w \in Nat \ {0} /\ from \in Nat \ {0} /\ \A s \in 1..w : values[s].time \in Nat
      /\ P \in [1..w -> SUBSET (1..n)]
      /\ \A s \in 1..w : \A i \in P[s] : Slot(ps[i].time, w) = s
      /\ \A s \in 1..w : HoldsValue(values[s], m.agg, ps, n, P[s])
  BY Zenon DEF Holds
<1> DEFINE Good(k) == /\ HoldsValue(f[k], m.agg, ps, n, U(k))
                      /\ f[k].time \in Nat
                      /\ f[k].time = 0 => U(k) = {}
           T == {k \in 0..w : Good(k)}
<1>3. 0 \in T
  <2>1. U(0) = {} /\ f[0].value = 0 /\ f[0].time = 0
    BY <1>1, <1>2 DEF Zero
  <2>2. HoldsValue(f[0], m.agg, ps, n, {})
    <3>1. 0 \in Int \cup {NaN} /\ 0 # NaN
      BY ValueAssumption
    <3>2. AllNumbers(ps, n) => SumOf(ps, {}) = 0
      <4>1. AllNumbers(ps, n) => NumberList(ps, n)
        BY Zenon DEF NumberList, AllNumbers
      <4> QED
        BY <4>1, SumEmpty
    <3> QED
      BY <2>1, <3>1, <3>2 DEF HoldsValue
  <2>3. 0 \in 0..w
    BY <1>2
  <2> HIDE DEF U
  <2>4. Good(0)
    <3>1. HoldsValue(f[0], m.agg, ps, n, U(0))
      BY <2>1, <2>2, Zenon
    <3> QED
      BY <2>1, <3>1
  <2> QED
    BY <2>3, <2>4
<1>4. ASSUME NEW k \in 1..w, k - 1 \in T
      PROVE  k \in T
  <2> DEFINE lo == w + 1 - k
             mp == f[k - 1]
             v == values[lo]
             B == U(k - 1)
  <2>1. lo \in 1..w /\ lo..w = {lo} \cup ((lo + 1)..w) /\ w + 1 - (k - 1) = lo + 1 /\ k \in 0..w
    BY <1>2
  <2>2. /\ v.time \in Nat /\ P[lo] \in SUBSET (1..n) /\ HoldsValue(v, m.agg, ps, n, P[lo])
        /\ \A i \in P[lo] : Slot(ps[i].time, w) = lo
    BY <1>2, <2>1
  <2>3. HoldsValue(mp, m.agg, ps, n, B) /\ mp.time \in Nat /\ (mp.time = 0 => B = {})
    BY <1>4
  <2>4. f[k] = Take(m, t, v, mp)
    BY <1>1
  <2>5. /\ B \in SUBSET (1..n)
        /\ \A i \in B : \E s \in (lo + 1)..w : i \in P[s] /\ s \in 1..w
    <3>1. B = {i \in 1..n : \E s \in (lo + 1)..w : values[s].time >= from /\ i \in P[s]}
      BY <2>1
    <3>2. \A s \in (lo + 1)..w : s \in 1..w
      BY <1>2, <2>1
    <3> HIDE DEF B, lo, from, values, w
    <3> QED
      BY <3>1, <3>2
  <2>6. B \cap P[lo] = {}
    <3>1. ASSUME NEW i \in B, i \in P[lo] PROVE FALSE
      <4>1. PICK s \in (lo + 1)..w : i \in P[s] /\ s \in 1..w
        BY <2>5
      <4>2. Slot(ps[i].time, w) = s
        BY <1>2, <4>1
      <4>3. Slot(ps[i].time, w) = lo
        BY <2>2, <3>1
      <4> QED
        BY <2>1, <4>1, <4>2, <4>3
    <3> QED
      BY <3>1
  <2>7. U(k) = IF v.time >= from THEN B \cup P[lo] ELSE B
    <3>1. U(k) = {i \in 1..n : \E s \in lo..w : values[s].time >= from /\ i \in P[s]}
      OBVIOUS
    <3>2. B = {i \in 1..n : \E s \in (lo + 1)..w : values[s].time >= from /\ i \in P[s]}
      BY <2>1
    <3> HIDE DEF B, lo, U
    <3> QED
      BY <2>1, <2>2, <3>1, <3>2
  <2>8. Good(k)
    <3> HIDE DEF U, B, lo, from, values, w, mp, v
    <3>0. Good(k) <=> /\ HoldsValue(f[k], m.agg, ps, n, U(k))
                      /\ f[k].time \in Nat
                      /\ f[k].time = 0 => U(k) = {}
      OBVIOUS
    <3> HIDE DEF Good
    <3>1. CASE v.time < from
      <4>1. f[k] = mp
        BY <2>4, <3>1 DEF Take, Stale, from, w
      <4>2. U(k) = B
        BY <1>2, <2>2, <2>7, <3>1
      <4> QED
        BY <2>3, <3>0, <4>1, <4>2
    <3>2. CASE v.time >= from /\ mp.time = 0
      <4>1. f[k] = v
        <5>1. ~(v.time < from)
          BY <1>2, <2>2, <3>2
        <5> QED
          BY <2>4, <3>2, <5>1 DEF Take, Stale, from, w
      <4>2. U(k) = P[lo]
        BY <2>3, <2>7, <3>2
      <4>3. v.time # 0
        BY <1>2, <3>2
      <4> QED
        BY <2>2, <3>0, <4>1, <4>2, <4>3
    <3>3. CASE v.time >= from /\ mp.time # 0
      <4>1. f[k] = [value |-> aggregate(m.agg, mp.value, v.value), time |-> Later(mp.time, v.time)]
        <5>1. ~(v.time < from)
          BY <1>2, <2>2, <3>3
        <5> QED
          BY <2>4, <3>3, <5>1 DEF Take, Stale, from, w
      <4>2. U(k) = B \cup P[lo]
        BY <2>7, <3>3
      <4>3. f[k].value = aggregate(m.agg, mp.value, v.value) /\ f[k].time = Later(mp.time, v.time)
        BY <4>1
      <4>4. HoldsValue(f[k], m.agg, ps, n, B \cup P[lo])
        <5> DEFINE new == f[k]
                   C == P[lo]
                   agg == m.agg
        <5>1. /\ HoldsValue(mp, agg, ps, n, B) /\ B \in SUBSET (1..n)
              /\ HoldsValue(v, agg, ps, n, C) /\ C \in SUBSET (1..n)
              /\ B \cap C = {} /\ new.value = aggregate(agg, mp.value, v.value)
          BY <2>2, <2>3, <2>5, <2>6, <4>3
        <5> HIDE DEF new, C, agg
        <5>2. HoldsValue(new, agg, ps, n, B \cup C)
          BY <5>1, AggregateHolds
        <5> QED
          BY <5>2 DEF new, C, agg
      <4>5. f[k].time \in Nat /\ f[k].time # 0
        BY <2>2, <2>3, <3>3, <4>3 DEF Later
      <4> QED
        BY <3>0, <4>2, <4>4, <4>5
    <3> QED
      BY <1>2, <2>2, <3>1, <3>2, <3>3
  <2> QED
    BY <2>1, <2>8
<1>5. w \in T
  <2> HIDE DEF T
  <2> QED
    BY <1>2, <1>3, <1>4, UpTo
<1>6. w + 1 - w = 1
  BY <1>2
<1>7. HoldsValue(get(m, t), m.agg, ps, n, U(w))
  BY <1>1, <1>5
<1>8. U(w) = A
  BY <1>6
<1> QED
  BY <1>7, <1>8

(***************************************************************************)
(* Time passes: all points that are in the window later are in it now.     *)
(***************************************************************************)
LEMMA HoldsLater ==
  ASSUME NEW values, NEW agg, NEW window \in Nat, NEW ps, NEW n, NEW t \in Nat, NEW u \in Nat,
         t <= u, \A i \in 1..n : ps[i].time \in Nat,
         NEW P, Holds(values, agg, window, ps, n, t, P)
  PROVE  Holds(values, agg, window, ps, n, u, P)
<1>1. From(t, window) \in Int /\ From(u, window) \in Int /\ From(t, window) <= From(u, window)
  BY FromMonotone
<1>2. \A i \in 1..n : ps[i].time >= From(u, window) => ps[i].time >= From(t, window)
  BY <1>1
<1> QED
  BY <1>2 DEF Holds

\* The values of the points are numbers or NaN, and each slot holds its points.
Slots(m, ps, t) ==
  /\ \A i \in 1..Len(ps) : ps[i].value \in Int \cup {NaN}
  /\ m.window # 0 => \E P : Holds(m.values, m.agg, m.window, ps, Len(ps), t, P)

(***************************************************************************)
(* The slots of a new name hold nothing.                                   *)
(***************************************************************************)
LEMMA EmptyHolds ==
  ASSUME NEW agg, NEW window \in Nat \ {0}, NEW t
  PROVE  Holds([s \in 1..window |-> Zero], agg, window, <<>>, 0, t, [s \in 1..window |-> {}])
<1> DEFINE values == [s \in 1..window |-> Zero]
           P == [s \in 1..window |-> {}]
<1>1. P \in [1..window -> SUBSET (1..0)]
  OBVIOUS
<1>2. \A s \in 1..window : P[s] = {} /\ values[s] = Zero
  OBVIOUS
<1>3. HoldsValue(Zero, agg, <<>>, 0, {})
  <2>1. 0 \in Nat /\ <<>> = [i \in 1..0 |-> <<>>[i]]
    OBVIOUS
  <2>2. NumberList(<<>>, 0)
    BY <2>1 DEF NumberList
  <2>3. SumOf(<<>>, {}) = 0
    BY <2>2, SumEmpty
  <2>4. 0 # NaN
    BY ValueAssumption
  <2> QED
    BY <2>3, <2>4 DEF HoldsValue, Zero
<1>4. HoldsTime(Zero, window, <<>>, 0, {})
  BY DEF HoldsTime
<1>5. \A i \in 1..0 : FALSE
  OBVIOUS
<1> HIDE DEF values, P
<1>6. Holds(values, agg, window, <<>>, 0, t, P)
  BY <1>1, <1>2, <1>3, <1>4, <1>5 DEF Holds
<1> QED
  BY <1>6 DEF values, P

(***************************************************************************)
(* A point with the time of the clock is put into its slot.                *)
(***************************************************************************)
LEMMA AddSlots ==
  ASSUME NEW m, Aggregated(m), NEW c \in Nat, NEW t \in Nat, c <= t, t >= Begin,
         m.window > 0 => /\ Old(m) = [s \in 1..m.window |-> Old(m)[s]]
                         /\ \A s \in 1..m.window : Old(m)[s].time \in 0..c,
         NEW mp, mp.time = c, mp.value \in Int \cup {NaN}, NEW ps,
         \/ ps = <<>> /\ m.values = <<>>
         \/ InOrder(ps, c) /\ Keeps(m, ps, c) /\ Slots(m, ps, c)
  PROVE  Slots(add(m, t, mp), Append(ps, mp), t)
<1> DEFINE n == Len(ps)
           qs == Append(ps, mp)
           a == add(m, t, mp)
<1>0. m.window \in Nat
  BY DEF Aggregated
<1>1. n \in Nat /\ ps = [i \in 1..n |-> ps[i]] /\ (ps = <<>> \/ InOrder(ps, c))
  <2>1. CASE ps = <<>>
    BY <2>1
  <2>2. CASE InOrder(ps, c)
    BY <2>2, Zenon DEF InOrder
  <2> QED
    BY <2>1, <2>2
<1>2. \A i \in 1..n : ps[i].value \in Int \cup {NaN}
  <2>1. CASE ps = <<>>
    BY <2>1
  <2>2. CASE Slots(m, ps, c)
    BY <2>2 DEF Slots
  <2> QED
    BY <2>1, <2>2
<1>3. InOrder(qs, t)
  BY <1>1, AppendInOrder
<1> HIDE DEF n
<1>4. /\ Len(qs) = n + 1 /\ qs = [i \in 1..(n + 1) |-> qs[i]]
      /\ \A i \in 1..n : qs[i] = ps[i]
      /\ qs[n + 1] = mp
  BY <1>1, AppendShape
<1> HIDE DEF qs
<1>5. \A i \in 1..(n + 1) : i \in 1..n \/ i = n + 1
  BY <1>1
<1>6. \A i \in 1..(n + 1) : qs[i].value \in Int \cup {NaN}
  BY <1>2, <1>4, <1>5
<1>7. Extended(ps, n, mp, qs)
  <2>1. \A i \in 1..Len(qs) : qs[i].time \in 0..t
    BY <1>3 DEF InOrder
  <2>2. \A i, j \in 1..Len(qs) : i <= j => qs[i].time <= qs[j].time
    BY <1>3 DEF InOrder
  <2>3. \A i \in 1..(n + 1) : qs[i].time \in Nat
    BY <1>4, <2>1
  <2>4. \A i, j \in 1..(n + 1) : i <= j => qs[i].time <= qs[j].time
    BY <1>4, <2>2
  <2> QED
    BY <1>1, <1>4, <1>6, <2>3, <2>4, Zenon DEF Extended
<1>8. a.window = m.window /\ a.agg = m.agg
  <2>1. m = [values |-> m.values, agg |-> m.agg, window |-> m.window]
    BY DEF Aggregated
  <2> DEFINE k == Slot(mp.time, m.window)
             new == IF Stale(Old(m)[k].time, t, m.window) THEN mp
                    ELSE [value |-> aggregate(m.agg, Old(m)[k].value, mp.value),
                          time |-> Later(Old(m)[k].time, mp.time)]
  <2>2. \/ a = [m EXCEPT !.values = <<mp>>]
        \/ a = [m EXCEPT !.values = Old(m)]
        \/ a = [m EXCEPT !.values = [Old(m) EXCEPT ![k] = new]]
    BY DEF add, Old
  <2> HIDE DEF a, new
  <2> QED
    BY <2>1, <2>2
<1>9. ASSUME m.window # 0
      PROVE  \E R : Holds(a.values, m.agg, m.window, qs, n + 1, t, R)
  <2>1. m.window \in Nat \ {0} /\ m.window > 0
    BY <1>0, <1>9
  <2>2. \E P : Holds(Old(m), m.agg, m.window, ps, n, c, P)
    <3>1. CASE ps = <<>> /\ m.values = <<>>
      <4>1. Old(m) = [s \in 1..m.window |-> Zero] /\ n = 0
        BY <3>1 DEF Old, n
      <4> DEFINE w == m.window
                 g == m.agg
      <4>2. Holds([s \in 1..w |-> Zero], g, w, <<>>, 0, c, [s \in 1..w |-> {}])
        <5>1. w \in Nat \ {0}
          BY <2>1
        <5> HIDE DEF w, g
        <5> QED
          BY <5>1, EmptyHolds
      <4> QED
        BY <3>1, <4>1, <4>2
    <3>2. CASE Keeps(m, ps, c) /\ Slots(m, ps, c)
      <4>1. m.values = [s \in 1..m.window |-> m.values[s]]
        BY <1>9, <3>2, Zenon DEF Keeps
      <4>2. m.values # <<>>
        BY <2>1, <4>1
      <4>3. Old(m) = m.values
        BY <4>2 DEF Old
      <4> QED
        BY <1>9, <3>2, <4>3 DEF Slots, n
    <3> QED
      BY <3>1, <3>2
  <2>3. PICK P : Holds(Old(m), m.agg, m.window, ps, n, c, P)
    BY <2>2
  <2> QED
    BY <1>7, <1>9, <2>1, <2>3, AddHolds
<1> HIDE DEF a
<1>10. Slots(a, qs, t)
  BY <1>4, <1>6, <1>8, <1>9, Zenon DEF Slots
<1> QED
  BY <1>10 DEF a, qs

-----------------------------------------------------------------------------
\* What is known of a name with the points ps, at time t.
Known(m, ps, t) == Aggregated(m) /\ InOrder(ps, t) /\ Keeps(m, ps, t) /\ Slots(m, ps, t)

\* The inductive invariant, of the state in the middle of collect as well.
Recorded(mps, hist, t) ==
  /\ t \in Nat /\ t >= Begin
  /\ DOMAIN hist = DOMAIN mps
  /\ \A mk \in DOMAIN mps : Known(mps[mk], hist[mk], t)

(***************************************************************************)
(* Time passes: what is recorded at one time is so later.                  *)
(***************************************************************************)
LEMMA RecordedLater ==
  ASSUME NEW m, NEW ps, NEW t \in Nat, NEW u \in Nat, t <= u,
         Known(m, ps, t)
  PROVE  Known(m, ps, u)
<1>0. Aggregated(m) /\ InOrder(ps, t) /\ Keeps(m, ps, t) /\ Slots(m, ps, t)
  BY DEF Known
<1>1. InOrder(ps, u)
  BY <1>0 DEF InOrder
<1>2. m.window \in Nat
  BY <1>0 DEF Aggregated
<1>3. From(t, m.window) \in Int /\ From(u, m.window) \in Int
      /\ From(t, m.window) <= From(u, m.window)
  BY <1>2, FromMonotone
<1>4. ps[Len(ps)].time \in Nat /\ \A i \in 1..Len(ps) : ps[i].time \in Nat
  BY <1>0 DEF InOrder
<1>5. ASSUME m.window = 0 PROVE Keeps(m, ps, u)
  <2>1. m.values = <<ps[Len(ps)]>>
    BY <1>0, <1>5, Zenon DEF Keeps
  <2> QED
    BY <1>1, <1>5, <2>1, Zenon DEF Keeps
<1>6. ASSUME m.window # 0 PROVE Keeps(m, ps, u)
  <2> DEFINE last == ps[Len(ps)]
  <2>1. last.time >= From(u, m.window) => last.time >= From(t, m.window)
    BY <1>3, <1>4
  <2>2. /\ m.values = [s \in 1..m.window |-> m.values[s]]
        /\ \A s \in 1..m.window : m.values[s].time \in 0..last.time
        /\ last.time >= From(t, m.window) =>
             /\ m.values[Slot(last.time, m.window)].time = last.time
             /\ m.window = 1 /\ m.agg = "Replace" =>
                  m.values[Slot(last.time, m.window)].value = last.value
    BY <1>0, <1>6, Zenon DEF Keeps
  <2> HIDE DEF last
  <2>3. ps[Len(ps)] = last
    BY DEF last
  <2> QED
    BY <1>1, <1>6, <2>1, <2>2, <2>3, KeepsIntro, Zenon
<1>7. Slots(m, ps, u)
  <2>1. ASSUME m.window # 0
        PROVE  \E P : Holds(m.values, m.agg, m.window, ps, Len(ps), u, P)
    <3>1. PICK P : Holds(m.values, m.agg, m.window, ps, Len(ps), t, P)
      BY <1>0, <2>1 DEF Slots
    <3>2. Holds(m.values, m.agg, m.window, ps, Len(ps), u, P)
      BY <1>2, <1>4, <3>1, HoldsLater
    <3> QED
      BY <3>2
  <2> QED
    BY <1>0, <2>1 DEF Slots
<1> QED
  BY <1>0, <1>1, <1>5, <1>6, <1>7 DEF Known

\* The states in which collect is, metric by metric.
Collecting(s) ==
  /\ s = [mps |-> s.mps, hist |-> s.hist, clock |-> s.clock, panicked |-> s.panicked]
  /\ Recorded(s.mps, s.hist, s.clock)

\* What is known under a name, or new.
Under(mps, metric, mk) ==
  IF mk \in DOMAIN mps THEN mps[mk]
  ELSE [values |-> <<>>, agg |-> metric.agg, window |-> metric.window]

\* collect adds a point under a name, and time passes.
Added(s, metric, mk, mp, delay) ==
  [s EXCEPT !.clock = @ + delay,
            !.mps = Put(@, mk, add(Under(@, metric, mk), s.clock + delay, mp)),
            !.hist = Put(@, mk, Append(IF mk \in DOMAIN @ THEN @[mk] ELSE <<>>, mp))]

(***************************************************************************)
(* collect for one metric changes nothing, panics, or adds one point, with *)
(* the time of the clock, under one name.                                  *)
(***************************************************************************)
LEMMA CollectShape ==
  ASSUME NEW s, NEW metric, NEW msg, NEW fields, NEW delay,
         toFloat(byPath(fields, metric.value)).n \in Int \cup {NaN},
         NEW c, c = CollectOne(s, metric, msg, fields, delay)
  PROVE  \/ c = s
         \/ c = [s EXCEPT !.panicked = TRUE]
         \/ \E mk, mp : /\ mp.time = s.clock /\ mp.value \in Int \cup {NaN}
                        /\ c = Added(s, metric, mk, mp, delay)
<1> DEFINE name == replaceVars(metric.name, fields)
           v == IF metric.value = <<>> THEN [ok |-> TRUE, n |-> 1]
                ELSE toFloat(byPath(fields, metric.value))
           mp == [value |-> IF metric.double /\ v.n # NaN THEN 2 * v.n ELSE v.n,
                  time |-> s.clock]
           matches == match(metric, msg, fields)
           panics == \/ \E m \in metric.fields : byPath(fields, m.path) = Panics
                     \/ /\ matches
                        /\ \E i \in DOMAIN metric.name :
                             byPath(fields, metric.name[i].path) = Panics
                     \/ matches /\ name.ok /\ byPath(fields, metric.value) = Panics
           mk == name.mk
           added == Added(s, metric, mk, mp, delay)
<1>1. c = CASE s.panicked -> s
            [] ~s.panicked /\ panics -> [s EXCEPT !.panicked = TRUE]
            [] ~s.panicked /\ matches /\ name.ok /\ v.ok -> added
            [] OTHER -> s
  BY DEF CollectOne, Added, Under
<1>2. mp.time = s.clock /\ mp.value \in Int \cup {NaN}
  <2>1. v.n \in Int \cup {NaN}
    OBVIOUS
  <2> HIDE DEF v
  <2>2. v.n # NaN => v.n \in Int /\ 2 * v.n \in Int
    BY <2>1
  <2> QED
    BY <2>1, <2>2
<1> QED
  <2> DEFINE q == [s EXCEPT !.panicked = TRUE]
             ok == ~s.panicked /\ matches /\ name.ok /\ v.ok
  <2>1. c = CASE s.panicked -> s [] ~s.panicked /\ panics -> q [] ok -> added [] OTHER -> s
    BY <1>1
  <2> HIDE DEF q, ok, added, panics
  <2>2. c = s \/ c = q \/ c = added
    BY <2>1
  <2> HIDE DEF mk, mp
  <2> QED
    BY <1>2, <2>2, Zenon DEF added, q

(***************************************************************************)
(* A point added by collect is recorded, and so are all others still.      *)
(***************************************************************************)
LEMMA AddedIsRecorded ==
  ASSUME NEW s, Collecting(s), NEW metric, metric.window \in Nat,
         metric.window * Minute < Begin, NEW mk, NEW mp, mp.time = s.clock,
         mp.value \in Int \cup {NaN}, NEW delay \in Nat
  PROVE  Collecting(Added(s, metric, mk, mp, delay))
<1> DEFINE m == Under(s.mps, metric, mk)
           ps == IF mk \in DOMAIN s.hist THEN s.hist[mk] ELSE <<>>
           u == s.clock + delay
           qs == Append(ps, mp)
           a == Added(s, metric, mk, mp, delay)
           mps == Put(s.mps, mk, add(m, u, mp))
           hist == Put(s.hist, mk, qs)
<1>1. s.clock \in Nat /\ s.clock >= Begin /\ DOMAIN s.hist = DOMAIN s.mps
  BY DEF Collecting, Recorded
<1>2. \A k \in DOMAIN s.mps : /\ Known(s.mps[k], s.hist[k], s.clock)
                              /\ Aggregated(s.mps[k]) /\ InOrder(s.hist[k], s.clock)
                              /\ Keeps(s.mps[k], s.hist[k], s.clock)
                              /\ Slots(s.mps[k], s.hist[k], s.clock)
  BY DEF Collecting, Recorded, Known
<1>3. u \in Nat /\ u >= Begin /\ s.clock <= u
  BY <1>1, TimeAssumption
<1>4. a = [mps |-> mps, hist |-> hist, clock |-> u, panicked |-> s.panicked]
  <2>1. s = [mps |-> s.mps, hist |-> s.hist, clock |-> s.clock, panicked |-> s.panicked]
    BY DEF Collecting
  <2>2. a = [s EXCEPT !.clock = u, !.mps = mps, !.hist = hist]
    BY Zenon DEF Added
  <2> HIDE DEF a, u, mps, hist
  <2> QED
    BY <2>1, <2>2
<1>5. ps = <<>> \/ InOrder(ps, s.clock)
  BY <1>1, <1>2
<1>6. InOrder(qs, u) /\ qs[Len(qs)] = mp
  <2> HIDE DEF ps, u
  <2> QED
    BY <1>1, <1>3, <1>5, AppendInOrder
<1>7. Aggregated(m)
  <2>1. CASE mk \in DOMAIN s.mps
    BY <1>2, <2>1 DEF Under
  <2>2. CASE mk \notin DOMAIN s.mps
    <3>1. m = [values |-> <<>>, agg |-> metric.agg, window |-> metric.window]
      BY <2>2 DEF Under
    <3> QED
      BY <3>1 DEF Aggregated
  <2> QED
    BY <2>1, <2>2
<1>8. ASSUME m.window > 0
      PROVE  /\ Old(m) = [i \in 1..m.window |-> Old(m)[i]]
             /\ \A i \in 1..m.window : Old(m)[i].time \in 0..s.clock
  <2>0. m.window \in Nat
    BY <1>7 DEF Aggregated
  <2>1. CASE m.values = <<>>
    <3>1. Old(m) = [i \in 1..m.window |-> Zero]
      BY <2>1 DEF Old
    <3>2. Zero.time = 0
      BY DEF Zero
    <3> HIDE DEF m
    <3> QED
      BY <1>1, <3>1, <3>2
  <2>2. CASE m.values # <<>>
    <3>1. mk \in DOMAIN s.mps /\ m = s.mps[mk]
      BY <2>2 DEF Under
    <3>2. Keeps(m, s.hist[mk], s.clock) /\ InOrder(s.hist[mk], s.clock)
      BY <1>2, <3>1
    <3>3. Old(m) = m.values
      BY <2>2 DEF Old
    <3> HIDE DEF m
    <3> DEFINE qq == s.hist[mk]
               last == qq[Len(qq)]
    <3>4. m.window # 0
      BY <1>8, <2>0
    <3>5. m.values = [i \in 1..m.window |-> m.values[i]]
          /\ \A i \in 1..m.window : m.values[i].time \in 0..last.time
      BY <3>2, <3>4, Zenon DEF Keeps
    <3>6. last.time \in 0..s.clock
      BY <3>2 DEF InOrder
    <3> HIDE DEF last
    <3>7. \A i \in 1..m.window : m.values[i].time \in 0..s.clock
      BY <1>1, <3>5, <3>6
    <3> QED
      BY <3>3, <3>5, <3>7
  <2> QED
    BY <2>1, <2>2
<1>9. Known(add(m, u, mp), qs, u)
  <2>1. \/ ps = <<>> /\ m.values = <<>>
        \/ InOrder(ps, s.clock) /\ Keeps(m, ps, s.clock) /\ Slots(m, ps, s.clock)
    BY <1>1, <1>2 DEF Under
  <2> HIDE DEF m, u, ps
  <2>2. Slots(add(m, u, mp), qs, u)
    BY <1>1, <1>3, <1>7, <1>8, <2>1, AddSlots
  <2> HIDE DEF qs
  <2>3. Aggregated(add(m, u, mp)) /\ Keeps(add(m, u, mp), qs, u)
    BY <1>1, <1>3, <1>6, <1>7, <1>8, AddKeeps
  <2> QED
    BY <1>6, <2>2, <2>3 DEF Known
<1>10. /\ DOMAIN mps = DOMAIN s.mps \cup {mk} /\ DOMAIN hist = DOMAIN s.hist \cup {mk}
       /\ mps[mk] = add(m, u, mp) /\ hist[mk] = qs
       /\ \A k \in DOMAIN s.mps \ {mk} : mps[k] = s.mps[k]
       /\ \A k \in DOMAIN s.hist \ {mk} : hist[k] = s.hist[k]
  <2> HIDE DEF m, ps, qs, u
  <2>1. /\ DOMAIN mps = DOMAIN s.mps \cup {mk} /\ mps[mk] = add(m, u, mp)
        /\ \A k \in DOMAIN s.mps \ {mk} : mps[k] = s.mps[k]
    BY DEF Put
  <2>2. /\ DOMAIN hist = DOMAIN s.hist \cup {mk} /\ hist[mk] = qs
        /\ \A k \in DOMAIN s.hist \ {mk} : hist[k] = s.hist[k]
    BY DEF Put
  <2> QED
    BY <2>1, <2>2
<1> HIDE DEF m, ps, qs, u, mps, hist, a
<1>11. ASSUME NEW k \in DOMAIN mps
       PROVE  Known(mps[k], hist[k], u)
  <2>1. CASE k = mk
    BY <1>9, <1>10, <2>1
  <2>2. CASE k # mk
    <3>1. k \in DOMAIN s.mps /\ mps[k] = s.mps[k] /\ hist[k] = s.hist[k]
      BY <1>1, <1>10, <2>2
    <3>2. Known(s.mps[k], s.hist[k], s.clock)
      BY <1>2, <3>1
    <3> QED
      BY <1>1, <1>3, <3>1, <3>2, RecordedLater
  <2> QED
    BY <2>1, <2>2
<1>12. Recorded(mps, hist, u)
  BY <1>1, <1>3, <1>10, <1>11 DEF Recorded
<1>13. a.mps = mps /\ a.hist = hist /\ a.clock = u /\ a.panicked = s.panicked
  BY <1>4
<1>14. Collecting(a)
  BY <1>4, <1>12, <1>13 DEF Collecting
<1> QED
  BY <1>14 DEF a

(***************************************************************************)
(* collect for one metric.                                                 *)
(***************************************************************************)
LEMMA CollectOneRecords ==
  ASSUME NEW s, Collecting(s), NEW metric, metric.window \in Nat,
         metric.window * Minute < Begin, NEW msg, NEW fields,
         toFloat(byPath(fields, metric.value)).n \in Int \cup {NaN}, NEW delay \in Nat
  PROVE  Collecting(CollectOne(s, metric, msg, fields, delay))
<1> DEFINE c == CollectOne(s, metric, msg, fields, delay)
<1>0. c = CollectOne(s, metric, msg, fields, delay)
  OBVIOUS
<1> HIDE DEF c
<1>1. \/ c = s
      \/ c = [s EXCEPT !.panicked = TRUE]
      \/ \E mk, mp : /\ mp.time = s.clock /\ mp.value \in Int \cup {NaN}
                        /\ c = Added(s, metric, mk, mp, delay)
  BY <1>0, CollectShape
<1>2. CASE c = [s EXCEPT !.panicked = TRUE]
  <2>1. c = [mps |-> s.mps, hist |-> s.hist, clock |-> s.clock, panicked |-> TRUE]
    BY <1>2 DEF Collecting
  <2>2. c.mps = s.mps /\ c.hist = s.hist /\ c.clock = s.clock /\ c.panicked = TRUE
    BY <2>1
  <2> QED
    BY <2>1, <2>2 DEF Collecting, c
<1>3. CASE \E mk, mp : /\ mp.time = s.clock /\ mp.value \in Int \cup {NaN}
                        /\ c = Added(s, metric, mk, mp, delay)
  BY <1>3, AddedIsRecorded DEF c
<1> QED
  BY <1>1, <1>2, <1>3 DEF c

\* The turn of collect for the metric i.
Turn(call, delays, i, s) == CollectOne(s, metrics[i], call.msg, Fields(call), delays[i])

\* it computes what collect makes of any metrics up to n, in their order.
Collected(call, delays, n, it) ==
  /\ it = [s \in SUBSET (1..n) |-> it[s]]
  /\ it[{}] = Start
  /\ \A s \in SUBSET (1..n) :
       s # {} => it[s] = Turn(call, delays, Max(s), it[s \ {Max(s)}])

(***************************************************************************)
(* Such a function exists: it is built metric by metric.                   *)
(***************************************************************************)
LEMMA CollectedExists ==
  ASSUME NEW call, NEW delays, NEW n \in Nat
  PROVE  \E it : Collected(call, delays, n, it)
<1> DEFINE S == {k \in 0..n : \E it : Collected(call, delays, k, it)}
<1>1. 0 \in S
  <2> DEFINE it == [s \in SUBSET (1..0) |-> Start]
  <2>1. \A s \in SUBSET (1..0) : s = {}
    OBVIOUS
  <2>2. it = [s \in SUBSET (1..0) |-> it[s]] /\ it[{}] = Start
    OBVIOUS
  <2> HIDE DEF it
  <2>3. Collected(call, delays, 0, it)
    BY <2>1, <2>2 DEF Collected
  <2> QED
    BY <2>3
<1>2. ASSUME NEW k \in 1..n, k - 1 \in S
      PROVE  k \in S
  <2>1. PICK f : Collected(call, delays, k - 1, f)
    BY <1>2
  <2> DEFINE it == [s \in SUBSET (1..k) |->
                      IF k \in s THEN Turn(call, delays, k, f[s \ {k}]) ELSE f[s]]
  <2>2. \A s \in SUBSET (1..k) : /\ s \ {k} \in SUBSET (1..(k - 1))
                                 /\ k \notin s => s \in SUBSET (1..(k - 1))
    OBVIOUS
  <2>3. it = [s \in SUBSET (1..k) |-> it[s]]
    OBVIOUS
  <2>4. ASSUME NEW s \in SUBSET (1..k), s # {}
        PROVE  it[s] = Turn(call, delays, Max(s), it[s \ {Max(s)}])
    <3>0. Max(s) \in s /\ \A y \in s : y <= Max(s)
      <4>1. k \in Nat
        OBVIOUS
      <4> QED
        BY <2>4, <4>1, MaxIn
    <3>1. CASE k \in s
      <4>1. Max(s) = k
        <5>1. Max(s) \in 1..k /\ k <= Max(s)
          BY <3>0, <3>1
        <5> QED
          BY <5>1
      <4>2. it[s \ {k}] = f[s \ {k}]
        BY <2>2
      <4> QED
        BY <3>1, <4>1, <4>2
    <3>2. CASE k \notin s
      <4>1. s \in SUBSET (1..(k - 1)) /\ s \ {Max(s)} \in SUBSET (1..(k - 1))
        BY <2>2, <3>2
      <4>2. f[s] = Turn(call, delays, Max(s), f[s \ {Max(s)}])
        BY <2>1, <2>4, <4>1 DEF Collected
      <4>3. it[s] = f[s] /\ it[s \ {Max(s)}] = f[s \ {Max(s)}]
        BY <3>2, <4>1
      <4> HIDE DEF it
      <4> QED
        BY <4>2, <4>3
    <3> QED
      BY <3>1, <3>2
  <2>5. it[{}] = Start
    BY <2>1 DEF Collected
  <2> HIDE DEF it
  <2>6. Collected(call, delays, k, it)
    BY <2>3, <2>4, <2>5, Zenon DEF Collected
  <2> QED
    BY <2>6
<1>3. n \in S
  <2> HIDE DEF S
  <2> QED
    BY <1>1, <1>2, UpTo
<1> QED
  BY <1>3

\* f computes collect metric by metric.
Turns(call, delays, n, f) ==
  /\ f[0] = Start
  /\ \A k \in 1..n : f[k] = Turn(call, delays, k, f[k - 1])
  /\ collect(call, delays) = f[n]

(***************************************************************************)
(* collect, metric by metric: f[k] is what it has after k metrics.         *)
(***************************************************************************)
LEMMA CollectTurns ==
  ASSUME NEW call, NEW delays, NEW n \in Nat, DOMAIN metrics = 1..n
  PROVE  \E f : Turns(call, delays, n, f)
<1> DEFINE Eq(it) == it = [s \in SUBSET (1..n) |->
             IF s = {} THEN Start ELSE Turn(call, delays, Max(s), it[s \ {Max(s)}])]
<1>2. PICK it : Collected(call, delays, n, it)
  BY CollectedExists
<1>3. Eq(it)
  BY <1>2, Zenon DEF Collected
<1> DEFINE index == [i \in DOMAIN metrics |-> i]
           c == CHOOSE g : g = [s \in SUBSET DOMAIN index |->
                  IF s = {} THEN Start
                  ELSE CollectOne(g[s \ {Max(s)}], metrics[index[Max(s)]], call.msg,
                                  Fields(call), delays[index[Max(s)]])]
<1>4. collect(call, delays) = c[DOMAIN index]
  BY DEF collect, FoldLeftDomain, FoldLeft, MapThenFoldSet
<1>5. DOMAIN index = 1..n
  OBVIOUS
<1>6. \A s \in SUBSET (1..n) : s # {} => Max(s) \in 1..n /\ index[Max(s)] = Max(s)
  <2>1. \A s \in SUBSET (1..n) : s # {} => Max(s) \in s
    BY MaxIn
  <2> QED
    BY <2>1
<1>7. \A g : (g = [s \in SUBSET DOMAIN index |->
                  IF s = {} THEN Start
                  ELSE CollectOne(g[s \ {Max(s)}], metrics[index[Max(s)]], call.msg,
                                  Fields(call), delays[index[Max(s)]])]) <=> Eq(g)
  <2> HIDE DEF index
  <2> QED
    BY <1>5, <1>6 DEF Turn
<1>8. Eq(c)
  <2> HIDE DEF Eq, index
  <2> QED
    BY <1>3, <1>7
<1> DEFINE f == [k \in 0..n |-> c[1..k]]
<1> HIDE DEF c, index
<1>9. collect(call, delays) = f[n] /\ f[0] = Start
  <2>1. 1..0 = {} /\ {} \in SUBSET (1..n) /\ n \in 0..n /\ 0 \in 0..n
    OBVIOUS
  <2> QED
    BY <1>4, <1>5, <1>8, <2>1
<1>10. ASSUME NEW k \in 1..n
       PROVE  f[k] = Turn(call, delays, k, f[k - 1])
  <2>1. k \in Nat \ {0} /\ 1..k \in SUBSET (1..n) /\ k \in 0..n /\ k - 1 \in 0..n
    OBVIOUS
  <2>2. Max(1..k) = k /\ (1..k) \ {k} = 1..(k - 1) /\ 1..k # {}
    BY <2>1, MaxUpTo
  <2>3. c[1..k] = Turn(call, delays, k, c[1..(k - 1)])
    BY <1>8, <2>1, <2>2, Zenon
  <2>4. f[k] = c[1..k] /\ f[k - 1] = c[1..(k - 1)]
    BY <2>1
  <2> QED
    BY <2>3, <2>4, Zenon
<1> HIDE DEF f
<1> QED
  BY <1>9, <1>10 DEF Turns

\* The inductive invariant.
Recording == metrics \in Configs /\ Recorded(metricPoints, points, now)

(***************************************************************************)
(* collect keeps what is recorded, whether or not it panics on the way.    *)
(***************************************************************************)
LEMMA CollectRecords ==
  ASSUME Recording, NEW call \in Calls, NEW delays \in [DOMAIN metrics -> 0..MaxDelay]
  PROVE  Collecting(collect(call, delays)) /\ Collecting(Start)
<1>1. PICK n \in Nat : DOMAIN metrics = 1..n
  <2>1. metrics \in Seq({metrics[i] : i \in DOMAIN metrics})
    BY TimeAssumption DEF Recording
  <2> DEFINE M == {metrics[i] : i \in DOMAIN metrics}
  <2>2. metrics \in Seq(M)
    BY <2>1
  <2> HIDE DEF M
  <2> QED
    BY <2>2
<1>2. PICK f : Turns(call, delays, n, f)
  BY <1>1, CollectTurns
<1>3. Collecting(Start)
  <2>1. /\ Start = [mps |-> Start.mps, hist |-> Start.hist, clock |-> Start.clock,
                    panicked |-> Start.panicked]
        /\ Start.mps = metricPoints /\ Start.hist = points /\ Start.clock = now
    BY DEF Start
  <2> QED
    BY <2>1 DEF Collecting, Recording
<1> DEFINE S == {k \in 0..n : Collecting(f[k])}
<1>4. 0 \in S
  BY <1>1, <1>2, <1>3 DEF Turns
<1>5. ASSUME NEW k \in 1..n, k - 1 \in S
      PROVE  k \in S
  <2>1. Collecting(f[k - 1])
    BY <1>5
  <2>2. metrics[k].window \in Nat /\ metrics[k].window * Minute < Begin
    BY <1>1, TimeAssumption DEF Recording
  <2>3. delays[k] \in Nat
    BY <1>1, TimeAssumption
  <2>4. f[k] = CollectOne(f[k - 1], metrics[k], call.msg, Fields(call), delays[k])
    BY <1>2 DEF Turn, Turns
  <2>5. toFloat(byPath(Fields(call), metrics[k].value)).n \in Int \cup {NaN}
    BY <1>1, ValueAssumption DEF Recording
  <2>6. Collecting(f[k])
    BY <2>1, <2>2, <2>3, <2>4, <2>5, CollectOneRecords
  <2> QED
    BY <2>6
<1>6. n \in S
  <2> HIDE DEF S
  <2> QED
    BY <1>1, <1>4, <1>5, UpTo
<1> QED
  BY <1>2, <1>3, <1>6 DEF Turns

(***************************************************************************)
(* In every run the points under a name are in order, and the latest one   *)
(* is in its slot unless the window has passed it.                         *)
(***************************************************************************)
THEOREM PointsAreRecorded == Spec => []Recording
<1>1. Init => Recording
  <2> SUFFICES ASSUME Init PROVE Recording
    OBVIOUS
  <2>1. metrics \in Configs /\ metricPoints = <<>> /\ points = <<>>
        /\ now \in Begin .. (Begin + Minute - 1)
    BY DEF Init
  <2>2. DOMAIN metricPoints = {} /\ DOMAIN points = {}
    BY <2>1
  <2>3. now \in Nat /\ now >= Begin
    BY <2>1, TimeAssumption
  <2> QED
    BY <2>1, <2>2, <2>3 DEF Recording, Recorded
<1>2. Recording /\ [Next]_vars => Recording'
  <2> SUFFICES ASSUME Recording, [Next]_vars PROVE Recording'
    OBVIOUS
  <2>1. CASE Pass
    <3>1. /\ metrics' = metrics /\ metricPoints' = metricPoints /\ points' = points
          /\ now' = now + 1
      BY <2>1 DEF Pass
    <3>2. now \in Nat /\ now >= Begin /\ now' \in Nat /\ now' >= Begin /\ now <= now'
      BY <3>1, TimeAssumption DEF Recording, Recorded
    <3>3. ASSUME NEW mk \in DOMAIN metricPoints
          PROVE  Known(metricPoints[mk], points[mk], now')
      <4>1. Known(metricPoints[mk], points[mk], now)
        BY DEF Recording, Recorded
      <4> QED
        BY <3>2, <4>1, RecordedLater
    <3>4. Recorded(metricPoints, points, now')
      BY <3>2, <3>3 DEF Recording, Recorded
    <3> QED
      BY <3>1, <3>4 DEF Recording
  <2>2. ASSUME NEW call \in Calls, NEW delays \in [DOMAIN metrics -> 0..MaxDelay],
               Log(call, delays)
        PROVE  Recording'
    <3> DEFINE s == IF Collects(call.level) THEN collect(call, delays) ELSE Start
    <3>1. metrics' = metrics /\ metricPoints' = s.mps /\ points' = s.hist /\ now' = s.clock
      BY <2>2 DEF Log
    <3>2. Collecting(s)
      BY CollectRecords
    <3> HIDE DEF s
    <3>3. Recorded(s.mps, s.hist, s.clock)
      BY <3>2 DEF Collecting
    <3> QED
      BY <3>1, <3>3 DEF Recording
  <2>3. CASE UNCHANGED vars
    BY <2>3 DEF vars, Recording
  <2> QED
    BY <2>1, <2>2, <2>3 DEF Next
<1> QED
  BY <1>1, <1>2, PTL DEF Spec

(***************************************************************************)
(* What the handler of log/metrics/log.go reports of a name: the time of   *)
(* the latest point in the window, time.Time{} if there is none, and the   *)
(* latest value where values are replaced.                                 *)
(***************************************************************************)
THEOREM LatestIsReported == Spec => []LatestReported
<1>1. Recording => LatestReported
  <2> SUFFICES ASSUME Recording, NEW mk \in DOMAIN metricPoints
               PROVE  LET m == metricPoints[mk]
                          last == points[mk][Len(points[mk])]
                      IN  /\ InWindow(mk) = {} /\ m.window > 0 => Reported(mk).time = 0
                          /\ InWindow(mk) # {} \/ m.window = 0 => Reported(mk).time = last.time
                          /\ \/ m.window = 0
                             \/ m.window = 1 /\ m.agg = "Replace" /\ InWindow(mk) # {}
                             => Reported(mk).value = last.value
    BY Zenon DEF LatestReported
  <2> DEFINE m == metricPoints[mk]
             ps == points[mk]
             n == Len(ps)
             last == ps[n]
             from == From(now, m.window)
  <2>1. /\ Aggregated(m) /\ InOrder(ps, now) /\ Keeps(m, ps, now)
        /\ now \in Nat /\ now >= Begin
    BY DEF Recording, Recorded, Known
  <2>2. m.window \in Nat /\ m.window * Minute < Begin
    BY <2>1 DEF Aggregated
  <2>3. n \in Nat \ {0} /\ DOMAIN ps = 1..n /\ (\A i \in 1..n : ps[i].time \in Nat)
        /\ \A i, j \in 1..n : i <= j => ps[i].time <= ps[j].time
    <3> HIDE DEF ps
    <3>1. n \in Nat \ {0} /\ ps = [i \in 1..n |-> ps[i]]
      BY <2>1, Zenon DEF InOrder
    <3>2. \A i \in 1..n : ps[i].time \in 0..now
      BY <2>1, Zenon DEF InOrder
    <3>3. \A i, j \in 1..n : i <= j => ps[i].time <= ps[j].time
      BY <2>1, Zenon DEF InOrder
    <3>4. DOMAIN ps = 1..n
      BY <3>1, Zenon
    <3>5. \A i \in 1..n : ps[i].time \in Nat
      BY <2>1, <3>2
    <3> QED
      BY <3>1, <3>3, <3>4, <3>5, Zenon
  <2>4. from \in Nat \ {0}
    BY <2>1, <2>2, FromPositive
  <2>5. Reported(mk) = get(m, now)
    BY DEF Reported
  <2>6. InWindow(mk) = {i \in 1..n : ps[i].time >= from}
    BY <2>3 DEF InWindow
  <2> HIDE DEF m, n, ps, from
  <2>7. n \in 1..n /\ last.time \in Nat
    BY <2>3
  <2>8. InWindow(mk) = {} <=> last.time < from
    <3>1. ASSUME InWindow(mk) = {} PROVE last.time < from
      BY <2>4, <2>6, <2>7, <3>1
    <3>2. ASSUME last.time < from PROVE InWindow(mk) = {}
      <4>1. \A i \in 1..n : ps[i].time <= last.time /\ ps[i].time \in Nat
        BY <2>3, <2>7
      <4> QED
        BY <2>4, <2>6, <2>7, <3>2, <4>1
    <3> QED
      BY <3>1, <3>2
  <2>9. CASE m.window = 0
    <3>1. m.values = <<last>>
      BY <2>1, <2>9, Zenon DEF Keeps, n
    <3>2. get(m, now) = last
      <4>1. m.values # <<>> /\ m.values[1] = last
        BY <3>1
      <4> QED
        BY <2>9, <4>1 DEF get
    <3> QED
      BY <2>5, <2>9, <3>2 DEF m, n, ps
  <2>10. CASE m.window # 0
    <3>1. /\ m.values = [s \in 1..m.window |-> m.values[s]]
          /\ \A s \in 1..m.window : m.values[s].time \in 0..last.time
          /\ last.time >= from =>
               /\ m.values[Slot(last.time, m.window)].time = last.time
               /\ m.window = 1 /\ m.agg = "Replace" =>
                    m.values[Slot(last.time, m.window)].value = last.value
      BY <2>1, <2>10, Zenon DEF Keeps, n, from
    <3>2. Slot(last.time, m.window) \in 1..m.window
      BY <2>2, <2>7, <2>10, SlotInWindow
    <3>3. /\ last.time < from => get(m, now) = Zero
          /\ last.time >= from /\ (\E s \in 1..m.window : m.values[s].time = last.time) =>
               /\ get(m, now).time = last.time
               /\ m.window = 1 => get(m, now) = m.values[1]
      <4> DEFINE latest == last.time
      <4>1. latest \in Nat /\ (\A s \in 1..m.window : m.values[s].time \in 0..latest)
        BY <2>7, <3>1
      <4>2. m.window \in Nat \ {0} /\ From(now, m.window) \in Nat \ {0}
        BY <2>2, <2>4, <2>10 DEF from
      <4>3. m.values = [s \in 1..m.window |-> m.values[s]]
        BY <3>1
      <4> HIDE DEF latest
      <4>4. /\ latest < From(now, m.window) => get(m, now) = Zero
            /\ latest >= From(now, m.window)
               /\ (\E s \in 1..m.window : m.values[s].time = latest) =>
                    /\ get(m, now).time = latest
                    /\ m.window = 1 => get(m, now) = m.values[1]
        BY <4>1, <4>2, <4>3, GetLatest
      <4> QED
        BY <4>4 DEF latest, from
    <3>4. CASE last.time < from
      <4>1. Reported(mk).time = 0 /\ InWindow(mk) = {}
        BY <2>5, <2>8, <3>3, <3>4 DEF Zero
      <4> QED
        BY <2>10, <4>1 DEF m
    <3>5. CASE ~(last.time < from)
      <4>1. last.time >= from
        BY <2>4, <2>7, <3>5
      <4>2. InWindow(mk) # {} /\ Reported(mk).time = last.time
        BY <2>5, <2>8, <3>1, <3>2, <3>3, <3>5, <4>1
      <4>3. m.window = 1 /\ m.agg = "Replace" => Reported(mk).value = last.value
        <5>1. m.window = 1 => Slot(last.time, m.window) = 1
          BY <3>2
        <5> QED
          BY <2>5, <3>1, <3>2, <3>3, <4>1, <5>1
      <4> QED
        BY <2>10, <4>2, <4>3 DEF m, n, ps
    <3> QED
      BY <3>4, <3>5
  <2> QED
    BY <2>9, <2>10
<1> QED
  BY <1>1, PointsAreRecorded, PTL

(***************************************************************************)
(* A point in a slot that is in the window at time t is after the last     *)
(* silence: from it on, no two points, nor the last one and t, are further *)
(* apart than the window.                                                  *)
(***************************************************************************)
LEMMA SlotIsRecent ==
  ASSUME NEW ps, NEW t \in Nat, InOrder(ps, t), NEW window \in Nat,
         NEW v, v.time \in Nat, v.time >= From(t, window),
         NEW p \in SUBSET (1..Len(ps)), HoldsTime(v, window, ps, Len(ps), p),
         NEW i \in p, NEW j \in i..Len(ps)
  PROVE  ps[j].time >= From(IF j + 1 > Len(ps) THEN t ELSE ps[j + 1].time, window)
<1> DEFINE n == Len(ps)
           next == IF j + 1 > n THEN t ELSE ps[j + 1].time
<1>1. /\ n \in Nat \ {0}
      /\ \A l \in 1..n : ps[l].time \in 0..t
      /\ \A l, k \in 1..n : l <= k => ps[l].time <= ps[k].time
  BY Zenon DEF InOrder
<1>2. p \in SUBSET (1..n) /\ HoldsTime(v, window, ps, n, p) /\ j \in i..n
  OBVIOUS
<1> HIDE DEF n
<1>3. i \in 1..n /\ j \in 1..n
  BY <1>1, <1>2
<1>4. ps[j].time \in Nat /\ next \in 0..t
  BY <1>1, <1>3
<1>5. CASE j + 1 <= n /\ ps[j + 1].time <= v.time
  <2>1. j + 1 \in 1..n /\ i < j + 1 /\ (j + 1) - 1 = j
    BY <1>1, <1>2, <1>3, <1>5
  <2>2. ps[(j + 1) - 1].time >= From(ps[j + 1].time, window)
    BY <1>2, <1>5, <2>1 DEF HoldsTime
  <2>3. next = ps[j + 1].time
    BY <1>1, <1>3, <1>5
  <2> QED
    BY <2>1, <2>2, <2>3 DEF n
<1>6. CASE ~(j + 1 <= n /\ ps[j + 1].time <= v.time)
  <2>1. PICK k \in p : ps[k].time = v.time
    BY <1>2 DEF HoldsTime
  <2>2. k \in 1..n
    BY <1>2
  <2>3. k <= j
    <3>1. SUFFICES ASSUME ~(k <= j) PROVE FALSE
      OBVIOUS
    <3>2. j + 1 \in 1..n /\ j + 1 <= k
      BY <1>1, <1>3, <2>2, <3>1
    <3>3. ps[j + 1].time <= v.time
      BY <1>1, <2>1, <2>2, <3>2
    <3> QED
      BY <1>1, <1>6, <3>2, <3>3
  <2>4. v.time <= ps[j].time
    BY <1>1, <1>3, <2>1, <2>2, <2>3
  <2>5. From(next, window) \in Int /\ From(t, window) \in Int
        /\ From(next, window) <= From(t, window)
    <3>1. next \in Nat /\ next <= t
      BY <1>4
    <3> HIDE DEF next
    <3> QED
      BY <3>1, FromMonotone
  <2> HIDE DEF next
  <2>6. ps[j].time >= From(next, window)
    BY <1>4, <2>4, <2>5
  <2> QED
    BY <2>6 DEF next, n
<1> QED
  BY <1>5, <1>6

(***************************************************************************)
(* What the handler reports of a name, with a window that is not 0, comes  *)
(* from points after the last silence, among them all in the window.       *)
(***************************************************************************)
LEMMA ReportedPoints ==
  ASSUME Recording, NEW mk \in DOMAIN metricPoints, metricPoints[mk].window # 0
  PROVE  \E U : /\ InWindow(mk) \subseteq U /\ U \subseteq SinceSilence(mk)
                /\ HoldsValue(Reported(mk), metricPoints[mk].agg, points[mk],
                              Len(points[mk]), U)
<1> DEFINE m == metricPoints[mk]
           ps == points[mk]
           n == Len(ps)
           w == m.window
           from == From(now, w)
<1>1. /\ Aggregated(m) /\ InOrder(ps, now) /\ Keeps(m, ps, now) /\ Slots(m, ps, now)
      /\ now \in Nat /\ now >= Begin
  BY DEF Recording, Recorded, Known
<1>2. w \in Nat \ {0} /\ w * Minute < Begin
  BY <1>1 DEF Aggregated
<1>3. from \in Nat \ {0}
  BY <1>1, <1>2, FromPositive
<1>4. Reported(mk) = get(m, now)
  BY DEF Reported
<1>5. InWindow(mk) = {i \in DOMAIN ps : ps[i].time >= from}
  BY DEF InWindow
<1>6. SinceSilence(mk) = {i \in DOMAIN ps : \A j \in i..n :
        (IF j > n THEN now ELSE ps[j].time)
          >= From(IF j + 1 > n THEN now ELSE ps[j + 1].time, w)}
  BY DEF SinceSilence
<1> HIDE DEF m, ps
<1>7. n \in Nat \ {0} /\ ps = [i \in 1..n |-> ps[i]] /\ DOMAIN ps = 1..n
      /\ \A i \in 1..n : ps[i].time \in 0..now
  <2>1. n \in Nat \ {0} /\ ps = [i \in 1..n |-> ps[i]]
        /\ \A i \in 1..n : ps[i].time \in 0..now
    BY <1>1, Zenon DEF InOrder
  <2>2. DOMAIN ps = 1..n
    BY <2>1, Zenon
  <2> QED
    BY <2>1, <2>2, Zenon
<1>8. m.values = [s \in 1..w |-> m.values[s]] /\ \A s \in 1..w : m.values[s].time \in Nat
  <2>1. /\ m.values = [s \in 1..w |-> m.values[s]]
        /\ \A s \in 1..w : m.values[s].time \in 0..ps[n].time
    BY <1>1, <1>2, Zenon DEF Keeps, m
  <2>2. ps[n].time \in Nat
    BY <1>1, <1>7
  <2> QED
    BY <2>1, <2>2
<1>9. PICK P : Holds(m.values, m.agg, w, ps, n, now, P)
  BY <1>1, <1>2 DEF Slots
<1> DEFINE U == {i \in 1..n : \E s \in 1..w : m.values[s].time >= from /\ i \in P[s]}
<1>10. HoldsValue(get(m, now), m.agg, ps, n, U)
  <2>1. n \in Nat /\ m.window \in Nat \ {0} /\ From(now, m.window) \in Nat \ {0}
    BY <1>2, <1>3, <1>7
  <2>2. ps = [i \in 1..n |-> ps[i]]
    BY <1>7, Zenon
  <2>3. U = {i \in 1..n : \E s \in 1..m.window :
               m.values[s].time >= From(now, m.window) /\ i \in P[s]}
    OBVIOUS
  <2> HIDE DEF n, U
  <2> QED
    BY <1>8, <1>9, <2>1, <2>2, <2>3, GetHolds
<1>11. /\ P \in [1..w -> SUBSET (1..n)]
       /\ \A s \in 1..w : HoldsTime(m.values[s], w, ps, n, P[s])
       /\ \A i \in 1..n : ps[i].time >= from => i \in P[Slot(ps[i].time, w)]
  BY <1>9, Zenon DEF Holds
<1>12. InWindow(mk) \subseteq U
  <2>1. ASSUME NEW i \in 1..n, ps[i].time >= from PROVE i \in U
    <3> DEFINE s == Slot(ps[i].time, w)
    <3>1. ps[i].time \in Nat
      BY <1>1, <1>7
    <3>2. s \in 1..w
      BY <1>2, <3>1, SlotInWindow
    <3>3. i \in P[s]
      BY <1>11, <2>1
    <3> HIDE DEF s, n, w, from
    <3>4. ps[i].time <= m.values[s].time
      BY <1>11, <3>2, <3>3 DEF HoldsTime
    <3>5. m.values[s].time >= from
      BY <1>3, <1>8, <2>1, <3>1, <3>2, <3>4
    <3> QED
      BY <3>2, <3>3, <3>5
  <2> HIDE DEF U
  <2> QED
    BY <1>5, <1>7, <2>1
<1>13. U \subseteq SinceSilence(mk)
  <2>1. ASSUME NEW i \in U, NEW j \in i..n
        PROVE  (IF j > n THEN now ELSE ps[j].time)
                 >= From(IF j + 1 > n THEN now ELSE ps[j + 1].time, w)
    <3>1. PICK s \in 1..w : m.values[s].time >= from /\ i \in P[s]
      OBVIOUS
    <3>2. P[s] \in SUBSET (1..n) /\ HoldsTime(m.values[s], w, ps, n, P[s])
      BY <1>11
    <3> DEFINE v == m.values[s]
               p == P[s]
    <3>3. v.time \in Nat /\ v.time >= From(now, w) /\ w \in Nat
      BY <1>2, <1>8, <3>1
    <3>4. ~(j > n)
      BY <1>7
    <3>5. p \in SUBSET (1..n) /\ HoldsTime(v, w, ps, n, p) /\ i \in p
      BY <3>1, <3>2
    <3> HIDE DEF v, p, w
    <3>6. ps[j].time >= From(IF j + 1 > n THEN now ELSE ps[j + 1].time, w)
      BY <1>1, <3>3, <3>5, SlotIsRecent
    <3> QED
      BY <3>4, <3>6
  <2>2. \A i \in U : i \in DOMAIN ps
    BY <1>7
  <2> HIDE DEF U, n, w
  <2> QED
    BY <1>6, <2>1, <2>2
<1> HIDE DEF U
<1>14. InWindow(mk) \subseteq U /\ U \subseteq SinceSilence(mk)
       /\ HoldsValue(Reported(mk), m.agg, ps, n, U)
  BY <1>4, <1>10, <1>12, <1>13
<1> QED
  BY <1>14 DEF m, ps

(***************************************************************************)
(* The points of a name as SumMonotone needs them.                         *)
(***************************************************************************)
LEMMA RecordedNumbers ==
  ASSUME Recording, NEW mk \in DOMAIN metricPoints
  PROVE  /\ Len(points[mk]) \in Nat \ {0} /\ DOMAIN points[mk] = 1..Len(points[mk])
         /\ \A i \in DOMAIN points[mk] : points[mk][i].value \in Int \cup {NaN}
         /\ Numbers(mk) => /\ NumberList(points[mk], Len(points[mk]))
                           /\ AllNumbers(points[mk], Len(points[mk]))
<1> DEFINE ps == points[mk]
           n == Len(ps)
<1>1. InOrder(ps, now) /\ Slots(metricPoints[mk], ps, now)
  BY DEF Recording, Recorded, Known
<1>2. Numbers(mk) <=> \A i \in DOMAIN ps : ps[i].value # NaN
  BY DEF Numbers
<1> HIDE DEF ps
<1>3. n \in Nat \ {0} /\ ps = [i \in 1..n |-> ps[i]]
  BY <1>1, Zenon DEF InOrder
<1>4. DOMAIN ps = 1..n
  BY <1>3, Zenon
<1>5. \A i \in 1..n : ps[i].value \in Int \cup {NaN}
  BY <1>1 DEF Slots
<1>6. Numbers(mk) => \A i \in 1..n : ps[i].value \in Int
  BY <1>2, <1>4, <1>5
<1>7. n \in Nat
  BY <1>3
<1>8. Numbers(mk) => NumberList(ps, n) /\ AllNumbers(ps, n)
  BY <1>3, <1>6, <1>7, Zenon DEF NumberList, AllNumbers
<1> QED
  BY <1>3, <1>4, <1>5, <1>8 DEF ps

(***************************************************************************)
(* What was logged within the window is never missing in what the handler  *)
(* of log/metrics/log.go reports, whichever slots of the ring were reused  *)
(* and however far the clock moved within collect: Covers holds for any    *)
(* configuration.                                                          *)
(***************************************************************************)
THEOREM WindowIsCovered == Spec => []Covers
<1>1. Recording => Covers
  <2> SUFFICES ASSUME Recording, NEW mk \in DOMAIN metricPoints,
                      metricPoints[mk].window > 0, Numbers(mk)
               PROVE  LET m == metricPoints[mk]
                          value == Reported(mk).value
                      IN  /\ m.agg = "Sum" /\ NoneNegative(mk) =>
                               value >= Total(mk, InWindow(mk))
                          /\ m.agg = "Max" =>
                               \A i \in InWindow(mk) : value >= points[mk][i].value
                          /\ m.agg = "Min" =>
                               \A i \in InWindow(mk) : value =< points[mk][i].value
    BY DEF Covers
  <2> DEFINE ps == points[mk]
             n == Len(ps)
             agg == metricPoints[mk].agg
             value == Reported(mk).value
  <2>1. metricPoints[mk].window # 0
    BY DEF Recording, Recorded, Known, Aggregated
  <2>2. PICK U : InWindow(mk) \subseteq U /\ HoldsValue(Reported(mk), agg, ps, n, U)
    BY <2>1, ReportedPoints
  <2>3. NumberList(ps, n) /\ AllNumbers(ps, n) /\ DOMAIN ps = 1..n
    BY RecordedNumbers
  <2>4. /\ agg = "Sum" => value = SumOf(ps, U)
        /\ agg = "Max" => \A i \in U : value >= ps[i].value
        /\ agg = "Min" => \A i \in U : value <= ps[i].value
    BY <2>2, <2>3 DEF HoldsValue
  <2>5. ASSUME NoneNegative(mk) PROVE SumOf(ps, InWindow(mk)) <= SumOf(ps, U)
    <3>1. \A i \in 1..n : ps[i].value >= 0
      BY <2>3, <2>5 DEF NoneNegative
    <3> HIDE DEF ps, n
    <3> QED
      BY <2>2, <2>3, <3>1, SumMonotone
  <2>6. SumOf(ps, InWindow(mk)) \in Int /\ SumOf(ps, U) \in Int
    <3> HIDE DEF ps, n
    <3> QED
      BY <2>3, SumEmpty
  <2>7. Total(mk, InWindow(mk)) = SumOf(ps, InWindow(mk))
    BY DEF Total
  <2>8. agg = "Sum" /\ NoneNegative(mk) => value >= Total(mk, InWindow(mk))
    BY <2>4, <2>5, <2>6, <2>7
  <2> QED
    BY <2>2, <2>4, <2>8
<1> QED
  BY <1>1, PointsAreRecorded, PTL

(***************************************************************************)
(* What was logged before a silence longer than the window is forgotten by *)
(* the handler of log/metrics/log.go: it is in no sum, and a NaN no longer *)
(* fails the page.  SilenceForgets holds for any configuration.            *)
(***************************************************************************)
THEOREM SilenceIsForgotten == Spec => []SilenceForgets
<1>1. Recording => SilenceForgets
  <2> SUFFICES ASSUME Recording PROVE SilenceForgets
    OBVIOUS
  <2>1. ASSUME NEW mk \in DOMAIN metricPoints, metricPoints[mk].agg = "Sum",
               metricPoints[mk].window > 0, NoneNegative(mk)
        PROVE  Reported(mk).value =< Total(mk, SinceSilence(mk))
    <3> DEFINE ps == points[mk]
               n == Len(ps)
               value == Reported(mk).value
    <3>1. metricPoints[mk].window # 0
      BY <2>1 DEF Recording, Recorded, Known, Aggregated
    <3>2. PICK U : U \subseteq SinceSilence(mk) /\ HoldsValue(Reported(mk), "Sum", ps, n, U)
      BY <2>1, <3>1, ReportedPoints
    <3>3. NumberList(ps, n) /\ AllNumbers(ps, n) /\ DOMAIN ps = 1..n
      BY <2>1, RecordedNumbers DEF NoneNegative
    <3>4. value = SumOf(ps, U)
      BY <3>2, <3>3 DEF HoldsValue
    <3>5. SumOf(ps, U) <= SumOf(ps, SinceSilence(mk))
      <4>1. \A i \in 1..n : ps[i].value >= 0
        BY <2>1, <3>3 DEF NoneNegative
      <4> HIDE DEF ps, n
      <4> QED
        BY <3>2, <3>3, <4>1, SumMonotone
    <3>6. Total(mk, SinceSilence(mk)) = SumOf(ps, SinceSilence(mk))
      BY DEF Total
    <3> QED
      BY <3>4, <3>5, <3>6
  <2>2. ASSUME PageFails
        PROVE  \E mk \in DOMAIN metricPoints :
                 \E i \in (IF metricPoints[mk].window = 0 THEN {Len(points[mk])}
                          ELSE SinceSilence(mk)) :
                   points[mk][i].value = NaN
    <3>1. PICK mk \in DOMAIN metricPoints : Reported(mk).value = NaN
      BY <2>2 DEF PageFails
    <3>2. CASE metricPoints[mk].window = 0
      <4> DEFINE m == metricPoints[mk]
                 last == points[mk][Len(points[mk])]
      <4>1. Keeps(m, points[mk], now)
        BY DEF Recording, Recorded, Known
      <4>2. m.values = <<last>>
        BY <3>2, <4>1, Zenon DEF Keeps
      <4>3. Reported(mk) = get(m, now)
        BY DEF Reported
      <4> HIDE DEF last
      <4>4. m.values # <<>> /\ m.values[1] = last
        BY <4>2
      <4>5. Reported(mk) = last
        BY <3>2, <4>3, <4>4 DEF get
      <4> QED
        BY <3>1, <3>2, <4>5 DEF last
    <3>3. CASE metricPoints[mk].window # 0
      <4>1. PICK U : /\ U \subseteq SinceSilence(mk)
                     /\ HoldsValue(Reported(mk), metricPoints[mk].agg, points[mk],
                                   Len(points[mk]), U)
        BY <3>3, ReportedPoints
      <4>2. PICK i \in U : points[mk][i].value = NaN
        BY <3>1, <4>1 DEF HoldsValue
      <4> QED
        BY <3>3, <4>1, <4>2
    <3> QED
      BY <3>2, <3>3
  <2> QED
    BY <2>1, <2>2 DEF SilenceForgets
<1> QED
  BY <1>1, PointsAreRecorded, PTL
=============================================================================
