-------------------------- MODULE RpcSplitterProofs --------------------------
(***************************************************************************)
(* Proofs about a request to the RPC proxy, for any number of endpoints,   *)
(* any answers and any requirements: the three resolvers give what they    *)
(* promise, an answer with a majority cannot be overturned, no tag is sent *)
(* to several endpoints, and no goroutine waits for room in a channel. The *)
(* resolvers loop over their answers; FoldLemmas says what such a loop     *)
(* computes, turn by turn, and UpTo is the induction.                      *)
(***************************************************************************)
EXTENDS RpcSplitter, FoldLemmas

Answers == Values \cup {Fail}

-----------------------------------------------------------------------------
(***************************************************************************)
(* How often a response occurs: at most as often as there are responses,   *)
(* and at least once if and only if it is one of them.                     *)
(***************************************************************************)
LEMMA CountBounds ==
  ASSUME NEW s, NEW n \in Nat, DOMAIN s = 1..n, NEW v
  PROVE  /\ Count(s, v) \in 0..n
         /\ Count(s, v) > 0 <=> \E i \in 1..n : s[i] = v
<1> DEFINE C == {i \in 1..n : s[i] = v}
<1>1. C \in SUBSET (1..n) /\ IsFiniteSet(1..n) /\ Cardinality(1..n) = n
  BY FS_Interval
<1>2. IsFiniteSet(C) /\ Cardinality(C) <= n
  BY <1>1, FS_Subset
<1>3. Cardinality(C) \in Nat /\ (Cardinality(C) = 0 <=> C = {})
  BY <1>2, FS_CardinalityType, FS_EmptySet
<1>4. Count(s, v) = Cardinality(C)
  BY DEF Count
<1>5. C = {} <=> ~ \E i \in 1..n : s[i] = v
  OBVIOUS
<1> HIDE DEF C
<1> QED
  BY <1>2, <1>3, <1>4, <1>5

(***************************************************************************)
(* Two different responses do not occur more often together than there are *)
(* responses.                                                              *)
(***************************************************************************)
LEMMA CountTwo ==
  ASSUME NEW s, NEW n \in Nat, DOMAIN s = 1..n, NEW v, NEW w, v # w
  PROVE  Count(s, v) + Count(s, w) <= n
<1> DEFINE C(x) == {i \in 1..n : s[i] = x}
<1>1. IsFiniteSet(1..n) /\ Cardinality(1..n) = n
  BY FS_Interval
<1>2. C(v) \in SUBSET (1..n) /\ C(w) \in SUBSET (1..n) /\ C(v) \cup C(w) \in SUBSET (1..n)
  OBVIOUS
<1>3. C(v) \cap C(w) = {}
  OBVIOUS
<1>4. Count(s, v) = Cardinality(C(v)) /\ Count(s, w) = Cardinality(C(w))
  BY DEF Count
<1>5. Count(s, v) \in Nat /\ Count(s, w) \in Nat
  BY CountBounds
<1> HIDE DEF C
<1>6. IsFiniteSet(C(v)) /\ IsFiniteSet(C(w))
  BY <1>1, <1>2, FS_Subset
<1>7. Cardinality(C(v) \cup C(w)) = Cardinality(C(v)) + Cardinality(C(w)) - Cardinality({})
  BY <1>3, <1>6, FS_Union
<1>8. Cardinality({}) = 0
  BY FS_EmptySet
<1>9. Cardinality(C(v) \cup C(w)) <= n
  BY <1>1, <1>2, FS_Subset
<1> QED
  BY <1>4, <1>5, <1>7, <1>8, <1>9

(***************************************************************************)
(* The loop for the highest block number, one number after the other.      *)
(***************************************************************************)
LEMMA HighLoop ==
  ASSUME NEW ns \in Seq(Int), ns # <<>>
  PROVE  \E f : /\ f[0] = ns[1]
                /\ \A k \in 1..Len(ns) : f[k] = IF f[k - 1] < ns[k] THEN ns[k] ELSE f[k - 1]
                /\ High(ns) = f[Len(ns)]
<1> DEFINE n == Len(ns)
           Eq(it) == it = [s \in SUBSET DOMAIN ns |->
             IF s = {} THEN ns[1]
             ELSE IF it[s \ {Max(s)}] < ns[Max(s)] THEN ns[Max(s)] ELSE it[s \ {Max(s)}]]
           step == [p \in (1..n) \X Int |-> IF p[2] < ns[p[1]] THEN ns[p[1]] ELSE p[2]]
<1>1. n \in Nat /\ DOMAIN ns = 1..n
  OBVIOUS
<1>2. step \in [(1..n) \X Int -> Int] /\ ns[1] \in Int
  OBVIOUS
<1>3. PICK it : Iterates(Int, ns[1], step, n, it)
  <2> HIDE DEF step, n
  <2> QED
    BY <1>1, <1>2, FoldExists
<1>4. Eq(it)
  <2>1. ASSUME NEW s \in SUBSET (1..n), s # {}
        PROVE  it[s] = IF it[s \ {Max(s)}] < ns[Max(s)] THEN ns[Max(s)] ELSE it[s \ {Max(s)}]
    <3>1. Max(s) \in s
      <4> HIDE DEF n
      <4> QED
        BY <1>1, <2>1, MaxIn
    <3>2. it[s \ {Max(s)}] \in Int /\ Max(s) \in 1..n
      BY <1>3, <3>1 DEF Iterates
    <3>3. it[s] = step[<<Max(s), it[s \ {Max(s)}]>>]
      BY <1>3, <2>1 DEF Iterates
    <3> QED
      BY <3>2, <3>3
  <2> QED
    BY <1>1, <1>3, <2>1 DEF Iterates
<1> DEFINE c == CHOOSE g : Eq(g)
           f == [k \in 0..n |-> c[1..k]]
<1>5. Eq(c)
  BY <1>4
<1>6. High(ns) = c[DOMAIN ns]
  BY DEF High, FoldLeft, MapThenFoldSet
<1> HIDE DEF c
<1>7. High(ns) = f[n] /\ f[0] = ns[1]
  <2>1. 1..0 = {} /\ {} \in SUBSET DOMAIN ns /\ n \in 0..n /\ 0 \in 0..n
    BY <1>1
  <2> QED
    BY <1>1, <1>5, <1>6, <2>1
<1>8. ASSUME NEW k \in 1..n
      PROVE  f[k] = IF f[k - 1] < ns[k] THEN ns[k] ELSE f[k - 1]
  <2>1. k \in Nat \ {0} /\ 1..k \in SUBSET DOMAIN ns /\ k \in 0..n /\ k - 1 \in 0..n
    BY <1>1
  <2>2. Max(1..k) = k /\ (1..k) \ {k} = 1..(k - 1) /\ 1..k # {}
    BY <2>1, MaxUpTo
  <2>3. c[1..k] = IF c[1..(k - 1)] < ns[k] THEN ns[k] ELSE c[1..(k - 1)]
    BY <1>5, <2>1, <2>2, Zenon
  <2>4. f[k] = c[1..k] /\ f[k - 1] = c[1..(k - 1)]
    BY <2>1
  <2> QED
    BY <2>3, <2>4, Zenon
<1> HIDE DEF f
<1> QED
  BY <1>7, <1>8

(***************************************************************************)
(* The loop for the lowest block number that is near the highest.          *)
(***************************************************************************)
LEMMA LowestNearLoop ==
  ASSUME NEW ns \in Seq(Int), NEW high \in Int
  PROVE  \E f : /\ f[0] = high
                /\ \A k \in 1..Len(ns) : f[k] = IF high - ns[k] <= MaxBlocksBehind /\ ns[k] < f[k - 1] THEN ns[k] ELSE f[k - 1]
                /\ LowestNear(ns, high) = f[Len(ns)]
<1> DEFINE n == Len(ns)
           Eq(it) == it = [s \in SUBSET DOMAIN ns |->
             IF s = {} THEN high
             ELSE IF high - ns[Max(s)] <= MaxBlocksBehind /\ ns[Max(s)] < it[s \ {Max(s)}] THEN ns[Max(s)] ELSE it[s \ {Max(s)}]]
           step == [p \in (1..n) \X Int |-> IF high - ns[p[1]] <= MaxBlocksBehind /\ ns[p[1]] < p[2] THEN ns[p[1]] ELSE p[2]]
<1>1. n \in Nat /\ DOMAIN ns = 1..n
  OBVIOUS
<1>2. step \in [(1..n) \X Int -> Int] /\ high \in Int
  OBVIOUS
<1>3. PICK it : Iterates(Int, high, step, n, it)
  <2> HIDE DEF step, n
  <2> QED
    BY <1>1, <1>2, FoldExists
<1>4. Eq(it)
  <2>1. ASSUME NEW s \in SUBSET (1..n), s # {}
        PROVE  it[s] = IF high - ns[Max(s)] <= MaxBlocksBehind /\ ns[Max(s)] < it[s \ {Max(s)}] THEN ns[Max(s)] ELSE it[s \ {Max(s)}]
    <3>1. Max(s) \in s
      <4> HIDE DEF n
      <4> QED
        BY <1>1, <2>1, MaxIn
    <3>2. it[s \ {Max(s)}] \in Int /\ Max(s) \in 1..n
      BY <1>3, <3>1 DEF Iterates
    <3>3. it[s] = step[<<Max(s), it[s \ {Max(s)}]>>]
      BY <1>3, <2>1 DEF Iterates
    <3> QED
      BY <3>2, <3>3
  <2> QED
    BY <1>1, <1>3, <2>1 DEF Iterates
<1> DEFINE c == CHOOSE g : Eq(g)
           f == [k \in 0..n |-> c[1..k]]
<1>5. Eq(c)
  BY <1>4
<1>6. LowestNear(ns, high) = c[DOMAIN ns]
  BY DEF LowestNear, FoldLeft, MapThenFoldSet
<1> HIDE DEF c
<1>7. LowestNear(ns, high) = f[n] /\ f[0] = high
  <2>1. 1..0 = {} /\ {} \in SUBSET DOMAIN ns /\ n \in 0..n /\ 0 \in 0..n
    BY <1>1
  <2> QED
    BY <1>1, <1>5, <1>6, <2>1
<1>8. ASSUME NEW k \in 1..n
      PROVE  f[k] = IF high - ns[k] <= MaxBlocksBehind /\ ns[k] < f[k - 1] THEN ns[k] ELSE f[k - 1]
  <2>1. k \in Nat \ {0} /\ 1..k \in SUBSET DOMAIN ns /\ k \in 0..n /\ k - 1 \in 0..n
    BY <1>1
  <2>2. Max(1..k) = k /\ (1..k) \ {k} = 1..(k - 1) /\ 1..k # {}
    BY <2>1, MaxUpTo
  <2>3. c[1..k] = IF high - ns[k] <= MaxBlocksBehind /\ ns[k] < c[1..(k - 1)] THEN ns[k] ELSE c[1..(k - 1)]
    BY <1>5, <2>1, <2>2, Zenon
  <2>4. f[k] = c[1..k] /\ f[k - 1] = c[1..(k - 1)]
    BY <2>1
  <2> QED
    BY <2>3, <2>4, Zenon
<1> HIDE DEF f
<1> QED
  BY <1>7, <1>8

(***************************************************************************)
(* The loop for the highest number finds it.                               *)
(***************************************************************************)
LEMMA HighIsHighest ==
  ASSUME NEW ns \in Seq(Int), ns # <<>>
  PROVE  /\ \E j \in 1..Len(ns) : High(ns) = ns[j]
         /\ \A i \in 1..Len(ns) : ns[i] <= High(ns)
<1>1. PICK f : /\ f[0] = ns[1]
               /\ \A k \in 1..Len(ns) :
                    f[k] = IF f[k - 1] < ns[k] THEN ns[k] ELSE f[k - 1]
               /\ High(ns) = f[Len(ns)]
  BY HighLoop
<1> DEFINE n == Len(ns)
           S == {k \in 0..n : /\ \E j \in 1..n : f[k] = ns[j]
                              /\ \A i \in 1..k : ns[i] <= f[k]}
<1>2. n \in Nat /\ n > 0 /\ \A i \in 1..n : ns[i] \in Int
  OBVIOUS
<1>3. 0 \in S
  BY <1>1, <1>2
<1>4. ASSUME NEW k \in 1..n, k - 1 \in S
      PROVE  k \in S
  <2>1. k \in 0..n /\ f[k] = IF f[k - 1] < ns[k] THEN ns[k] ELSE f[k - 1]
    BY <1>1
  <2>2. f[k - 1] \in Int /\ ns[k] \in Int
    BY <1>2, <1>4
  <2>3. \E j \in 1..n : f[k] = ns[j]
    BY <1>4, <2>1
  <2>4. ASSUME NEW i \in 1..k
        PROVE  ns[i] <= f[k]
    <3>1. i \in 1..(k - 1) \/ i = k
      OBVIOUS
    <3>2. ns[i] \in Int /\ (i \in 1..(k - 1) => ns[i] <= f[k - 1])
      BY <1>2, <1>4
    <3> QED
      BY <2>1, <2>2, <3>1, <3>2
  <2> QED
    BY <2>1, <2>3, <2>4
<1>5. n \in S
  <2>1. n \in Nat
    BY <1>2
  <2> HIDE DEF S, n
  <2> QED
    BY <1>3, <1>4, <2>1, UpTo
<1> QED
  BY <1>1, <1>5

(***************************************************************************)
(* The second loop finds the lowest of the numbers near the highest, so    *)
(* that blockNumberResolver keeps the promise of its comment.              *)
(***************************************************************************)
LEMMA BlockPickIsLowest ==
  ASSUME NEW ns \in Seq(Int), ns # <<>>
  PROVE  BlockPick(ns).v \in Int /\ LowestWithinLimit(ns, BlockPick(ns).v)
<1> DEFINE n == Len(ns)
           high == High(ns)
<1>1. n \in Nat /\ n > 0 /\ \A i \in 1..n : ns[i] \in Int
  OBVIOUS
<1>2. /\ \E j \in 1..n : high = ns[j]
      /\ \A i \in 1..n : ns[i] <= high
  BY HighIsHighest
<1> HIDE DEF high
<1>3. high \in Int
  BY <1>1, <1>2
<1>4. PICK f : /\ f[0] = high
               /\ \A k \in 1..Len(ns) :
                    f[k] = IF high - ns[k] <= MaxBlocksBehind /\ ns[k] < f[k - 1]
                           THEN ns[k] ELSE f[k - 1]
               /\ LowestNear(ns, high) = f[Len(ns)]
  BY <1>3, LowestNearLoop
<1> DEFINE S == {k \in 0..n :
                   /\ \E j \in 1..n : f[k] = ns[j]
                   /\ high - f[k] <= MaxBlocksBehind
                   /\ \A i \in 1..k : high - ns[i] <= MaxBlocksBehind => f[k] <= ns[i]}
<1>5. 0 \in S
  BY <1>1, <1>2, <1>3, <1>4, RequirementsAssumption
<1>6. ASSUME NEW k \in 1..n, k - 1 \in S
      PROVE  k \in S
  <2>1. /\ k \in 0..n
        /\ f[k] = IF high - ns[k] <= MaxBlocksBehind /\ ns[k] < f[k - 1]
                  THEN ns[k] ELSE f[k - 1]
    BY <1>4
  <2>2. f[k - 1] \in Int /\ ns[k] \in Int
    BY <1>1, <1>6
  <2>3. /\ \E j \in 1..n : f[k] = ns[j]
        /\ high - f[k] <= MaxBlocksBehind
    BY <1>6, <2>1
  <2>4. ASSUME NEW i \in 1..k, high - ns[i] <= MaxBlocksBehind
        PROVE  f[k] <= ns[i]
    <3>1. CASE i \in 1..(k - 1)
      <4>1. f[k - 1] <= ns[i] /\ ns[i] \in Int
        BY <1>1, <1>6, <2>4, <3>1
      <4> QED
        BY <2>1, <2>2, <4>1
    <3>2. CASE i = k
      BY <2>1, <2>2, <2>4, <3>2
    <3> QED
      BY <3>1, <3>2
  <2> QED
    BY <2>1, <2>3, <2>4
<1>7. n \in S
  <2>1. n \in Nat
    BY <1>1
  <2> HIDE DEF S, n
  <2> QED
    BY <1>5, <1>6, <2>1, UpTo
<1>8. BlockPick(ns).v = f[n]
  BY <1>4 DEF BlockPick, Ok, high
<1>9. f[n] \in Int
  BY <1>1, <1>7
<1>10. LowestWithinLimit(ns, f[n])
  <2>1. Range(ns) = {ns[i] : i \in 1..n}
    BY DEF Range
  <2>2. f[n] \in Range(ns)
    BY <1>7, <2>1
  <2>3. \A m \in Range(ns) : m \in Int /\ m <= high
    BY <1>1, <1>2, <2>1
  <2>4. high \in Range(ns)
    BY <1>2, <2>1
  <2>5. \A m \in Range(ns) : m - f[n] <= MaxBlocksBehind
    BY <1>3, <1>7, <1>9, <2>3, RequirementsAssumption
  <2>6. ASSUME NEW w \in Range(ns), \A m \in Range(ns) : m - w <= MaxBlocksBehind
        PROVE  f[n] <= w
    BY <1>7, <2>1, <2>4, <2>6
  <2> QED
    BY <2>2, <2>5, <2>6 DEF LowestWithinLimit
<1> QED
  BY <1>8, <1>9, <1>10

\* What the loop for the most common response keeps.
Tally == [resp : Int, count : Nat, multiple : BOOLEAN]

(***************************************************************************)
(* A turn of the loop keeps a response, a number and a flag.               *)
(***************************************************************************)
LEMMA VisitType ==
  ASSUME NEW ns \in Seq(Int), NEW acc \in Tally, NEW a \in Int
  PROVE  Visit(ns, acc, a) \in Tally
<1>1. Count(ns, a) \in Nat
  BY CountBounds
<1> QED
  BY <1>1 DEF Visit, Tally

(***************************************************************************)
(* The loop for the most common response.                                  *)
(***************************************************************************)
LEMMA MostCommonLoop ==
  ASSUME NEW ns \in Seq(Int), ns # <<>>
  PROVE  \E f : /\ f[0] = [resp |-> ns[1], count |-> 0, multiple |-> FALSE]
                /\ \A k \in 1..Len(ns) : f[k] = Visit(ns, f[k - 1], ns[k])
                /\ MostCommon(ns) = f[Len(ns)]
<1> DEFINE n == Len(ns)
           Eq(it) == it = [s \in SUBSET DOMAIN ns |->
             IF s = {} THEN [resp |-> ns[1], count |-> 0, multiple |-> FALSE]
             ELSE Visit(ns, it[s \ {Max(s)}], ns[Max(s)])]
           step == [p \in (1..n) \X Tally |-> Visit(ns, p[2], ns[p[1]])]
<1>1. n \in Nat /\ DOMAIN ns = 1..n
  OBVIOUS
<1>2. step \in [(1..n) \X Tally -> Tally] /\ [resp |-> ns[1], count |-> 0, multiple |-> FALSE] \in Tally
  <2>1. \A p \in (1..n) \X Tally : Visit(ns, p[2], ns[p[1]]) \in Tally
    BY <1>1, VisitType
  <2> QED
    BY <1>1, <2>1 DEF Tally
<1>3. PICK it : Iterates(Tally, [resp |-> ns[1], count |-> 0, multiple |-> FALSE], step, n, it)
  <2> HIDE DEF step, n
  <2> QED
    BY <1>1, <1>2, FoldExists
<1>4. Eq(it)
  <2>1. ASSUME NEW s \in SUBSET (1..n), s # {}
        PROVE  it[s] = Visit(ns, it[s \ {Max(s)}], ns[Max(s)])
    <3>1. Max(s) \in s
      <4> HIDE DEF n
      <4> QED
        BY <1>1, <2>1, MaxIn
    <3>2. it[s \ {Max(s)}] \in Tally /\ Max(s) \in 1..n
      BY <1>3, <3>1 DEF Iterates
    <3>3. it[s] = step[<<Max(s), it[s \ {Max(s)}]>>]
      BY <1>3, <2>1 DEF Iterates
    <3> QED
      BY <3>2, <3>3
  <2> QED
    BY <1>1, <1>3, <2>1 DEF Iterates
<1> DEFINE c == CHOOSE g : Eq(g)
           f == [k \in 0..n |-> c[1..k]]
<1>5. Eq(c)
  BY <1>4
<1>6. MostCommon(ns) = c[DOMAIN ns]
  BY DEF MostCommon, FoldLeft, MapThenFoldSet
<1> HIDE DEF c
<1>7. MostCommon(ns) = f[n] /\ f[0] = [resp |-> ns[1], count |-> 0, multiple |-> FALSE]
  <2>1. 1..0 = {} /\ {} \in SUBSET DOMAIN ns /\ n \in 0..n /\ 0 \in 0..n
    BY <1>1
  <2> QED
    BY <1>1, <1>5, <1>6, <2>1
<1>8. ASSUME NEW k \in 1..n
      PROVE  f[k] = Visit(ns, f[k - 1], ns[k])
  <2>1. k \in Nat \ {0} /\ 1..k \in SUBSET DOMAIN ns /\ k \in 0..n /\ k - 1 \in 0..n
    BY <1>1
  <2>2. Max(1..k) = k /\ (1..k) \ {k} = 1..(k - 1) /\ 1..k # {}
    BY <2>1, MaxUpTo
  <2>3. c[1..k] = Visit(ns, c[1..(k - 1)], ns[k])
    BY <1>5, <2>1, <2>2, Zenon
  <2>4. f[k] = c[1..k] /\ f[k - 1] = c[1..(k - 1)]
    BY <2>1
  <2> QED
    BY <2>3, <2>4, Zenon
<1> HIDE DEF f
<1> QED
  BY <1>7, <1>8


(***************************************************************************)
(* extractErrors goes through the answers and appends those that are no    *)
(* errors.                                                                 *)
(***************************************************************************)
LEMMA ResponsesLoop ==
  ASSUME NEW s \in Seq(Answers)
  PROVE  \E f : /\ f[0] = <<>>
                /\ \A k \in 1..Len(s) :
                     f[k] = IF s[k] = Fail THEN f[k - 1] ELSE Append(f[k - 1], s[k])
                /\ Responses(s) = f[Len(s)]
<1> DEFINE n == Len(s)
           Eq(f) == f = [k \in 0..Len(s) |->
                           IF k = 0 THEN <<>>
                           ELSE IF s[k] = Fail THEN f[k - 1] ELSE Append(f[k - 1], s[k])]
           step == [p \in (1..n) \X Seq(Answers) |->
                      IF s[p[1]] = Fail THEN p[2] ELSE Append(p[2], s[p[1]])]
<1>1. n \in Nat /\ \A k \in 1..n : s[k] \in Answers
  OBVIOUS
<1>2. step \in [(1..n) \X Seq(Answers) -> Seq(Answers)]
  BY <1>1
<1>3. PICK f : Accumulates(Seq(Answers), <<>>, step, n, f)
  <2>1. <<>> \in Seq(Answers)
    OBVIOUS
  <2> HIDE DEF step, n
  <2> QED
    BY <1>1, <1>2, <2>1, AccumulatesExists
<1>4. \A k \in 1..n : k \in 0..n /\ k # 0 /\ k - 1 \in 0..n
  BY <1>1
<1>5. Eq(f)
  <2>1. ASSUME NEW k \in 1..n
        PROVE  f[k] = IF s[k] = Fail THEN f[k - 1] ELSE Append(f[k - 1], s[k])
    <3>1. f[k - 1] \in Seq(Answers)
      BY <1>3, <1>4 DEF Accumulates
    <3>2. f[k] = step[<<k, f[k - 1]>>]
      BY <1>3 DEF Accumulates
    <3> QED
      BY <3>1, <3>2
  <2>2. f \in [0..n -> Seq(Answers)] /\ f[0] = <<>>
    BY <1>3 DEF Accumulates
  <2>3. ASSUME NEW k \in 0..n
        PROVE  f[k] = IF k = 0 THEN <<>>
                      ELSE IF s[k] = Fail THEN f[k - 1] ELSE Append(f[k - 1], s[k])
    <3>1. k = 0 \/ k \in 1..n
      BY <1>1
    <3> HIDE DEF n
    <3> QED
      BY <1>4, <2>1, <2>2, <3>1
  <2> QED
    BY <2>2, <2>3
<1> DEFINE c == CHOOSE g : Eq(g)
<1>6. Eq(c)
  BY <1>5
<1>7. Responses(s) = c[n]
  BY DEF Responses
<1>8. c[0] = <<>>
  <2> HIDE DEF c
  <2>1. 0 \in 0..n
    BY <1>1
  <2> QED
    BY <1>6, <2>1
<1>9. ASSUME NEW k \in 1..n
      PROVE  c[k] = IF s[k] = Fail THEN c[k - 1] ELSE Append(c[k - 1], s[k])
  <2> HIDE DEF c
  <2> QED
    BY <1>4, <1>6, Zenon
<1> HIDE DEF c
<1> QED
  BY <1>7, <1>8, <1>9

(***************************************************************************)
(* The loop of defaultResolver finds a response that no other one exceeds, *)
(* and notices whether another one is as common.                           *)
(***************************************************************************)
LEMMA MostCommonIs ==
  ASSUME NEW ns \in Seq(Int), ns # <<>>
  PROVE  /\ MostCommon(ns) \in Tally
         /\ \E j \in 1..Len(ns) : MostCommon(ns).resp = ns[j]
         /\ MostCommon(ns).count = Count(ns, MostCommon(ns).resp)
         /\ \A i \in 1..Len(ns) : Count(ns, ns[i]) <= MostCommon(ns).count
         /\ MostCommon(ns).multiple <=>
              \E i \in 1..Len(ns) : /\ Count(ns, ns[i]) = MostCommon(ns).count
                                    /\ ns[i] # MostCommon(ns).resp
<1> DEFINE n == Len(ns)
           base == [resp |-> ns[1], count |-> 0, multiple |-> FALSE]
           c(i) == Count(ns, ns[i])
<1>1. n \in Nat /\ n > 0 /\ DOMAIN ns = 1..n /\ \A i \in 1..n : ns[i] \in Int
  OBVIOUS
<1>2. \A i \in 1..n : c(i) \in Nat /\ c(i) > 0
  BY <1>1, CountBounds
<1> HIDE DEF c
<1>3. PICK f : /\ f[0] = base
               /\ \A k \in 1..Len(ns) : f[k] = Visit(ns, f[k - 1], ns[k])
               /\ MostCommon(ns) = f[Len(ns)]
  BY MostCommonLoop
<1> DEFINE Right(k, m) ==
             /\ m \in Tally
             /\ \E j \in 1..n : m.resp = ns[j]
             /\ k > 0 => m.count = Count(ns, m.resp)
             /\ k = 0 => m.count = 0
             /\ \A i \in 1..k : c(i) <= m.count
             /\ m.multiple <=> \E i \in 1..k : c(i) = m.count /\ ns[i] # m.resp
           S == {k \in 0..n : Right(k, f[k])}
<1>4. 0 \in S
  <2>1. base \in Tally
    BY <1>1 DEF Tally
  <2> QED
    BY <1>1, <1>3, <2>1
<1>5. ASSUME NEW k \in 1..n, k - 1 \in S
      PROVE  k \in S
  <2> DEFINE acc == f[k - 1]
             m == f[k]
  <2>1. k \in 0..n /\ m = Visit(ns, acc, ns[k]) /\ c(k) \in Nat /\ c(k) > 0 /\ ns[k] \in Int
    BY <1>1, <1>2, <1>3
  <2>2. Right(k - 1, acc)
    BY <1>5
  <2>3. \A i \in 1..k : i \in 1..(k - 1) \/ i = k
    OBVIOUS
  <2>4. \A i \in 1..(k - 1) : i \in 1..k /\ i \in 1..n
    OBVIOUS
  <2>5. k \in 1..k /\ k > 0 /\ k # 0
    OBVIOUS
  <2>6. acc.count \in Nat /\ \A i \in 1..(k - 1) : c(i) \in Nat
    BY <1>2, <2>2, <2>4 DEF Tally
  <2>7. CASE c(k) > acc.count
    <3>1. m = [resp |-> ns[k], count |-> c(k), multiple |-> FALSE]
      BY <2>1, <2>7 DEF Visit, c
    <3>2. m.resp = ns[k] /\ m.count = c(k) /\ m.multiple = FALSE /\ m \in Tally
      BY <2>1, <3>1 DEF Tally
    <3> HIDE DEF m, acc
    <3>0. \A i \in 1..(k - 1) : c(i) < c(k)
      BY <2>1, <2>2, <2>6, <2>7
    <3>3. \A i \in 1..k : c(i) <= m.count
      BY <2>1, <2>3, <2>6, <3>2, <3>0
    <3>4. ~ \E i \in 1..k : c(i) = m.count /\ ns[i] # m.resp
      BY <2>1, <2>3, <2>6, <3>2, <3>0
    <3>5. m.count = Count(ns, m.resp)
      BY <3>2 DEF c
    <3>6. Right(k, m)
      BY <2>5, <3>2, <3>3, <3>4, <3>5
    <3> QED
      BY <2>1, <3>6 DEF m
  <2>8. CASE ~(c(k) > acc.count)
    <3>1. m = IF c(k) = acc.count /\ acc.resp # ns[k]
              THEN [acc EXCEPT !.multiple = TRUE] ELSE acc
      BY <2>1, <2>8 DEF Visit, c
    <3>2. /\ m \in Tally /\ m.resp = acc.resp /\ m.count = acc.count
          /\ m.multiple <=> (acc.multiple \/ (c(k) = acc.count /\ acc.resp # ns[k]))
      BY <2>2, <3>1 DEF Tally
    <3>3. k - 1 > 0
      BY <2>1, <2>2, <2>8
    <3> HIDE DEF m, acc
    <3>4. \A i \in 1..k : c(i) <= m.count
      BY <2>1, <2>2, <2>3, <2>6, <2>8, <3>2
    <3>5. m.multiple <=> \E i \in 1..k : c(i) = m.count /\ ns[i] # m.resp
      BY <2>2, <2>3, <2>4, <2>5, <3>2
    <3>6. Right(k, m)
      BY <2>2, <2>5, <3>2, <3>3, <3>4, <3>5
    <3> QED
      BY <2>1, <3>6 DEF m
  <2> QED
    BY <2>7, <2>8
<1>6. n \in S
  <2>1. n \in Nat
    BY <1>1
  <2> HIDE DEF S, n
  <2> QED
    BY <1>4, <1>5, <2>1, UpTo
<1>7. Right(n, MostCommon(ns))
  BY <1>3, <1>6
<1> HIDE DEF n
<1> QED
  BY <1>1, <1>7 DEF n, c

\* How often v is among the first k answers.
Among(s, k, v) == Cardinality({i \in 1..k : s[i] = v})

(***************************************************************************)
(* One answer more: how often a response then occurs.                      *)
(***************************************************************************)
LEMMA AmongMore ==
  ASSUME NEW s, NEW k \in Nat \ {0}, NEW v
  PROVE  /\ Among(s, k - 1, v) \in Nat
         /\ Among(s, k, v) = Among(s, k - 1, v) + (IF s[k] = v THEN 1 ELSE 0)
<1> DEFINE C == {i \in 1..(k - 1) : s[i] = v}
           D == {i \in 1..k : s[i] = v}
<1>1. IsFiniteSet(1..(k - 1)) /\ C \in SUBSET (1..(k - 1)) /\ k \notin C
  BY FS_Interval
<1>2. IsFiniteSet(C) /\ Cardinality(C) \in Nat
  BY <1>1, FS_Subset, FS_CardinalityType
<1>3. D = IF s[k] = v THEN C \cup {k} ELSE C
  OBVIOUS
<1>4. Among(s, k - 1, v) = Cardinality(C) /\ Among(s, k, v) = Cardinality(D)
  BY DEF Among
<1> HIDE DEF C, D
<1>5. Cardinality(C \cup {k}) = Cardinality(C) + 1
  BY <1>1, <1>2, FS_AddElement
<1> QED
  BY <1>2, <1>3, <1>4, <1>5

(***************************************************************************)
(* All answers are the first n answers.                                    *)
(***************************************************************************)
LEMMA AmongAll ==
  ASSUME NEW s, NEW n \in Nat, DOMAIN s = 1..n, NEW v
  PROVE  Count(s, v) = Among(s, n, v)
BY DEF Count, Among

(***************************************************************************)
(* Nothing is among no answers.                                            *)
(***************************************************************************)
LEMMA AmongNone ==
  ASSUME NEW s, NEW v
  PROVE  Among(s, 0, v) = 0
<1>1. {i \in 1..0 : s[i] = v} = {}
  OBVIOUS
<1> QED
  BY <1>1, FS_EmptySet DEF Among

(***************************************************************************)
(* One response appended to the others.                                    *)
(***************************************************************************)
LEMMA CountAppend ==
  ASSUME NEW q \in Seq(Values), NEW x \in Values, NEW v
  PROVE  Count(Append(q, x), v) = Count(q, v) + (IF x = v THEN 1 ELSE 0)
<1> DEFINE r == Append(q, x)
           l == Len(r)
<1>1. /\ l \in Nat \ {0} /\ l - 1 \in Nat /\ DOMAIN r = 1..l /\ r[l] = x
      /\ DOMAIN q = 1..(l - 1) /\ \A i \in 1..(l - 1) : r[i] = q[i]
  OBVIOUS
<1> HIDE DEF r, l
<1>2. {i \in 1..(l - 1) : r[i] = v} = {i \in 1..(l - 1) : q[i] = v}
  BY <1>1
<1>3. Among(r, l - 1, v) = Among(q, l - 1, v)
  BY <1>2 DEF Among
<1>4. Count(r, v) = Among(r, l, v) /\ Count(q, v) = Among(q, l - 1, v)
  BY <1>1, AmongAll
<1>5. Among(r, l, v) = Among(r, l - 1, v) + (IF r[l] = v THEN 1 ELSE 0)
  BY <1>1, AmongMore
<1> QED
  BY <1>1, <1>3, <1>4, <1>5 DEF r

(***************************************************************************)
(* extractErrors keeps the responses, each as often as it was answered.    *)
(***************************************************************************)
LEMMA ResponsesCount ==
  ASSUME NEW s \in Seq(Answers)
  PROVE  /\ Responses(s) \in Seq(Values)
         /\ \A v \in Values : Count(Responses(s), v) = Count(s, v)
<1> DEFINE n == Len(s)
<1>1. n \in Nat /\ DOMAIN s = 1..n /\ \A i \in 1..n : s[i] \in Answers
  OBVIOUS
<1>2. PICK f : /\ f[0] = <<>>
               /\ \A k \in 1..Len(s) :
                    f[k] = IF s[k] = Fail THEN f[k - 1] ELSE Append(f[k - 1], s[k])
               /\ Responses(s) = f[Len(s)]
  BY ResponsesLoop
<1> DEFINE S == {k \in 0..n : /\ f[k] \in Seq(Values)
                              /\ \A v \in Values : Count(f[k], v) = Among(s, k, v)}
<1>3. 0 \in S
  <2>1. f[0] \in Seq(Values) /\ DOMAIN f[0] = 1..0
    BY <1>2
  <2>2. \A v \in Values : Count(f[0], v) = Among(f[0], 0, v)
    BY <2>1, AmongAll
  <2> QED
    BY <1>1, <2>1, <2>2, AmongNone
<1>4. ASSUME NEW k \in 1..n, k - 1 \in S
      PROVE  k \in S
  <2>1. k \in 0..n /\ k \in Nat \ {0} /\ s[k] \in Answers
    BY <1>1
  <2>2. \A v : /\ Among(s, k - 1, v) \in Nat
               /\ Among(s, k, v) = Among(s, k - 1, v) + (IF s[k] = v THEN 1 ELSE 0)
    BY <2>1, AmongMore
  <2>3. f[k] = IF s[k] = Fail THEN f[k - 1] ELSE Append(f[k - 1], s[k])
    BY <1>2
  <2>4. f[k - 1] \in Seq(Values) /\ \A v \in Values : Count(f[k - 1], v) = Among(s, k - 1, v)
    BY <1>4
  <2>5. CASE s[k] = Fail
    <3>1. \A v \in Values : s[k] # v
      BY <2>5, EndpointsAssumption, RequirementsAssumption
    <3>2. \A v \in Values : Among(s, k, v) = Among(s, k - 1, v)
      BY <2>2, <3>1
    <3> QED
      BY <2>1, <2>3, <2>4, <2>5, <3>2
  <2>6. CASE s[k] # Fail
    <3> DEFINE q == f[k - 1]
    <3>1. s[k] \in Values /\ q \in Seq(Values) /\ f[k] = Append(q, s[k])
      BY <2>1, <2>3, <2>4, <2>6 DEF Answers
    <3> HIDE DEF q
    <3>2. \A v \in Values : Count(f[k], v) = Count(q, v) + (IF s[k] = v THEN 1 ELSE 0)
      BY <3>1, CountAppend
    <3>3. f[k] \in Seq(Values)
      BY <3>1
    <3>4. \A v \in Values : Count(f[k], v) = Among(s, k, v)
      BY <2>2, <2>4, <3>2 DEF q
    <3> QED
      BY <2>1, <3>3, <3>4
  <2> QED
    BY <2>5, <2>6
<1>5. n \in S
  <2>1. n \in Nat
    BY <1>1
  <2> HIDE DEF S, n
  <2> QED
    BY <1>3, <1>4, <2>1, UpTo
<1>6. \A v \in Values : Count(s, v) = Among(s, n, v)
  BY <1>1, AmongAll
<1> QED
  BY <1>1, <1>2, <1>5, <1>6

(***************************************************************************)
(* Numbers can be sorted: the highest one goes to the end, the others are  *)
(* sorted before it.                                                       *)
(***************************************************************************)
LEMMA SortExists ==
  ASSUME NEW n \in Nat, NEW ns \in [1..n -> Int]
  PROVE  \E p \in [1..n -> 1..n] : Sorts(ns, p)
<1> DEFINE S == {k \in 0..n : \A s \in [1..k -> Int] : \E p \in [1..k -> 1..k] : Sorts(s, p)}
<1>1. 0 \in S
  <2>1. \A s \in [1..0 -> Int] : <<>> \in [1..0 -> 1..0] /\ Sorts(s, <<>>)
    BY DEF Sorts
  <2> QED
    BY <2>1
<1>2. ASSUME NEW k \in 1..n, k - 1 \in S
      PROVE  k \in S
  <2> SUFFICES ASSUME NEW s \in [1..k -> Int]
               PROVE  \E p \in [1..k -> 1..k] : Sorts(s, p)
    <3>1. k \in 0..n
      OBVIOUS
    <3> QED
      BY <3>1
  <2>1. PICK m \in 1..k : \A i \in 1..k : s[i] <= s[m]
    <3>1. s \in Seq(Int) /\ s # <<>> /\ Len(s) = k
      OBVIOUS
    <3> QED
      BY <3>1, HighIsHighest
  <2> DEFINE t == [i \in 1..(k - 1) |-> IF i = m THEN s[k] ELSE s[i]]
  <2>2. t \in [1..(k - 1) -> Int]
    OBVIOUS
  <2>3. PICK q \in [1..(k - 1) -> 1..(k - 1)] : Sorts(t, q)
    BY <1>2, <2>2
  <2> DEFINE p == [i \in 1..k |-> IF i = k THEN m ELSE IF q[i] = m THEN k ELSE q[i]]
  <2>4. p \in [1..k -> 1..k]
    <3>1. \A i \in 1..k : i # k => i \in 1..(k - 1)
      OBVIOUS
    <3>2. ASSUME NEW i \in 1..(k - 1) PROVE q[i] \in 1..k
      <4>1. q[i] \in 1..(k - 1)
        BY <2>3
      <4> QED
        BY <4>1
    <3>3. k \in 1..k
      OBVIOUS
    <3> QED
      BY <2>1, <3>1, <3>2, <3>3
  <2>4a. \A i \in 1..(k - 1) : q[i] \in 1..(k - 1)
    BY <2>3
  <2>4b. \A i \in 1..(k - 1) : i \in 1..k /\ i # k
    OBVIOUS
  <2>5. ASSUME NEW i \in 1..(k - 1)
        PROVE  s[p[i]] = t[q[i]] /\ p[i] # m /\ p[i] \in 1..k
    <3>1. i \in 1..k /\ i # k /\ q[i] \in 1..(k - 1) /\ q[i] # k
      BY <2>4a, <2>4b
    <3>2. p[i] = IF q[i] = m THEN k ELSE q[i]
      BY <3>1
    <3>3. t[q[i]] = IF q[i] = m THEN s[k] ELSE s[q[i]]
      BY <3>1
    <3> QED
      BY <2>4, <3>1, <3>2, <3>3
  <2>6. ASSUME NEW i \in 1..k, NEW j \in 1..k, i < j
        PROVE  s[p[i]] <= s[p[j]] /\ p[i] # p[j]
    <3>1. i \in 1..(k - 1) /\ (j \in 1..(k - 1) \/ j = k) /\ p[k] = m
      BY <2>6
    <3>2. CASE j = k
      BY <2>1, <2>5, <3>1, <3>2
    <3>3. CASE j \in 1..(k - 1)
      <4>1. t[q[i]] <= t[q[j]] /\ q[i] # q[j]
        BY <2>3, <2>6, <3>1, <3>3 DEF Sorts
      <4>2. /\ p[i] = IF q[i] = m THEN k ELSE q[i]
            /\ p[j] = IF q[j] = m THEN k ELSE q[j]
            /\ q[i] # k /\ q[j] # k
        BY <2>4a, <2>4b, <3>1, <3>3
      <4>3. p[i] # p[j]
        BY <4>1, <4>2
      <4> QED
        BY <2>5, <3>1, <3>3, <4>1, <4>3
    <3> QED
      BY <3>1, <3>2, <3>3
  <2> HIDE DEF p
  <2>7. Sorts(s, p)
    BY <2>6 DEF Sorts
  <2> QED
    BY <2>4, <2>7
<1>3. n \in S
  <2> HIDE DEF S
  <2> QED
    BY <1>1, <1>2, UpTo
<1> QED
  BY <1>3

(***************************************************************************)
(* A set that has different elements for all of a..b has as many.          *)
(***************************************************************************)
LEMMA AtLeast ==
  ASSUME NEW a \in Nat, NEW b \in Nat, NEW n \in Nat, NEW T \in SUBSET (1..n), NEW p,
         \A i \in a..b : p[i] \in T,
         \A i, j \in a..b : i < j => p[i] # p[j]
  PROVE  Cardinality(T) \in Nat /\ b - a + 1 <= Cardinality(T)
<1> DEFINE f == [i \in a..b |-> p[i]]
<1>1. IsFiniteSet(T) /\ Cardinality(T) \in Nat
  <2>1. IsFiniteSet(1..n)
    BY FS_Interval
  <2>2. IsFiniteSet(T)
    BY <2>1, FS_Subset
  <2> QED
    BY <2>2, FS_CardinalityType
<1>2. \A i, j \in a..b : f[i] = f[j] => i = j
  OBVIOUS
<1>3. f \in Injection(a..b, T)
  BY <1>2 DEF Injection, IsInjective
<1> HIDE DEF f
<1>4. Cardinality(a..b) <= Cardinality(T)
  BY <1>1, <1>3, FS_Injection
<1>5. Cardinality(a..b) = IF a > b THEN 0 ELSE b - a + 1
  BY FS_Interval
<1> QED
  BY <1>1, <1>4, <1>5

(***************************************************************************)
(* The median is central: so many numbers are not above it, and so many    *)
(* not below.                                                              *)
(***************************************************************************)
LEMMA MedianIsCentral ==
  ASSUME NEW ns \in Seq(Int), ns # <<>>
  PROVE  /\ Median(ns) \in Int
         /\ 2 * Cardinality({i \in 1..Len(ns) : ns[i] <= Median(ns)}) >= Len(ns)
         /\ 2 * Cardinality({i \in 1..Len(ns) : ns[i] >= Median(ns)}) >= Len(ns)
<1> DEFINE n == Len(ns)
           p == CHOOSE p \in [DOMAIN ns -> DOMAIN ns] : Sorts(ns, p)
           s(i) == ns[p[i]]
           m == n \div 2
<1>1. n \in Nat /\ n > 0 /\ DOMAIN ns = 1..n /\ ns \in [1..n -> Int]
  OBVIOUS
<1>2. p \in [1..n -> 1..n] /\ Sorts(ns, p)
  <2>1. \E q \in [1..n -> 1..n] : Sorts(ns, q)
    <3> HIDE DEF n
    <3> QED
      BY <1>1, SortExists
  <2> QED
    BY <1>1, <2>1
<1>3. Median(ns) = IF n % 2 = 0 THEN (s(m) + s(m + 1)) \div 2 ELSE s(m + 1)
  <2>1. Sorted(ns) = [i \in DOMAIN ns |-> ns[p[i]]]
    BY DEF Sorted
  <2>2. n % 2 # 0 => m + 1 \in 1..n
    BY <1>1
  <2>3. n % 2 = 0 => m \in 1..n /\ m + 1 \in 1..n
    BY <1>1
  <2> HIDE DEF p
  <2> QED
    BY <1>1, <2>1, <2>2, <2>3 DEF Median
<1> HIDE DEF p
<1>4. \A i \in 1..n : s(i) \in Int /\ p[i] \in 1..n
  BY <1>1, <1>2
<1>5. \A i, j \in 1..n : i < j => s(i) <= s(j) /\ p[i] # p[j]
  BY <1>1, <1>2 DEF Sorts
<1> DEFINE v == Median(ns)
           Low == {i \in 1..n : ns[i] <= v}
           High0 == {i \in 1..n : ns[i] >= v}
           a == IF n % 2 = 0 THEN m ELSE m + 1
<1>6. m \in Nat /\ a \in 1..n /\ m + 1 \in 1..n /\ 2 * a >= n /\ 2 * (n - m) >= n /\ m + 1 <= n
  BY <1>1
<1>7. v \in Int /\ s(a) <= v /\ v <= s(m + 1)
  <2>1. CASE n % 2 = 0
    <3>1. s(m) \in Int /\ s(m + 1) \in Int /\ s(m) <= s(m + 1) /\ a = m
      BY <1>1, <1>4, <1>5, <1>6, <2>1
    <3> HIDE DEF s
    <3> QED
      BY <1>3, <2>1, <3>1
  <2>2. CASE n % 2 # 0
    <3>1. s(m + 1) \in Int /\ a = m + 1
      BY <1>4, <1>6, <2>2
    <3> HIDE DEF s
    <3> QED
      BY <1>3, <2>2, <3>1
  <2> QED
    BY <2>1, <2>2
<1> HIDE DEF v, m, a
<1>8. \A i \in 1..a : p[i] \in Low
  <2>1. ASSUME NEW i \in 1..a
        PROVE  i \in 1..n /\ s(i) <= s(a)
    <3>1. i \in 1..n /\ (i < a \/ i = a)
      BY <1>1, <1>6
    <3>2. s(i) \in Int /\ s(a) \in Int
      BY <1>4, <1>6, <3>1
    <3>3. i < a => s(i) <= s(a)
      BY <1>5, <1>6, <3>1
    <3> HIDE DEF s
    <3> QED
      BY <3>1, <3>2, <3>3
  <2>2. ASSUME NEW i \in 1..a PROVE p[i] \in 1..n /\ ns[p[i]] <= v
    <3>1. s(i) \in Int /\ s(a) \in Int /\ s(i) <= s(a) /\ p[i] \in 1..n
      BY <1>4, <1>6, <2>1
    <3>2. s(i) <= v
      <4> HIDE DEF s
      <4> QED
        BY <1>7, <3>1
    <3> QED
      BY <3>1, <3>2
  <2> QED
    BY <2>2
<1>9. \A i \in (m + 1)..n : p[i] \in High0
  <2>1. ASSUME NEW i \in (m + 1)..n
        PROVE  i \in 1..n /\ s(m + 1) <= s(i)
    <3>1. i \in 1..n /\ (m + 1 < i \/ i = m + 1)
      BY <1>1, <1>6
    <3>2. s(i) \in Int /\ s(m + 1) \in Int
      BY <1>4, <1>6, <3>1
    <3>3. m + 1 < i => s(m + 1) <= s(i)
      BY <1>5, <1>6, <3>1
    <3> HIDE DEF s
    <3> QED
      BY <3>1, <3>2, <3>3
  <2>2. ASSUME NEW i \in (m + 1)..n PROVE p[i] \in 1..n /\ ns[p[i]] >= v
    <3>1. s(i) \in Int /\ s(m + 1) \in Int /\ s(m + 1) <= s(i) /\ p[i] \in 1..n
      BY <1>4, <1>6, <2>1
    <3>2. s(i) >= v
      <4> HIDE DEF s
      <4> QED
        BY <1>7, <3>1
    <3> QED
      BY <3>1, <3>2
  <2> QED
    BY <2>2
<1>10. Low \in SUBSET (1..n) /\ High0 \in SUBSET (1..n)
  OBVIOUS
<1>11. \A i, j \in 1..n : i < j => p[i] # p[j]
  BY <1>5
<1> HIDE DEF n, Low, High0, s
<1>12. Cardinality(Low) \in Nat /\ a <= Cardinality(Low)
  <2>1. \A i, j \in 1..a : i < j => p[i] # p[j]
    BY <1>1, <1>6, <1>11
  <2>2. a \in Nat /\ 1 \in Nat
    BY <1>1, <1>6
  <2>3. Cardinality(Low) \in Nat /\ a - 1 + 1 <= Cardinality(Low)
    BY <1>1, <1>8, <1>10, <2>1, <2>2, AtLeast
  <2> QED
    BY <2>2, <2>3
<1>13. Cardinality(High0) \in Nat /\ n - m <= Cardinality(High0)
  <2>1. \A i, j \in (m + 1)..n : i < j => p[i] # p[j]
    BY <1>1, <1>6, <1>11
  <2>2. m + 1 \in Nat /\ m \in Nat
    BY <1>6
  <2>3. Cardinality(High0) \in Nat /\ n - (m + 1) + 1 <= Cardinality(High0)
    BY <1>1, <1>9, <1>10, <2>1, <2>2, AtLeast
  <2> QED
    BY <1>1, <2>2, <2>3
<1>14. 2 * Cardinality(Low) >= n /\ 2 * Cardinality(High0) >= n
  BY <1>1, <1>6, <1>12, <1>13
<1> QED
  BY <1>7, <1>14 DEF n, v, Low, High0

-----------------------------------------------------------------------------
\* What call returns to its caller when the resolver is given the answers s.
Outcome(k, min, s) == Result(resolve(k, min, s))

(***************************************************************************)
(* The responses among some answers.                                       *)
(***************************************************************************)
LEMMA AnswersHeard ==
  ASSUME NEW s \in Seq(Answers), NEW r, r = Responses(s), NEW n, n = Len(r)
  PROVE  /\ r \in Seq(Int)
         /\ n = 0 <=> r = <<>>
         /\ n \in Nat /\ DOMAIN r = 1..n
         /\ \A i \in 1..n : r[i] \in Values /\ r[i] \in Int
         /\ \A v \in Values : Count(s, v) = Count(r, v)
         /\ \A v : Count(s, v) \in Nat
         /\ \A v : Count(r, v) \in 0..n
         /\ \A v : Count(r, v) > 0 <=> \E i \in 1..n : r[i] = v
         /\ Range(r) = {r[i] : i \in 1..n}
<1>1. r \in Seq(Values) /\ \A v \in Values : Count(r, v) = Count(s, v)
  BY ResponsesCount
<1>2. n \in Nat /\ DOMAIN r = 1..n /\ \A i \in 1..n : r[i] \in Values
  BY <1>1
<1>3. r \in Seq(Int) /\ \A i \in 1..n : r[i] \in Int
  <2>1. \A i \in 1..n : r[i] \in Int
    BY <1>2, EndpointsAssumption
  <2>2. r \in [1..n -> Int]
    BY <1>1, <1>2, <2>1
  <2> QED
    BY <1>2, <2>1, <2>2
<1>4. \A v : Count(r, v) \in 0..n /\ (Count(r, v) > 0 <=> \E i \in 1..n : r[i] = v)
  BY <1>2, CountBounds
<1>5. \A v : Count(s, v) \in Nat
  <2>1. Len(s) \in Nat /\ DOMAIN s = 1..Len(s)
    OBVIOUS
  <2>2. \A v : Count(s, v) \in 0..Len(s)
    BY <2>1, CountBounds
  <2> QED
    BY <2>1, <2>2
<1>6. Range(r) = {r[i] : i \in 1..n}
  BY <1>2 DEF Range
<1>7. n = 0 <=> r = <<>>
  BY <1>1
<1> QED
  BY <1>1, <1>2, <1>3, <1>4, <1>5, <1>6, <1>7

(***************************************************************************)
(* What the common beginning of the resolvers returns.                     *)
(***************************************************************************)
LEMMA FewResponses ==
  ASSUME NEW k, NEW min \in Nat, NEW s \in Seq(Answers),
         NEW r, r = Responses(s), NEW n, n = Len(r)
  PROVE  /\ n \in Nat
         /\ n < min => Outcome(k, min, s) = Err
         /\ n >= min /\ n = 0 => Outcome(k, min, s) = Ok(0)
         /\ n >= min /\ n = 1 => Outcome(k, min, s) = Ok(r[1])
         /\ n >= min /\ n > 1 => Outcome(k, min, s) = Result(Pick(k, min, r))
<1>1. n \in Nat
  BY AnswersHeard
<1>2. resolve(k, min, s) = IF n < min THEN Err ELSE IF n = 0 THEN Panic
                           ELSE IF n = 1 THEN Ok(r[1]) ELSE Pick(k, min, r)
  BY DEF resolve
<1>3. Result(Err) = Err /\ Result(Panic) = Ok(0) /\ \A v : Result(Ok(v)) = Ok(v)
  BY DEF Result, Err, Panic, Ok
<1> QED
  BY <1>1, <1>2, <1>3 DEF Outcome

(***************************************************************************)
(* What the resolvers compute from several responses is no panic.          *)
(***************************************************************************)
LEMMA ManyResponses ==
  ASSUME NEW min, NEW r
  PROVE  /\ Result(Pick("default", min, r)) = DefaultPick(min, r)
         /\ Result(Pick("gas", min, r)) = GasPick(r)
         /\ Result(Pick("block", min, r)) = BlockPick(r)
<1>1. /\ DefaultPick(min, r).kind # "panic"
      /\ GasPick(r).kind # "panic"
      /\ BlockPick(r).kind # "panic"
  BY DEF DefaultPick, GasPick, BlockPick, Ok, Err
<1>2. /\ Pick("default", min, r) = DefaultPick(min, r)
      /\ Pick("gas", min, r) = GasPick(r)
      /\ Pick("block", min, r) = BlockPick(r)
  BY DEF Pick
<1> QED
  BY <1>1, <1>2 DEF Result

(***************************************************************************)
(* defaultResolver returns the response that prevails, and an error only   *)
(* when there is none.                                                     *)
(***************************************************************************)
LEMMA DefaultOutcome ==
  ASSUME NEW min \in Nat, NEW s \in Seq(Answers), NEW o, o = Outcome("default", min, s),
         NEW r, r = Responses(s), NEW n, n = Len(r)
  PROVE  \/ o.kind = "ok" /\ Prevails(min, s, o.v)
         \/ o.kind = "err" /\ \A v \in Values : Count(s, v) > 0 => ~Prevails(min, s, v)
<1>1. /\ r \in Seq(Int)
      /\ n \in Nat /\ DOMAIN r = 1..n
      /\ \A i \in 1..n : r[i] \in Values /\ r[i] \in Int
      /\ \A v \in Values : Count(s, v) = Count(r, v)
      /\ \A v : Count(s, v) \in Nat
      /\ \A v : Count(r, v) \in 0..n
      /\ \A v : Count(r, v) > 0 <=> \E i \in 1..n : r[i] = v
      /\ Range(r) = {r[i] : i \in 1..n}
  BY AnswersHeard
<1>empty. n = 0 <=> r = <<>>
  BY AnswersHeard
<1>res.
      /\ n < min => o = Err
      /\ n >= min /\ n = 0 => o = Ok(0)
      /\ n >= min /\ n = 1 => o = Ok(r[1])
      /\ n >= min /\ n > 1 => o = DefaultPick(min, r)
  <2>1. Result(Pick("default", min, r)) = DefaultPick(min, r)
    BY ManyResponses
  <2> QED
    BY <2>1, FewResponses
<1>2. CASE n < min
  <2>1. o.kind = "err"
    <3>1. o = Err
      BY <1>2, <1>res
    <3> QED
      BY <3>1 DEF Err
  <2>2. \A v \in Values : ~(Count(s, v) >= min)
    BY <1>1, <1>2
  <2> QED
    BY <2>1, <2>2 DEF Prevails
<1>3. CASE n >= min /\ n = 0
  <2>1. o.kind = "ok" /\ o.v = 0
    <3>1. o = Ok(0)
      BY <1>3, <1>res
    <3> QED
      BY <3>1 DEF Ok
  <2>2. Range(r) = {}
    BY <1>1, <1>3
  <2>3. Count(s, 0) >= min
    BY <1>1, <1>3
  <2>4. Prevails(min, s, 0)
    BY <1>1, <2>2, <2>3 DEF Prevails
  <2> QED
    BY <2>1, <2>4
<1>4. CASE n >= min /\ n = 1
  <2>1. o.kind = "ok" /\ o.v = r[1]
    <3>1. o = Ok(r[1])
      BY <1>4, <1>res
    <3> QED
      BY <3>1 DEF Ok
  <2>2. Range(r) \ {r[1]} = {}
    BY <1>1, <1>4
  <2>3. Count(s, r[1]) = Count(r, r[1]) /\ Count(r, r[1]) > 0
    BY <1>1, <1>4
  <2>4. Count(s, r[1]) >= min
    BY <1>1, <1>4, <2>3
  <2>5. Prevails(min, s, r[1])
    BY <1>1, <2>2, <2>4 DEF Prevails
  <2> QED
    BY <2>1, <2>5
<1>5. CASE n >= min /\ n > 1
  <2> DEFINE m == MostCommon(r)
  <2>1. o = IF m.multiple \/ m.count < min THEN Err ELSE Ok(m.resp)
    <3>1. o = DefaultPick(min, r)
      BY <1>5, <1>res
    <3> QED
      BY <3>1 DEF DefaultPick
  <2>2. /\ m \in Tally
        /\ \E j \in 1..n : m.resp = r[j]
        /\ m.count = Count(r, m.resp)
        /\ \A i \in 1..n : Count(r, r[i]) <= m.count
        /\ m.multiple <=> \E i \in 1..n : Count(r, r[i]) = m.count /\ r[i] # m.resp
    <3>1. r \in Seq(Int) /\ r # <<>> /\ n = Len(r)
      BY <1>1, <1>5
    <3> QED
      BY <3>1, MostCommonIs
  <2>3. m.count \in Nat /\ m.resp \in Values /\ m.resp \in Range(r)
    BY <1>1, <2>2 DEF Tally
  <2> HIDE DEF m
  <2>4. ASSUME NEW i \in 1..n
        PROVE  Count(s, r[i]) = Count(r, r[i]) /\ Count(r, r[i]) \in Nat
    BY <1>1
  <2>5. CASE m.multiple
    <3>1. o.kind = "err"
      BY <2>1, <2>5 DEF Err
    <3>2. PICK i \in 1..n : Count(r, r[i]) = m.count /\ r[i] # m.resp
      BY <2>2, <2>5
    <3>3. ASSUME NEW v \in Values, Count(s, v) > 0, Prevails(min, s, v)
          PROVE  FALSE
      <4>1. PICK j \in 1..n : v = r[j]
        BY <1>1, <3>3
      <4>2. Count(s, v) <= m.count /\ Count(s, v) \in Nat
        BY <2>2, <2>4, <4>1
      <4>3. CASE v = m.resp
        <5>1. r[i] \in Range(r) \ {v}
          BY <1>1, <3>2, <4>3
        <5>2. Count(s, r[i]) < Count(s, v)
          BY <1>1, <3>3, <5>1 DEF Prevails
        <5> QED
          BY <2>3, <2>4, <3>2, <4>2, <5>2
      <4>4. CASE v # m.resp
        <5>1. Count(s, m.resp) < Count(s, v)
          BY <1>1, <2>3, <3>3, <4>4 DEF Prevails
        <5>2. Count(s, m.resp) = m.count
          BY <1>1, <2>2, <2>3
        <5> QED
          BY <2>3, <4>2, <5>1, <5>2
      <4> QED
        BY <4>3, <4>4
    <3> QED
      BY <3>1, <3>3
  <2>6. CASE ~m.multiple /\ m.count < min
    <3>1. o.kind = "err"
      BY <2>1, <2>6 DEF Err
    <3>2. ASSUME NEW v \in Values, Count(s, v) > 0
          PROVE  ~(Count(s, v) >= min)
      <4>1. PICK j \in 1..n : v = r[j]
        BY <1>1, <3>2
      <4> QED
        BY <2>2, <2>3, <2>4, <2>6, <4>1
    <3> QED
      BY <3>1, <3>2 DEF Prevails
  <2>7. CASE ~m.multiple /\ ~(m.count < min)
    <3>1. o.kind = "ok" /\ o.v = m.resp
      BY <2>1, <2>7 DEF Ok
    <3>2. Count(s, m.resp) = m.count
      BY <1>1, <2>2, <2>3
    <3>3. ASSUME NEW w \in Range(r) \ {m.resp}
          PROVE  Count(s, w) < m.count
      <4>1. PICK i \in 1..n : w = r[i]
        BY <1>1, <3>3
      <4>2. Count(r, r[i]) <= m.count /\ Count(r, r[i]) # m.count
        BY <2>2, <2>7, <3>3, <4>1
      <4> QED
        BY <2>3, <2>4, <4>1, <4>2
    <3>4. Prevails(min, s, m.resp)
      BY <1>1, <2>3, <2>7, <3>2, <3>3 DEF Prevails
    <3> QED
      BY <3>1, <3>4
  <2> QED
    BY <2>5, <2>6, <2>7
<1> QED
  BY <1>1, <1>2, <1>3, <1>4, <1>5

(***************************************************************************)
(* blockNumberResolver returns a number; unless there is no response it is *)
(* the one its comment promises.                                           *)
(***************************************************************************)
LEMMA BlockOutcome ==
  ASSUME NEW min \in Nat, NEW s \in Seq(Answers), NEW o, o = Outcome("block", min, s),
         NEW r, r = Responses(s), NEW n, n = Len(r)
  PROVE  /\ o.v \in Int
         /\ o.kind = "ok" => /\ n >= min
                             /\ IF r = <<>> THEN o.v = 0 ELSE LowestWithinLimit(r, o.v)
<1>1. /\ r \in Seq(Int)
      /\ n \in Nat /\ DOMAIN r = 1..n
      /\ \A i \in 1..n : r[i] \in Int
      /\ Range(r) = {r[i] : i \in 1..n}
  BY AnswersHeard
<1>empty. n = 0 <=> r = <<>>
  BY AnswersHeard
<1>res.
      /\ n < min => o = Err
      /\ n >= min /\ n = 0 => o = Ok(0)
      /\ n >= min /\ n = 1 => o = Ok(r[1])
      /\ n >= min /\ n > 1 => o = BlockPick(r)
  <2>1. Result(Pick("block", min, r)) = BlockPick(r)
    BY ManyResponses
  <2> QED
    BY <2>1, FewResponses
<1>2. CASE n < min
  <2>1. o = Err
    BY <1>2, <1>res
  <2> QED
    BY <2>1 DEF Err
<1>3. CASE n >= min /\ n = 0
  <2>1. o = Ok(0) /\ r = <<>>
    BY <1>3, <1>res, <1>empty
  <2> QED
    BY <1>3, <2>1 DEF Ok
<1>4. CASE n >= min /\ n = 1
  <2>0. 1..n = {1}
    BY <1>4
  <2>1. o = Ok(r[1]) /\ r # <<>> /\ r[1] \in Int /\ Range(r) = {r[1]}
    <3>1. o = Ok(r[1])
      BY <1>4, <1>res
    <3>2. r[1] \in Int
      BY <1>1, <2>0
    <3>3. Range(r) = {r[1]}
      BY <1>1, <2>0
    <3> QED
      BY <1>4, <1>empty, <3>1, <3>2, <3>3
  <2>2. o.v = r[1]
    BY <2>1 DEF Ok
  <2>3. LowestWithinLimit(r, r[1])
    BY <2>1, RequirementsAssumption DEF LowestWithinLimit
  <2> QED
    BY <1>1, <1>4, <2>1, <2>2, <2>3
<1>5. CASE n >= min /\ n > 1
  <2>1. o = BlockPick(r) /\ r # <<>> /\ r \in Seq(Int)
    <3>1. n # 0
      BY <1>5
    <3> QED
      BY <1>1, <1>5, <1>res, <1>empty, <3>1
  <2>2. o.v \in Int /\ LowestWithinLimit(r, o.v)
    BY <2>1, BlockPickIsLowest
  <2> QED
    BY <1>1, <1>5, <2>1, <2>2
<1> QED
  BY <1>1, <1>2, <1>3, <1>4, <1>5

(***************************************************************************)
(* A call for the block number gives a value or an error.                  *)
(***************************************************************************)
LEMMA BlockKind ==
  ASSUME NEW min \in Nat, NEW s \in Seq(Answers), NEW o, o = Outcome("block", min, s)
  PROVE  o.kind \in {"ok", "err"}
<1> DEFINE r == Responses(s)
           n == Len(r)
<1>1. \/ o = Err
      \/ \E v : o = Ok(v)
      \/ o = BlockPick(r)
  <2>1. Result(Pick("block", min, r)) = BlockPick(r)
    BY ManyResponses
  <2>2. /\ n \in Nat
        /\ n < min => o = Err
        /\ n >= min /\ n = 0 => o = Ok(0)
        /\ n >= min /\ n = 1 => o = Ok(r[1])
        /\ n >= min /\ n > 1 => o = BlockPick(r)
    BY <2>1, FewResponses
  <2> HIDE DEF n, r
  <2>3. n < min \/ (n >= min /\ n = 0) \/ (n >= min /\ n = 1) \/ (n >= min /\ n > 1)
    <3>1. n \in Nat
      BY <2>2
    <3> QED
      BY <3>1
  <2> QED
    BY <2>2, <2>3
<1> QED
  BY <1>1 DEF Err, Ok, BlockPick

(***************************************************************************)
(* gasValueResolver returns a central value.                               *)
(***************************************************************************)
LEMMA GasOutcome ==
  ASSUME NEW min \in Nat, NEW s \in Seq(Answers), NEW o, o = Outcome("gas", min, s),
         NEW r, r = Responses(s), NEW n, n = Len(r)
  PROVE  o.kind = "ok" => n >= min /\ Central(r, o.v)
<1>1. /\ r \in Seq(Int)
      /\ n \in Nat /\ DOMAIN r = 1..n
      /\ \A i \in 1..n : r[i] \in Int
      /\ Range(r) = {r[i] : i \in 1..n}
  BY AnswersHeard
<1>empty. n = 0 <=> r = <<>>
  BY AnswersHeard
<1>res.
      /\ n < min => o = Err
      /\ n >= min /\ n = 0 => o = Ok(0)
      /\ n >= min /\ n = 1 => o = Ok(r[1])
      /\ n >= min /\ n > 1 => o = GasPick(r)
  <2>1. Result(Pick("gas", min, r)) = GasPick(r)
    BY ManyResponses
  <2> QED
    BY <2>1, FewResponses
<1>2. CASE n < min
  <2>1. o = Err
    BY <1>2, <1>res
  <2> QED
    BY <2>1 DEF Err
<1>3. CASE n >= min /\ n = 0
  <2>1. \A v : {i \in DOMAIN r : r[i] <= v} = {} /\ {i \in DOMAIN r : r[i] >= v} = {}
    BY <1>1, <1>3
  <2>2. Cardinality({}) = 0
    BY FS_EmptySet
  <2>3. Central(r, o.v)
    BY <1>1, <1>3, <2>1, <2>2 DEF Central
  <2> QED
    BY <1>1, <1>3, <2>3
<1>4. CASE n >= min /\ n = 1
  <2>1. o = Ok(r[1]) /\ r[1] \in Int
    <3>1. 1 \in 1..n
      BY <1>4
    <3> QED
      BY <1>1, <1>4, <1>res, <3>1
  <2>2. o.v = r[1]
    BY <2>1 DEF Ok
  <2>3. {i \in DOMAIN r : r[i] <= r[1]} = {1} /\ {i \in DOMAIN r : r[i] >= r[1]} = {1}
    BY <1>1, <1>4, <2>1
  <2>4. Cardinality({1}) = 1
    BY FS_Singleton
  <2>5. Central(r, r[1])
    <3>1. Len(r) = 1
      BY <1>4
    <3>2. /\ Cardinality({i \in DOMAIN r : r[i] <= r[1]}) = 1
          /\ Cardinality({i \in DOMAIN r : r[i] >= r[1]}) = 1
      BY <2>3, <2>4
    <3> QED
      BY <3>1, <3>2 DEF Central
  <2> QED
    BY <1>1, <1>4, <2>2, <2>5
<1>5. CASE n >= min /\ n = 2
  <2> DEFINE v == IF r[1] > r[2] THEN r[2] ELSE r[1]
  <2>1. o = Ok(v)
    <3>1. n > 1 /\ Len(r) = 2
      BY <1>5
    <3>2. o = GasPick(r)
      BY <1>5, <1>res, <3>1
    <3> QED
      BY <3>1, <3>2 DEF GasPick
  <2>2. r[1] \in Int /\ r[2] \in Int /\ v \in Int
    BY <1>1, <1>5
  <2>3. v <= r[1] /\ v <= r[2] /\ (v = r[1] \/ v = r[2])
    BY <2>2
  <2>4. o.v = v
    BY <2>1 DEF Ok
  <2> HIDE DEF v
  <2>5. {i \in DOMAIN r : r[i] >= v} = 1..2
    BY <1>1, <1>5, <2>2, <2>3
  <2>6. Cardinality(1..2) = 2 /\ IsFiniteSet(1..2)
    <3>1. Cardinality(1..n) = n /\ IsFiniteSet(1..n)
      BY <1>1, SizeUpTo
    <3> QED
      BY <1>5, <3>1
  <2>7. Cardinality({i \in DOMAIN r : r[i] <= v}) >= 1
    <3> DEFINE T == {i \in DOMAIN r : r[i] <= v}
    <3>1. T \in SUBSET (1..2) /\ T # {}
      BY <1>1, <1>5, <2>2, <2>3
    <3> HIDE DEF T
    <3>2. IsFiniteSet(T)
      BY <2>6, <3>1, FS_Subset
    <3>3. Cardinality(T) \in Nat /\ Cardinality(T) # 0
      BY <3>1, <3>2, FS_CardinalityType, FS_EmptySet
    <3> QED
      BY <3>3 DEF T
  <2>8. Central(r, v)
    <3>1. Cardinality({i \in DOMAIN r : r[i] >= v}) = 2
      BY <2>5, <2>6
    <3>2. \A i \in 1..2 : v <= r[i]
      BY <2>3
    <3>3. Len(r) = 2
      BY <1>1, <1>5
    <3> DEFINE c == Cardinality({i \in DOMAIN r : r[i] <= v})
    <3>4. 2 * c >= 2
      <4>1. c \in Nat
        <5> DEFINE T == {i \in DOMAIN r : r[i] <= v}
        <5>1. T \in SUBSET (1..2)
          BY <1>1, <1>5
        <5> HIDE DEF T
        <5>2. IsFiniteSet(T)
          BY <2>6, <5>1, FS_Subset
        <5>3. Cardinality(T) \in Nat
          BY <5>2, FS_CardinalityType
        <5> QED
          BY <5>3 DEF T
      <4>2. c >= 1
        BY <2>7
      <4> HIDE DEF c
      <4> QED
        BY <4>1, <4>2
    <3> QED
      BY <3>1, <3>2, <3>3, <3>4 DEF Central
  <2> QED
    BY <1>1, <1>5, <2>4, <2>8
<1>6. CASE n >= min /\ n > 2
  <2>1. o = Ok(Median(r)) /\ r # <<>> /\ r \in Seq(Int)
    <3>1. n > 1 /\ n # 0 /\ Len(r) # 2
      BY <1>6
    <3>2. o = GasPick(r) /\ r # <<>> /\ r \in Seq(Int)
      BY <1>1, <1>6, <1>res, <1>empty, <3>1
    <3> QED
      BY <3>1, <3>2 DEF GasPick
  <2>2. o.v = Median(r)
    BY <2>1 DEF Ok
  <2>3. Central(r, Median(r))
    <3>1. DOMAIN r = 1..Len(r) /\ Len(r) # 2
      <4>1. n # 2
        BY <1>6
      <4> QED
        BY <1>1, <4>1
    <3>2. /\ 2 * Cardinality({i \in 1..Len(r) : r[i] <= Median(r)}) >= Len(r)
          /\ 2 * Cardinality({i \in 1..Len(r) : r[i] >= Median(r)}) >= Len(r)
      BY <2>1, MedianIsCentral
    <3> QED
      BY <3>1, <3>2 DEF Central
  <2> QED
    BY <1>1, <1>6, <2>2, <2>3
<1> QED
  BY <1>1, <1>2, <1>3, <1>4, <1>5, <1>6

-----------------------------------------------------------------------------
\* Of the goroutines of a call, each waits for its endpoint, has its answer
\* in the channel, or had it received.
Accounting ==
  /\ pend \in Nat
  /\ ch \in Seq(Answers)
  /\ rs \in Seq(Answers)
  /\ Len(rs) + Len(ch) + pend <= N

\* What a call that has returned leaves behind.
Leftover == [pend : Nat, room : Int]

\* A call that has returned left room for the goroutines it left behind.
LateRoom ==
  /\ late \in Seq(Leftover)
  /\ \A i \in DOMAIN late : late[i].pend <= late[i].room

IInv == Accounting /\ LateRoom

-----------------------------------------------------------------------------
(***************************************************************************)
(* When a call returns, the goroutines it leaves behind find room.         *)
(***************************************************************************)
LEMMA ReturnKeeps ==
  ASSUME LateRoom, NEW res, NEW answers, CallReturns(res, answers),
         pend \in Nat, ch' \in Seq(Answers), pend + Len(ch') <= N
  PROVE  LateRoom'
<1>1. CASE UNCHANGED late
  BY <1>1 DEF LateRoom
<1>2. CASE late' = Append(late, [pend |-> pend, room |-> Capacity - Len(ch')])
  <2> DEFINE r == [pend |-> pend, room |-> Capacity - Len(ch')]
  <2>1. r \in Leftover /\ r.pend <= r.room
    BY EndpointsAssumption DEF Capacity, Leftover
  <2>2. late' = Append(late, r)
    BY <1>2
  <2> HIDE DEF r
  <2>3. late' \in Seq(Leftover)
    BY <2>1, <2>2 DEF LateRoom
  <2>4. \A i \in DOMAIN late' : late'[i] = r \/ (i \in DOMAIN late /\ late'[i] = late[i])
    BY <2>1, <2>2 DEF LateRoom
  <2> QED
    BY <2>1, <2>3, <2>4 DEF LateRoom
<1> QED
  BY <1>1, <1>2 DEF CallReturns

(***************************************************************************)
(* The same for the end of call's loop.                                    *)
(***************************************************************************)
LEMMA ResolvedKeeps ==
  ASSUME LateRoom, NEW answers, Resolved(answers),
         pend \in Nat, ch' \in Seq(Answers), pend + Len(ch') <= N
  PROVE  LateRoom'
<1>1. CASE CallReturns(resolve(kind, minRes, answers), answers)
  BY <1>1, ReturnKeeps
<1>2. CASE UNCHANGED <<pc, argVars, ctxDone, late, out>>
  BY <1>2 DEF LateRoom
<1> QED
  BY <1>1, <1>2 DEF Resolved

(***************************************************************************)
(* IInv holds initially.                                                   *)
(***************************************************************************)
LEMMA InitIInv == Init => IInv
<1> SUFFICES ASSUME Init PROVE IInv
  OBVIOUS
<1>1. Accounting
  BY EndpointsAssumption DEF Init, Accounting
<1>2. LateRoom
  BY DEF Init, LateRoom
<1> QED
  BY <1>1, <1>2 DEF IInv

(***************************************************************************)
(* Every step of the request, an endpoint or a timer keeps IInv.           *)
(***************************************************************************)
LEMMA NextIInv == IInv /\ [Next]_vars => IInv'
<1> SUFFICES ASSUME IInv, [Next]_vars PROVE IInv'
  OBVIOUS
<1> USE DEF IInv
<1>1. CASE PassOn \/ RefuseEarliest
  BY <1>1 DEF PassOn, RefuseEarliest, Accounting, LateRoom
<1>2. ASSUME NEW k, BeginCall(k), UNCHANGED late
      PROVE  IInv'
  BY <1>2, EndpointsAssumption DEF BeginCall, Accounting, LateRoom
<1>3. CASE AskBlockNumber \/ AskEndpoints
  BY <1>2, <1>3 DEF AskBlockNumber, AskEndpoints
<1>4. CASE Receive
  <2>1. Accounting'
    <3>1. Head(ch) \in Answers /\ Len(ch) > 0
      BY <1>4 DEF Receive, Accounting
    <3>2. rs' \in Seq(Answers) /\ Len(rs') = Len(rs) + 1
      BY <1>4, <3>1 DEF Receive, Accounting
    <3>3. ch' \in Seq(Answers) /\ Len(ch') = Len(ch) - 1
      BY <1>4, <3>1 DEF Receive, Accounting
    <3> QED
      BY <1>4, <3>2, <3>3, EndpointsAssumption DEF Receive, Accounting
  <2>2. pend \in Nat /\ ch' \in Seq(Answers) /\ pend + Len(ch') <= N
    BY <1>4, <2>1, EndpointsAssumption DEF Receive, Accounting
  <2>3. CASE Resolved(rs')
    BY <2>1, <2>2, <2>3, ResolvedKeeps
  <2>4. CASE UNCHANGED <<pc, argVars, ctxDone, late, out>>
    BY <2>1, <2>4 DEF LateRoom
  <2> QED
    BY <1>4, <2>3, <2>4 DEF Receive
<1>5. CASE GracefulTimeout
  <2>1. Accounting'
    BY <1>5 DEF GracefulTimeout, Accounting
  <2>2. pend \in Nat /\ ch' \in Seq(Answers) /\ pend + Len(ch') <= N
    BY <1>5, EndpointsAssumption DEF GracefulTimeout, Accounting
  <2>3. Resolved(rs)
    BY <1>5 DEF GracefulTimeout
  <2> QED
    BY <2>1, <2>2, <2>3, ResolvedKeeps
<1>6. ASSUME NEW r \in Answers, Answer(r)
      PROVE  IInv'
  <2>1. ch' \in Seq(Answers) /\ Len(ch') = Len(ch) + 1
    BY <1>6 DEF Answer, Accounting
  <2>2. Accounting'
    BY <1>6, <2>1, EndpointsAssumption DEF Answer, Accounting
  <2> QED
    BY <1>6, <2>2 DEF Answer, LateRoom
<1>7. ASSUME NEW i \in DOMAIN late, LateAnswer(i)
      PROVE  IInv'
  <2>1. late[i].pend \in Nat /\ late[i].room \in Int
    <3>1. late[i] \in Leftover
      BY <1>7 DEF LateRoom
    <3> QED
      BY <3>1 DEF Leftover
  <2> DEFINE r == [pend |-> late[i].pend - 1, room |-> late[i].room - 1]
  <2>2. r \in Leftover /\ r.pend <= r.room
    <3>1. late[i].pend > 0
      BY <1>7 DEF LateAnswer
    <3>2. late[i].pend <= late[i].room
      BY <1>7 DEF LateRoom
    <3>3. late[i].pend - 1 \in Nat /\ late[i].room - 1 \in Int
      BY <2>1, <3>1
    <3>4. late[i].pend - 1 <= late[i].room - 1
      BY <2>1, <3>2
    <3> QED
      BY <3>3, <3>4 DEF Leftover
  <2>3. late' = [late EXCEPT ![i] = r]
    BY <1>7 DEF LateAnswer
  <2> HIDE DEF r
  <2>4. LateRoom'
    BY <2>2, <2>3 DEF LateRoom
  <2> QED
    BY <1>7, <2>4 DEF LateAnswer, Accounting
<1>8. CASE TimerFires \/ TotalTimeout \/ UNCHANGED vars
  BY <1>8 DEF TimerFires, TotalTimeout, vars, argVars, Accounting, LateRoom
<1> QED
  BY <1>1, <1>3, <1>4, <1>5, <1>6, <1>7, <1>8 DEF Next, Request, Answers

(***************************************************************************)
(* The inductive invariant holds throughout.                               *)
(***************************************************************************)
THEOREM Inductive == Spec => []IInv
BY InitIInv, NextIInv, PTL DEF Spec

(***************************************************************************)
(* A goroutine of server.call always finds room for its answer, also when  *)
(* the call has returned without it.                                       *)
(***************************************************************************)
THEOREM SendersNeverBlock == Spec => []NoSenderBlocks
<1>1. IInv => NoSenderBlocks
  BY EndpointsAssumption DEF IInv, Accounting, LateRoom, NoSenderBlocks, Capacity
<1> QED
  BY <1>1, Inductive, PTL

-----------------------------------------------------------------------------
\* One of the numbers it was resolved from, if it is a tag, and not more
\* than MaxBlocksBehind below any of them.
NearOnes(b, from) ==
  IsTag(b) => b \in from /\ \A v \in from : v - b <= MaxBlocksBehind

\* The block arguments are integers, a resolved one that is a tag is near
\* the numbers it was resolved from; a call before the last one asks for the
\* block number.
Resolution ==
  /\ minRes \in Minimums
  /\ args \in Seq(Int)
  /\ basis \in Seq(SUBSET Int)
  /\ Len(basis) = Len(args)
  /\ todo \in Seq(Int)
  /\ N > 1 => \A i \in DOMAIN args : NearOnes(args[i], basis[i])
  /\ pc = "select" /\ todo # <<>> => kind = "block"

(***************************************************************************)
(* Moving a number from the arguments to do to the resolved ones keeps     *)
(* Resolution.                                                             *)
(***************************************************************************)
LEMMA AppendNumber ==
  ASSUME Resolution, minRes' = minRes, todo # <<>>,
         NEW b \in Int, NEW from \in SUBSET Int, N > 1 => NearOnes(b, from),
         args' = Append(args, b), basis' = Append(basis, from),
         todo' = Tail(todo), pc' = "args"
  PROVE  Resolution'
<1>1. args' \in Seq(Int) /\ basis' \in Seq(SUBSET Int) /\ todo' \in Seq(Int)
  BY DEF Resolution
<1>2. Len(basis') = Len(args')
  BY DEF Resolution
<1>3. ASSUME NEW i \in DOMAIN args'
      PROVE  \/ args'[i] = b /\ basis'[i] = from
             \/ i \in DOMAIN args /\ args'[i] = args[i] /\ basis'[i] = basis[i]
  <2> DEFINE n == Len(args)
  <2>1. n \in Nat /\ DOMAIN args = 1..n /\ DOMAIN basis = 1..n /\ Len(basis) = n
    BY DEF Resolution
  <2>2. i \in 1..n \/ i = n + 1
    BY <2>1, <1>3 DEF Resolution
  <2>3. CASE i = n + 1
    <3>1. args \in Seq(Int) /\ basis \in Seq(SUBSET Int)
      BY DEF Resolution
    <3>2. Append(args, b)[n + 1] = b
      BY <3>1
    <3>3. Append(basis, from)[n + 1] = from
      BY <2>1, <3>1
    <3> QED
      BY <2>3, <3>2, <3>3
  <2>4. CASE i \in 1..n
    BY <2>1, <2>4 DEF Resolution
  <2> QED
    BY <2>2, <2>3, <2>4
<1>4. N > 1 => \A i \in DOMAIN args' : NearOnes(args'[i], basis'[i])
  BY <1>3 DEF Resolution
<1> QED
  BY <1>1, <1>2, <1>4 DEF Resolution

(***************************************************************************)
(* The number taggedBlockToNumber gets from several answers is near all of *)
(* them, if it is negative.                                                *)
(***************************************************************************)
LEMMA BlockIsNear ==
  ASSUME NEW min \in Nat, NEW s \in Seq(Answers), NEW o, o = Outcome("block", min, s),
         o.kind # "err"
  PROVE  /\ o.v \in Int
         /\ Range(Responses(s)) \in SUBSET Int
         /\ NearOnes(o.v, Range(Responses(s)))
<1> DEFINE r == Responses(s)
<1>1. Range(r) \in SUBSET Int
  <2> DEFINE n == Len(r)
  <2>1. Range(r) = {r[i] : i \in 1..n} /\ \A i \in 1..n : r[i] \in Int
    BY AnswersHeard
  <2> HIDE DEF r, n
  <2> QED
    BY <2>1
<1>2. o.v \in Int
  BY BlockOutcome
<1>3. o.kind \in {"ok", "err"}
  BY BlockKind
<1>4. IF r = <<>> THEN o.v = 0 ELSE LowestWithinLimit(r, o.v)
  BY <1>3, BlockOutcome
<1> HIDE DEF r
<1>5. CASE r = <<>>
  <2>1. ~IsTag(o.v)
    BY <1>4, <1>5 DEF IsTag
  <2> QED
    BY <1>1, <1>2, <2>1 DEF NearOnes, r
<1>6. CASE r # <<>>
  <2>1. o.v \in Range(r) /\ \A m \in Range(r) : m - o.v <= MaxBlocksBehind
    BY <1>4, <1>6 DEF LowestWithinLimit
  <2> QED
    BY <1>1, <1>2, <2>1 DEF NearOnes, r
<1> QED
  BY <1>5, <1>6

(***************************************************************************)
(* The end of call's loop keeps Resolution.                                *)
(***************************************************************************)
LEMMA ResolvedResolution ==
  ASSUME Resolution, minRes' = minRes, pc = "select", kind' = kind,
         NEW answers \in Seq(Answers), Resolved(answers)
  PROVE  Resolution'
<1>1. CASE UNCHANGED <<pc, argVars, ctxDone, late, out>>
  BY <1>1 DEF Resolution, argVars
<1>2. CASE CallReturns(resolve(kind, minRes, answers), answers)
  <2> DEFINE o == Result(resolve(kind, minRes, answers))
  <2>1. CASE Return(o) /\ UNCHANGED <<argVars, late>>
    BY <2>1 DEF Return, Resolution, argVars
  <2>2. CASE /\ todo # <<>>
             /\ o.kind # "err"
             /\ args' = Append(args, o.v)
             /\ basis' = Append(basis, Range(Responses(answers)))
             /\ todo' = Tail(todo)
             /\ pc' = "args"
    <3>1. kind = "block" /\ minRes \in Nat
      BY <2>2, EndpointsAssumption DEF Resolution
    <3>2. o = Outcome("block", minRes, answers)
      BY <3>1 DEF Outcome
    <3> HIDE DEF o
    <3>3. /\ o.v \in Int
          /\ Range(Responses(answers)) \in SUBSET Int
          /\ NearOnes(o.v, Range(Responses(answers)))
      BY <2>2, <3>1, <3>2, BlockIsNear
    <3> QED
      BY <2>2, <3>3, AppendNumber
  <2> QED
    BY <1>2, <2>1, <2>2 DEF CallReturns
<1> QED
  BY <1>1, <1>2 DEF Resolved

(***************************************************************************)
(* taggedBlockToNumber keeps the client's tags from several endpoints,     *)
(* whatever tags the client mixes and whichever endpoints answer in time:  *)
(* only an endpoint's own negative number can come through, and only if it *)
(* is near all the numbers heard.                                          *)
(***************************************************************************)
THEOREM TagsAreResolved == Spec => []NoTagReachesEndpoints
<1>1. Init => Resolution
  <2> SUFFICES ASSUME Init PROVE Resolution
    OBVIOUS
  <2>1. PICK n \in Methods[method].least .. Methods[method].most :
          todo \in [1..n -> BlockIDs]
    BY DEF Init
  <2>2. BlockIDs \subseteq Int /\ n \in Int
    BY EndpointsAssumption DEF BlockIDs, Earliest, Latest, Pending
  <2>3. todo \in Seq(Int)
    <3>1. CASE n \in Nat
      <4>1. todo \in [1..n -> Int]
        BY <2>1, <2>2
      <4> QED
        BY <3>1, <4>1
    <3>2. CASE n \notin Nat
      <4>1. 1..n = 1..0
        BY <2>2, <3>2
      <4> QED
        BY <2>1, <2>2, <4>1
    <3> QED
      BY <3>1, <3>2
  <2> QED
    BY <2>3 DEF Init, argVars, Resolution
<1>2. IInv /\ Resolution /\ [Next]_vars => Resolution'
  <2> SUFFICES ASSUME IInv, Resolution, [Next]_vars PROVE Resolution'
    OBVIOUS
  <2>1. CASE PassOn
    <3>1. Head(todo) \in Int
      BY <2>1 DEF PassOn, argVars, Resolution
    <3>2. N > 1 => NearOnes(Head(todo), {})
      BY <2>1, <3>1, EndpointsAssumption DEF PassOn, NearOnes
    <3>3. {} \in SUBSET Int
      OBVIOUS
    <3> QED
      BY <2>1, <3>1, <3>2, <3>3, AppendNumber DEF PassOn
  <2>2. CASE RefuseEarliest
    BY <2>2 DEF RefuseEarliest, Return, argVars, Resolution
  <2>3. CASE AskBlockNumber
    BY <2>3 DEF AskBlockNumber, BeginCall, argVars, Resolution
  <2>4. CASE AskEndpoints
    BY <2>4 DEF AskEndpoints, BeginCall, argVars, Resolution
  <2>5. CASE Receive
    <3>1. rs' \in Seq(Answers)
      BY <2>5 DEF Receive, IInv, Accounting
    <3>2. CASE Resolved(rs')
      BY <2>5, <3>1, <3>2, ResolvedResolution DEF Receive
    <3>3. CASE UNCHANGED <<pc, argVars, ctxDone, late, out>>
      BY <2>5, <3>3 DEF Receive, argVars, Resolution
    <3> QED
      BY <2>5, <3>2, <3>3 DEF Receive
  <2>6. CASE GracefulTimeout
    BY <2>6, ResolvedResolution DEF GracefulTimeout, IInv, Accounting
  <2>7. ASSUME NEW r \in Answers, Answer(r)
        PROVE  Resolution'
    BY <2>7 DEF Answer, argVars, Resolution
  <2>8. ASSUME NEW i \in DOMAIN late, LateAnswer(i)
        PROVE  Resolution'
    BY <2>8 DEF LateAnswer, argVars, Resolution
  <2>9. CASE TimerFires \/ TotalTimeout \/ UNCHANGED vars
    BY <2>9 DEF TimerFires, TotalTimeout, vars, argVars, Resolution
  <2> QED
    BY <2>1, <2>2, <2>3, <2>4, <2>5, <2>6, <2>7, <2>8, <2>9
    DEF Next, Request, Answers
<1>3. Resolution => NoTagReachesEndpoints
  BY DEF Resolution, NoTagReachesEndpoints, NearOnes
<1> QED
  BY <1>1, <1>2, <1>3, Inductive, PTL DEF Spec

-----------------------------------------------------------------------------
\* A request that has ended with the method's own call returned what the
\* resolver makes of the answers received, an error only of all answers.
Concluded ==
  pc = "done" /\ todo = <<>> =>
    /\ out = Outcome(kind, minRes, rs)
    /\ out.kind # "err" \/ Len(rs) >= N

(***************************************************************************)
(* The end of call's loop keeps Concluded.                                 *)
(***************************************************************************)
LEMMA ResolvedConcludes ==
  ASSUME pc = "select", kind' = kind, minRes' = minRes, Resolved(rs')
  PROVE  Concluded'
<1>1. CASE UNCHANGED <<pc, argVars, ctxDone, late, out>>
  BY <1>1 DEF argVars, Concluded
<1>2. CASE /\ CallReturns(resolve(kind, minRes, rs'), rs')
           /\ resolve(kind, minRes, rs').kind # "err" \/ Len(rs') >= N
  <2> DEFINE o == Outcome(kind, minRes, rs')
  <2>1. o = Result(resolve(kind, minRes, rs'))
    BY DEF Outcome
  <2>2. o.kind # "err" \/ Len(rs') >= N
    BY <1>2, <2>1 DEF Result, Ok
  <2>3. \/ Return(o) /\ UNCHANGED todo
        \/ pc' = "args"
    BY <1>2, <2>1 DEF CallReturns, argVars
  <2>4. o = Outcome(kind', minRes', rs')
    OBVIOUS
  <2> HIDE DEF o
  <2> QED
    BY <2>2, <2>3, <2>4 DEF Return, Concluded
<1> QED
  BY <1>1, <1>2 DEF Resolved

(***************************************************************************)
(* Nothing changes the answers, or what was made of them, after the end.   *)
(***************************************************************************)
THEOREM RequestConcludes == Spec => []Concluded
<1>1. Init => Concluded
  BY DEF Init, Concluded
<1>2. Concluded /\ [Next]_vars => Concluded'
  <2> SUFFICES ASSUME Concluded, [Next]_vars PROVE Concluded'
    OBVIOUS
  <2>1. CASE PassOn \/ RefuseEarliest
    BY <2>1 DEF PassOn, RefuseEarliest, Return, argVars, Concluded
  <2>2. CASE AskBlockNumber \/ AskEndpoints
    BY <2>2 DEF AskBlockNumber, AskEndpoints, BeginCall, argVars, Concluded
  <2>3. CASE Receive
    <3>1. CASE Resolved(rs')
      BY <2>3, <3>1, ResolvedConcludes DEF Receive
    <3>2. CASE UNCHANGED <<pc, argVars, ctxDone, late, out>>
      BY <2>3, <3>2 DEF Receive, argVars, Concluded
    <3> QED
      BY <2>3, <3>1, <3>2 DEF Receive
  <2>4. CASE GracefulTimeout
    <3>1. rs' = rs /\ Resolved(rs)
      BY <2>4 DEF GracefulTimeout
    <3>2. Resolved(rs')
      BY <3>1
    <3> QED
      BY <2>4, <3>2, ResolvedConcludes DEF GracefulTimeout
  <2>5. ASSUME NEW r \in Answers, Answer(r)
        PROVE  Concluded'
    BY <2>5 DEF Answer, argVars, Concluded
  <2>6. ASSUME NEW i \in DOMAIN late, LateAnswer(i)
        PROVE  Concluded'
    BY <2>6 DEF LateAnswer, argVars, Concluded
  <2>7. CASE TimerFires \/ TotalTimeout \/ UNCHANGED vars
    BY <2>7 DEF TimerFires, TotalTimeout, vars, argVars, Concluded
  <2> QED
    BY <2>1, <2>2, <2>3, <2>4, <2>5, <2>6, <2>7 DEF Next, Request, Answers
<1> QED
  BY <1>1, <1>2, PTL DEF Spec

\* minResponses is a number.
Required == minRes \in Nat

(***************************************************************************)
(* What holds of a request in every state, for the theorems below.         *)
(***************************************************************************)
THEOREM RequestInvariant == Spec => [](IInv /\ Concluded /\ Required)
<1>1. Init => Required
  BY EndpointsAssumption DEF Init, Required
<1>2. Required /\ [Next]_vars => Required'
  BY DEF Next, Request, PassOn, RefuseEarliest, AskBlockNumber, AskEndpoints, Receive,
         GracefulTimeout, Answer, LateAnswer, TimerFires, TotalTimeout, vars, argVars, Required
<1> QED
  BY <1>1, <1>2, Inductive, RequestConcludes, PTL DEF Spec

(***************************************************************************)
(* A method with the default resolver returns the response that prevails   *)
(* among the answers received, an error only of all answers if none does.  *)
(***************************************************************************)
THEOREM DefaultIsMostCommon == Spec => []MostCommonWins
<1>1. IInv /\ Concluded /\ Required => MostCommonWins
  <2> SUFFICES ASSUME IInv, Concluded, minRes \in Nat, Answered("default")
               PROVE  IF out.kind = "ok"
                      THEN Prevails(minRes, rs, out.v)
                      ELSE /\ Len(rs) = N
                           /\ \A v \in Values : Count(rs, v) > 0 => ~Prevails(minRes, rs, v)
    BY DEF MostCommonWins, Required
  <2>1. rs \in Seq(Answers) /\ Len(rs) \in Nat /\ Len(rs) <= N
    BY EndpointsAssumption DEF IInv, Accounting
  <2>2. /\ out = Outcome("default", minRes, rs)
        /\ out.kind # "err" \/ Len(rs) >= N
    BY DEF Answered, Concluded
  <2>3. \/ out.kind = "ok" /\ Prevails(minRes, rs, out.v)
        \/ /\ out.kind = "err"
           /\ \A v \in Values : Count(rs, v) > 0 => ~Prevails(minRes, rs, v)
    BY <2>1, <2>2, DefaultOutcome
  <2> QED
    BY <2>1, <2>2, <2>3, EndpointsAssumption
<1> QED
  BY <1>1, RequestInvariant, PTL

(***************************************************************************)
(* With more than half of the endpoints required, no answer that is still  *)
(* to come could have made another response the one that is returned.      *)
(***************************************************************************)
THEOREM MajorityCannotBeOverturned == Spec => []MajorityIsFinal
<1>1. IInv /\ Required /\ MostCommonWins => MajorityIsFinal
  <2> SUFFICES ASSUME IInv, minRes \in Nat, MostCommonWins, Answered("default"),
                      out.kind = "ok", 2 * minRes > N, NEW v \in Values \ {out.v}
               PROVE  Count(rs, v) + Count(ch, v) + pend < minRes
    BY DEF MajorityIsFinal, Required
  <2> DEFINE a == Len(rs)
             b == Len(ch)
  <2>1. /\ a \in Nat /\ DOMAIN rs = 1..a
        /\ b \in Nat /\ DOMAIN ch = 1..b
        /\ pend \in Nat /\ a + b + pend <= N
    BY DEF IInv, Accounting
  <2> HIDE DEF a, b
  <2>2. Count(rs, out.v) >= minRes
    BY DEF MostCommonWins, Prevails
  <2>3. Count(rs, v) + Count(rs, out.v) <= a
    BY <2>1, CountTwo
  <2>4. Count(rs, v) \in 0..a /\ Count(rs, out.v) \in 0..a
    BY <2>1, CountBounds
  <2>5. Count(ch, v) \in 0..b
    BY <2>1, CountBounds
  <2> QED
    BY <2>1, <2>2, <2>3, <2>4, <2>5, EndpointsAssumption
<1> QED
  BY <1>1, RequestInvariant, DefaultIsMostCommon, PTL

(***************************************************************************)
(* The gas methods return a central value of enough responses.             *)
(***************************************************************************)
THEOREM GasValueIsCentral == Spec => []GasIsCentral
<1>1. IInv /\ Concluded /\ Required => GasIsCentral
  <2> SUFFICES ASSUME IInv, Concluded, minRes \in Nat, Answered("gas"), out.kind = "ok"
               PROVE  Len(Responses(rs)) >= minRes /\ Central(Responses(rs), out.v)
    BY DEF GasIsCentral, Required
  <2>1. rs \in Seq(Answers)
    BY DEF IInv, Accounting
  <2>2. out = Outcome("gas", minRes, rs)
    BY DEF Answered, Concluded
  <2> QED
    BY <2>1, <2>2, GasOutcome
<1> QED
  BY <1>1, RequestInvariant, PTL

(***************************************************************************)
(* eth_blockNumber returns the lowest number near the highest of enough    *)
(* responses.                                                              *)
(***************************************************************************)
THEOREM BlockNumberIsLowestNear == Spec => []BlockIsLowestNear
<1>1. IInv /\ Concluded /\ Required => BlockIsLowestNear
  <2> SUFFICES ASSUME IInv, Concluded, minRes \in Nat, Answered("block"), out.kind = "ok"
               PROVE  /\ Len(Responses(rs)) >= minRes
                      /\ IF Responses(rs) = <<>> THEN out.v = 0
                         ELSE LowestWithinLimit(Responses(rs), out.v)
    BY DEF BlockIsLowestNear, Required
  <2>1. rs \in Seq(Answers)
    BY DEF IInv, Accounting
  <2>2. out = Outcome("block", minRes, rs)
    BY DEF Answered, Concluded
  <2> QED
    BY <2>1, <2>2, BlockOutcome
<1> QED
  BY <1>1, RequestInvariant, PTL
=============================================================================
