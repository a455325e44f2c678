----------------------------- MODULE FoldLemmas -----------------------------
(***************************************************************************)
(* Induction over the naturals, stated with sets in place of predicates,   *)
(* and what it takes to reason about a fold over a sequence: the function  *)
(* that FoldLeft chooses exists.  The loops of the code are modelled by    *)
(* folds, so the proofs about them rest on these lemmas.                   *)
(***************************************************************************)
EXTENDS Integers, Sequences, FiniteSets, SequencesExt,
        FiniteSetTheorems, WellFoundedInduction, TLAPS

(***************************************************************************)
(* A set of numbers that is not empty has a least element.                 *)
(***************************************************************************)
LEMMA LeastNat ==
  ASSUME NEW T, T \subseteq Nat, T # {}
  PROVE  \E x \in T : \A y \in T : x <= y
<1>1. IsWellFoundedOn(OpToRel(<, Nat), Nat)
  BY NatLessThanWellFounded
<1>2. PICK x \in T : \A y \in T : ~ (<<y, x>> \in OpToRel(<, Nat))
  BY <1>1, WFMin
<1>3. \A y \in T : ~(y < x)
  BY <1>2 DEF OpToRel
<1> QED
  BY <1>3

(***************************************************************************)
(* Induction: what holds for 0, and for k whenever it holds for k - 1,     *)
(* holds for n.                                                            *)
(***************************************************************************)
LEMMA UpTo ==
  ASSUME NEW n \in Nat, NEW S, 0 \in S, \A k \in 1..n : (k - 1) \in S => k \in S
  PROVE  n \in S
<1> DEFINE T == {k \in 0..n : k \notin S}
<1> SUFFICES ASSUME n \notin S PROVE FALSE
  OBVIOUS
<1>0. T # {}
  OBVIOUS
<1>1. PICK x \in T : \A y \in T : x <= y
  <2>1. T \subseteq Nat
    OBVIOUS
  <2> HIDE DEF T
  <2> QED
    BY <1>0, <2>1, LeastNat
<1>2. x \in 1..n
  BY <1>1
<1>3. x - 1 \in 0..n /\ x - 1 \notin T
  BY <1>1, <1>2
<1> QED
  BY <1>1, <1>2, <1>3

(***************************************************************************)
(* A set of indexes that is not empty has a greatest element, Max(s).      *)
(***************************************************************************)
LEMMA MaxIn ==
  ASSUME NEW n \in Nat, NEW s \in SUBSET (1..n), s # {}
  PROVE  Max(s) \in s /\ \A y \in s : y <= Max(s)
<1> DEFINE T == {t \in Nat : \E x \in s : t = n - x}
<1>1. T \subseteq Nat /\ T # {}
  <2>1. PICK x \in s : TRUE
    OBVIOUS
  <2>2. n - x \in Nat
    OBVIOUS
  <2> QED
    BY <2>2
<1>2. PICK t \in T : \A y \in T : t <= y
  <2> HIDE DEF T
  <2> QED
    BY <1>1, LeastNat
<1>3. PICK x \in s : t = n - x
  BY <1>2
<1>4. ASSUME NEW y \in s PROVE x >= y
  <2>1. x \in 1..n /\ y \in 1..n /\ n - y \in T
    OBVIOUS
  <2>2. n - x <= n - y
    BY <1>2, <1>3, <2>1
  <2> QED
    BY <2>1, <2>2
<1> QED
  BY <1>4 DEF Max

(***************************************************************************)
(* A set of numbers that is not empty has a least element, Min(s).         *)
(***************************************************************************)
LEMMA MinIn ==
  ASSUME NEW s, s \subseteq Nat, s # {}
  PROVE  Min(s) \in s /\ \A y \in s : Min(s) <= y
BY LeastNat DEF Min

(***************************************************************************)
(* The greatest index of 1..k is k, and the others are 1..(k - 1).         *)
(***************************************************************************)
LEMMA MaxUpTo ==
  ASSUME NEW k \in Nat \ {0}
  PROVE  Max(1..k) = k /\ (1..k) \ {k} = 1..(k - 1) /\ 1..k # {}
<1>1. k \in 1..k /\ \A y \in 1..k : k >= y
  OBVIOUS
<1>2. \A x \in 1..k : (\A y \in 1..k : x >= y) => x = k
  OBVIOUS
<1>3. Max(1..k) = k
  BY <1>1, <1>2 DEF Max
<1>4. (1..k) \ {k} = 1..(k - 1)
  OBVIOUS
<1> QED
  BY <1>1, <1>3, <1>4

-----------------------------------------------------------------------------
\* it computes a fold for every set of indexes, the greatest index last.
Iterates(A, base, step, n, it) ==
  /\ it \in [SUBSET (1..n) -> A]
  /\ it[{}] = base
  /\ \A s \in SUBSET (1..n) : s # {} => it[s] = step[<<Max(s), it[s \ {Max(s)}]>>]

(***************************************************************************)
(* Such a function exists, whatever the step; it is built index by index.  *)
(***************************************************************************)
LEMMA FoldExists ==
  ASSUME NEW A, NEW base \in A, NEW n \in Nat, NEW step \in [(1..n) \X A -> A]
  PROVE  \E it : Iterates(A, base, step, n, it)
<1> DEFINE S == {k \in 0..n : \E it : Iterates(A, base, step, k, it)}
<1>1. 0 \in S
  <2> DEFINE it == [s \in SUBSET (1..0) |-> base]
  <2>1. \A s \in SUBSET (1..0) : s = {}
    OBVIOUS
  <2>2. it \in [SUBSET (1..0) -> A] /\ it[{}] = base
    OBVIOUS
  <2> HIDE DEF it
  <2>3. Iterates(A, base, step, 0, it)
    BY <2>1, <2>2 DEF Iterates
  <2> QED
    BY <2>3
<1>2. ASSUME NEW k \in 1..n, k - 1 \in S
      PROVE  k \in S
  <2>1. PICK f : Iterates(A, base, step, k - 1, f)
    BY <1>2
  <2> DEFINE it == [s \in SUBSET (1..k) |->
                      IF k \in s THEN step[<<k, f[s \ {k}]>>] ELSE f[s]]
  <2>2. \A s \in SUBSET (1..k) : /\ s \ {k} \in SUBSET (1..(k - 1))
                                 /\ k \notin s => s \in SUBSET (1..(k - 1))
    OBVIOUS
  <2>3. it \in [SUBSET (1..k) -> A]
    BY <2>1, <2>2 DEF Iterates
  <2>4. ASSUME NEW s \in SUBSET (1..k), s # {}
        PROVE  it[s] = step[<<Max(s), it[s \ {Max(s)}]>>]
    <3>1. CASE k \in s
      <4>1. Max(s) = k
        <5>1. k \in Nat
          OBVIOUS
        <5>2. Max(s) \in s /\ \A y \in s : y <= Max(s)
          BY <2>4, <5>1, MaxIn
        <5>3. Max(s) \in 1..k /\ k <= Max(s)
          BY <3>1, <5>2
        <5> QED
          BY <5>3
      <4>2. it[s \ {k}] = f[s \ {k}]
        BY <2>2
      <4> QED
        BY <3>1, <4>1, <4>2
    <3>2. CASE k \notin s
      <4>1. s \in SUBSET (1..(k - 1)) /\ s \ {Max(s)} \in SUBSET (1..(k - 1))
        BY <2>2, <3>2
      <4>2. f[s] = step[<<Max(s), f[s \ {Max(s)}]>>]
        BY <2>1, <2>4, <4>1 DEF Iterates
      <4>3. it[s] = f[s] /\ it[s \ {Max(s)}] = f[s \ {Max(s)}]
        BY <3>2, <4>1
      <4> HIDE DEF it
      <4> QED
        BY <4>2, <4>3
    <3> QED
      BY <3>1, <3>2
  <2>5. it[{}] = base
    BY <2>1 DEF Iterates
  <2> HIDE DEF it
  <2>6. Iterates(A, base, step, k, it)
    BY <2>3, <2>4, <2>5 DEF Iterates
  <2> QED
    BY <2>6
<1>3. n \in S
  <2> HIDE DEF S
  <2> QED
    BY <1>1, <1>2, UpTo
<1> QED
  BY <1>3

\* f computes a loop over 1..n: f[k] is what it has after k turns.
Accumulates(A, base, step, n, f) ==
  /\ f \in [0..n -> A]
  /\ f[0] = base
  /\ \A k \in 1..n : f[k] = step[<<k, f[k - 1]>>]

(***************************************************************************)
(* A function computed index by index exists, whatever the step.           *)
(***************************************************************************)
LEMMA AccumulatesExists ==
  ASSUME NEW A, NEW base \in A, NEW n \in Nat, NEW step \in [(1..n) \X A -> A]
  PROVE  \E f : Accumulates(A, base, step, n, f)
<1>1. PICK it : Iterates(A, base, step, n, it)
  BY FoldExists
<1> DEFINE f == [k \in 0..n |-> it[1..k]]
<1>2. \A k \in 0..n : 1..k \in SUBSET (1..n) /\ (k = 0 => 1..k = {})
  OBVIOUS
<1>3. f \in [0..n -> A] /\ f[0] = base
  BY <1>1, <1>2 DEF Iterates
<1>4. ASSUME NEW k \in 1..n
      PROVE  f[k] = step[<<k, f[k - 1]>>]
  <2>1. Max(1..k) = k /\ (1..k) \ {k} = 1..(k - 1) /\ 1..k # {}
    <3>1. k \in Nat \ {0}
      OBVIOUS
    <3> QED
      BY <3>1, MaxUpTo
  <2>2. 1..k \in SUBSET (1..n) /\ k \in 0..n /\ k - 1 \in 0..n
    BY <1>2
  <2>3. it[1..k] = step[<<Max(1..k), it[(1..k) \ {Max(1..k)}]>>]
    BY <1>1, <2>1, <2>2 DEF Iterates
  <2>4. it[1..k] = step[<<k, it[1..(k - 1)]>>]
    BY <2>1, <2>3
  <2> QED
    BY <2>2, <2>4
<1> HIDE DEF f
<1>5. Accumulates(A, base, step, n, f)
  BY <1>3, <1>4 DEF Accumulates
<1> QED
  BY <1>5

\* body gives the value at p of a function on 1..N from its values after p.
LooksAhead(V, N, body) ==
  /\ body \in [(1..N) \X [1..N -> V] -> V]
  /\ \A p \in 1..N : \A g, h \in [1..N -> V] :
       (\A q \in (p + 1)..N : g[q] = h[q]) => body[<<p, g>>] = body[<<p, h>>]

\* f is the function that body describes.
Descends(V, N, body, f) == f \in [1..N -> V] /\ \A p \in 1..N : f[p] = body[<<p, f>>]

(***************************************************************************)
(* A function whose value at p depends on its values after p exists.       *)
(***************************************************************************)
LEMMA DescendsExists ==
  ASSUME NEW V, NEW v \in V, NEW N \in Nat, NEW body, LooksAhead(V, N, body)
  PROVE  \E f : Descends(V, N, body, f)
<1> USE DEF LooksAhead
<1> DEFINE A == [1..N -> V]
           base == [p \in 1..N |-> v]
           step == [kg \in (1..N) \X A |->
                      [kg[2] EXCEPT ![N + 1 - kg[1]] = body[<<N + 1 - kg[1], kg[2]>>]]]
<1>1. base \in A
  OBVIOUS
<1>2. \A k \in 1..N : N + 1 - k \in 1..N
  OBVIOUS
<1>3. \A k \in 1..N, g \in A : body[<<N + 1 - k, g>>] \in V
  BY <1>2
<1>4. step \in [(1..N) \X A -> A]
  BY <1>2, <1>3
<1>5. PICK f : Accumulates(A, base, step, N, f)
  <2> HIDE DEF A, base, step
  <2> QED
    BY <1>1, <1>4, AccumulatesExists
<1>6. f \in [0..N -> A]
  BY <1>5 DEF Accumulates
<1>7. ASSUME NEW k \in 1..N
      PROVE  /\ f[k - 1] \in A
             /\ f[k] = [f[k - 1] EXCEPT ![N + 1 - k] = body[<<N + 1 - k, f[k - 1]>>]]
  <2>1. k - 1 \in 0..N
    OBVIOUS
  <2>2. f[k - 1] \in A
    <3> HIDE DEF A
    <3> QED
      BY <1>6, <2>1
  <2>3. f[k] = step[<<k, f[k - 1]>>]
    BY <1>5 DEF Accumulates
  <2>4. step[<<k, f[k - 1]>>] = [f[k - 1] EXCEPT ![N + 1 - k] = body[<<N + 1 - k, f[k - 1]>>]]
    <3> HIDE DEF A
    <3> QED
      BY <2>2
  <2> HIDE DEF step, A
  <2> QED
    BY <2>2, <2>3, <2>4
<1> DEFINE S == {k \in 0..N : \A p \in (N + 1 - k)..N : f[k][p] = body[<<p, f[k]>>]}
<1>8. 0 \in S
  OBVIOUS
<1>9. ASSUME NEW k \in 1..N, k - 1 \in S
      PROVE  k \in S
  <2> DEFINE g == f[k - 1]
             h == f[k]
             x == N + 1 - k
  <2>1. k \in 0..N /\ x \in 1..N /\ g \in A /\ h \in A
    <3>1. k \in 0..N /\ x \in 1..N
      BY <1>2
    <3> HIDE DEF A
    <3> QED
      BY <1>6, <1>7, <3>1
  <2>2. h[x] = body[<<x, g>>] /\ \A q \in 1..N : q # x => h[q] = g[q]
    <3>1. h = [g EXCEPT ![x] = body[<<x, g>>]]
      BY <1>7
    <3> HIDE DEF g, h, x
    <3> QED
      BY <2>1, <3>1
  <2>3. \A p \in (N + 1 - (k - 1))..N : g[p] = body[<<p, g>>]
    BY <1>9
  <2> HIDE DEF g, h
  <2>4. ASSUME NEW p \in x..N PROVE h[p] = body[<<p, h>>]
    <3>1. p \in 1..N /\ \A q \in (p + 1)..N : q \in 1..N /\ q # x
      BY <2>1
    <3>2. body[<<p, g>>] = body[<<p, h>>]
      BY <2>1, <2>2, <3>1
    <3>3. CASE p = x
      BY <2>2, <3>2, <3>3
    <3>4. CASE p # x
      <4>1. p \in (N + 1 - (k - 1))..N
        BY <3>4
      <4> QED
        BY <2>2, <2>3, <3>1, <3>2, <3>4, <4>1
    <3> QED
      BY <3>3, <3>4
  <2> QED
    BY <2>1, <2>4 DEF h
<1>10. N \in S
  <2> HIDE DEF S
  <2> QED
    BY <1>8, <1>9, UpTo
<1>11. f[N] \in A /\ \A p \in (N + 1 - N)..N : f[N][p] = body[<<p, f[N]>>]
  BY <1>6, <1>10
<1>12. N + 1 - N = 1
  OBVIOUS
<1>13. Descends(V, N, body, f[N])
  BY <1>11, <1>12 DEF Descends
<1> QED
  BY <1>13

(***************************************************************************)
(* There are n indexes up to n.                                            *)
(***************************************************************************)
LEMMA SizeUpTo ==
  ASSUME NEW n \in Nat
  PROVE  IsFiniteSet(1..n) /\ Cardinality(1..n) = n
BY FS_Interval

\* q lists the numbers of S in ascending order.
Ascending(S, q) ==
  /\ q \in [1..Cardinality(S) -> S]
  /\ {q[i] : i \in 1..Cardinality(S)} = S
  /\ \A i, j \in 1..Cardinality(S) : i < j => q[i] < q[j]

(***************************************************************************)
(* A finite set of numbers can be listed in ascending order.               *)
(***************************************************************************)
LEMMA AscendingExists ==
  ASSUME NEW S, S \subseteq Nat, IsFiniteSet(S)
  PROVE  \E q : Ascending(S, q)
<1> DEFINE n == Cardinality(S)
           K == {k \in 0..n : \A R \in SUBSET S : Cardinality(R) = k => \E q : Ascending(R, q)}
<1>1. n \in Nat
  BY FS_CardinalityType
<1>2. \A R \in SUBSET S : IsFiniteSet(R) /\ R \subseteq Nat
  BY FS_Subset
<1>3. 0 \in K
  <2>1. ASSUME NEW R \in SUBSET S, Cardinality(R) = 0
        PROVE  \E q : Ascending(R, q)
    <3>1. R = {}
      BY <1>2, <2>1, FS_EmptySet
    <3> DEFINE q == [i \in 1..0 |-> 0]
    <3>2. q \in [1..0 -> R] /\ {q[i] : i \in 1..0} = R
      BY <3>1
    <3>3. Ascending(R, q)
      BY <2>1, <3>2 DEF Ascending
    <3> QED
      BY <3>3
  <2> QED
    BY <1>1, <2>1
<1>4. ASSUME NEW k \in 1..n, k - 1 \in K
      PROVE  k \in K
  <2>1. ASSUME NEW R \in SUBSET S, Cardinality(R) = k
        PROVE  \E q : Ascending(R, q)
    <3> DEFINE x == Min(R)
               R1 == R \ {x}
    <3>1. R # {}
      BY <1>1, <2>1, FS_EmptySet
    <3>2. x \in R /\ \A y \in R : x <= y
      BY <1>2, <3>1, MinIn
    <3> HIDE DEF x
    <3>3. Cardinality(R1) = k - 1 /\ R1 \in SUBSET S
      BY <1>2, <2>1, <3>2, FS_RemoveElement
    <3>4. PICK p : Ascending(R1, p)
      BY <1>4, <3>3
    <3>5. /\ p \in [1..(k - 1) -> R1]
          /\ {p[i] : i \in 1..(k - 1)} = R1
          /\ \A i, j \in 1..(k - 1) : i < j => p[i] < p[j]
      BY <3>3, <3>4 DEF Ascending
    <3> DEFINE q == [i \in 1..k |-> IF i = 1 THEN x ELSE p[i - 1]]
    <3>6. k \in Nat /\ \A i \in 1..k : i # 1 => i - 1 \in 1..(k - 1)
      BY <1>1
    <3>7. q \in [1..k -> R]
      BY <3>2, <3>5, <3>6
    <3>8. {q[i] : i \in 1..k} = R
      <4>1. ASSUME NEW y \in R PROVE \E i \in 1..k : q[i] = y
        <5>1. CASE y = x
          <6>1. 1 \in 1..k /\ q[1] = x
            BY <3>6
          <6> QED
            BY <5>1, <6>1
        <5>2. CASE y # x
          <6>1. PICK i \in 1..(k - 1) : p[i] = y
            BY <3>5, <5>2
          <6>2. i + 1 \in 1..k /\ q[i + 1] = y
            BY <3>6, <6>1
          <6> QED
            BY <6>2
        <5> QED
          BY <5>1, <5>2
      <4> HIDE DEF q
      <4> QED
        BY <3>7, <4>1
    <3>9. ASSUME NEW i \in 1..k, NEW j \in 1..k, i < j
          PROVE  q[i] < q[j]
      <4>1. j # 1 /\ j - 1 \in 1..(k - 1) /\ q[j] = p[j - 1]
        BY <3>6, <3>9
      <4>2. CASE i = 1
        <5>1. p[j - 1] \in R1 /\ q[i] = x
          BY <3>5, <4>1, <4>2
        <5>2. x <= p[j - 1] /\ x # p[j - 1] /\ x \in Nat /\ p[j - 1] \in Nat
          BY <1>2, <3>2, <5>1
        <5> QED
          BY <4>1, <5>1, <5>2
      <4>3. CASE i # 1
        <5>1. i - 1 \in 1..(k - 1) /\ q[i] = p[i - 1] /\ i - 1 < j - 1
          BY <3>6, <3>9, <4>3
        <5> QED
          BY <3>5, <4>1, <5>1
      <4> QED
        BY <4>2, <4>3
    <3> HIDE DEF q
    <3>10. Ascending(R, q)
      BY <2>1, <3>7, <3>8, <3>9 DEF Ascending
    <3> QED
      BY <3>10
  <2> QED
    BY <1>1, <2>1
<1>5. n \in K
  <2> HIDE DEF K, n
  <2> QED
    BY <1>1, <1>3, <1>4, UpTo
<1> QED
  BY <1>5
=============================================================================
