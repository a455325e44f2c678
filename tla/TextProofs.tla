----------------------------- MODULE TextProofs -----------------------------
(***************************************************************************)
(* Proofs about the texts a configuration consists of: about the parser of *)
(* interpolate, for texts of any length, and about Include.                *)
(***************************************************************************)
EXTENDS Interpolate, Include, FoldLemmas, SequenceTheorems

-----------------------------------------------------------------------------
(***************************************************************************)
(* A character is escaped if a backslash precedes it that is not escaped   *)
(* itself; the first one is not.                                           *)
(***************************************************************************)
LEMMA EscapedNext ==
  ASSUME NEW s \in Seq(Char)
  PROVE  /\ ~Escaped(s, 1)
         /\ \A i \in 1..Len(s) : Escaped(s, i + 1) <=> s[i] = "\\" /\ ~Escaped(s, i)
<1>1. ~Escaped(s, 1)
  BY DEF Escaped
<1>2. ASSUME NEW i \in 1..Len(s), Escaped(s, i + 1)
      PROVE  s[i] = "\\" /\ ~Escaped(s, i)
  <2>1. PICK n \in 0..Len(s) : /\ 2 * n + 1 < i + 1
                               /\ \A k \in 1..(2 * n + 1) : s[i + 1 - k] = "\\"
                               /\ i + 1 = 2 * n + 2 \/ s[i + 1 - 2 * n - 2] # "\\"
    BY <1>2 DEF Escaped
  <2>2. s[i] = "\\"
    <3>1. 1 \in 1..(2 * n + 1) /\ i + 1 - 1 = i
      OBVIOUS
    <3> QED
      BY <2>1, <3>1
  <2>3. ASSUME NEW m \in 0..Len(s), 2 * m + 1 < i,
               \A k \in 1..(2 * m + 1) : s[i - k] = "\\",
               i = 2 * m + 2 \/ s[i - 2 * m - 2] # "\\"
        PROVE  FALSE
    <3>1. CASE n <= m
      <4>1. 2 * n + 1 \in 1..(2 * m + 1) /\ i + 1 # 2 * n + 2 /\ i + 1 - 2 * n - 2 = i - (2 * n + 1)
        BY <2>3, <3>1
      <4> QED
        BY <2>1, <2>3, <4>1
    <3>2. CASE m < n
      <4>1. 2 * m + 3 \in 1..(2 * n + 1) /\ i # 2 * m + 2 /\ i + 1 - (2 * m + 3) = i - 2 * m - 2
        BY <2>1, <3>2
      <4> QED
        BY <2>1, <2>3, <4>1
    <3> QED
      BY <3>1, <3>2
  <2> QED
    BY <2>2, <2>3 DEF Escaped
<1>3. ASSUME NEW i \in 1..Len(s), s[i] = "\\", ~Escaped(s, i)
      PROVE  Escaped(s, i + 1)
  <2> DEFINE R == {r \in 0..(i - 1) : r = i - 1 \/ s[i - r - 1] # "\\"}
  <2>1. i - 1 \in R /\ R \subseteq Nat
    OBVIOUS
  <2>2. PICK r \in R : \A x \in R : r <= x
    <3> HIDE DEF R
    <3> QED
      BY <2>1, LeastNat
  <2>3. ASSUME NEW k \in 1..r PROVE s[i - k] = "\\"
    <3>1. k - 1 \in 0..(i - 1) /\ k - 1 < r /\ k - 1 # i - 1 /\ i - (k - 1) - 1 = i - k
      BY <2>2
    <3>2. k - 1 \notin R
      <4>1. k - 1 \in R => r <= k - 1
        BY <2>2
      <4> QED
        BY <3>1, <4>1
    <3> QED
      BY <3>1, <3>2
  <2>4. PICK n \in 0..Len(s) : r = 2 * n \/ r = 2 * n + 1
    <3>1. r \in Nat /\ r \div 2 \in 0..Len(s) /\ (r = 2 * (r \div 2) \/ r = 2 * (r \div 2) + 1)
      BY <2>2
    <3> QED
      BY <3>1
  <2>5. CASE r = 2 * n + 1
    <3>1. 2 * n + 1 < i
      <4>1. r # i - 1 \/ r = i - 1
        OBVIOUS
      <4> QED
        BY <2>2, <2>5
    <3>2. \A k \in 1..(2 * n + 1) : s[i - k] = "\\"
      BY <2>3, <2>5
    <3>3. i = 2 * n + 2 \/ s[i - 2 * n - 2] # "\\"
      <4>1. i - r - 1 = i - 2 * n - 2 /\ (r = i - 1 => i = 2 * n + 2)
        BY <2>2, <2>5
      <4> QED
        BY <2>2, <4>1
    <3> QED
      BY <1>3, <3>1, <3>2, <3>3 DEF Escaped
  <2>6. CASE r = 2 * n
    <3>1. 2 * n + 1 < i + 1
      BY <2>2, <2>6
    <3>2. ASSUME NEW k \in 1..(2 * n + 1) PROVE s[i + 1 - k] = "\\"
      <4>1. CASE k = 1
        BY <1>3, <4>1
      <4>2. CASE k # 1
        <5>1. k - 1 \in 1..r /\ i + 1 - k = i - (k - 1)
          BY <2>6, <4>2
        <5> QED
          BY <2>3, <5>1
      <4> QED
        BY <4>1, <4>2
    <3>3. i + 1 = 2 * n + 2 \/ s[i + 1 - 2 * n - 2] # "\\"
      <4>1. i - r - 1 = i + 1 - 2 * n - 2 /\ (r = i - 1 => i + 1 = 2 * n + 2)
        BY <2>2, <2>6
      <4> QED
        BY <2>2, <4>1
    <3> QED
      BY <3>1, <3>2, <3>3 DEF Escaped
  <2> QED
    BY <2>4, <2>5, <2>6
<1> QED
  BY <1>1, <1>2, <1>3

(***************************************************************************)
(* Plain goes through the text character by character.                     *)
(***************************************************************************)
LEMMA PlainStep ==
  ASSUME NEW s \in Seq(Char), NEW from \in Nat \ {0}, NEW to \in 0..Len(s)
  PROVE  /\ Plain(s, from, to) \in Seq(Char)
         /\ to < from => Plain(s, from, to) = <<>>
         /\ from <= to => Plain(s, from, to) =
                            IF Kept(s, to) THEN Append(Plain(s, from, to - 1), s[to])
                            ELSE Plain(s, from, to - 1)
<1> DEFINE n == Len(s)
           A == Seq(Char)
           Step(k, q) == IF k < from THEN <<>> ELSE IF Kept(s, k) THEN Append(q, s[k]) ELSE q
           step == [kq \in (1..n) \X A |-> Step(kq[1], kq[2])]
           Is(f) == f = [i \in 0..n |-> IF i < from THEN <<>>
                                        ELSE IF Kept(s, i) THEN Append(f[i - 1], s[i]) ELSE f[i - 1]]
           g == CHOOSE f : Is(f)
<1>1. n \in Nat /\ <<>> \in A
  OBVIOUS
<1>2. ASSUME NEW k \in 1..n, NEW q \in A PROVE Step(k, q) \in A
  <2>1. s[k] \in Char
    OBVIOUS
  <2>2. Append(q, s[k]) \in A
    BY <2>1
  <2> QED
    BY <1>1, <2>2
<1>3. step \in [(1..n) \X A -> A]
  BY <1>2
<1>4. PICK f : Accumulates(A, <<>>, step, n, f)
  <2> HIDE DEF step, A, n
  <2> QED
    BY <1>1, <1>3, AccumulatesExists
<1>5. f \in [0..n -> A] /\ f[0] = <<>> /\ \A k \in 1..n : f[k] = Step(k, f[k - 1])
  <2>1. f \in [0..n -> A] /\ f[0] = <<>> /\ \A k \in 1..n : f[k] = step[<<k, f[k - 1]>>]
    BY <1>4 DEF Accumulates
  <2>2. \A k \in 1..n : k - 1 \in 0..n
    OBVIOUS
  <2>3. \A k \in 1..n : step[<<k, f[k - 1]>>] = Step(k, f[k - 1])
    BY <2>1, <2>2
  <2> HIDE DEF Step, step
  <2> QED
    BY <2>1, <2>3
<1>6. Is(f)
  <2> SUFFICES ASSUME NEW i \in 0..n
               PROVE  f[i] = IF i < from THEN <<>>
                             ELSE IF Kept(s, i) THEN Append(f[i - 1], s[i]) ELSE f[i - 1]
    BY <1>5
  <2>1. CASE i = 0
    BY <1>5, <2>1
  <2>2. CASE i # 0
    <3>1. f[i] = Step(i, f[i - 1])
      <4>1. i \in 1..n
        BY <2>2
      <4> HIDE DEF Step, A, n
      <4> QED
        BY <1>5, <4>1
    <3> QED
      BY <3>1
  <2> QED
    BY <2>1, <2>2
<1>7. Is(g)
  <2> HIDE DEF Is
  <2> QED
    BY <1>6
<1>8. \A t \in 0..n : Plain(s, from, t) = g[t]
  BY DEF Plain
<1>9. DOMAIN g = 0..n
  BY <1>7
<1>10. g[0] = <<>> /\ \A k \in 1..n : g[k] = Step(k, g[k - 1])
  <2>1. g[0] = <<>>
    <3>1. 0 \in 0..n /\ 0 < from
      BY <1>1
    <3> QED
      BY <1>7, <3>1
  <2>2. ASSUME NEW k \in 1..n PROVE g[k] = Step(k, g[k - 1])
    <3>1. k \in 0..n
      OBVIOUS
    <3> QED
      BY <1>7, <3>1
  <2> QED
    BY <2>1, <2>2
<1> HIDE DEF Is, g
<1>11. \A i \in 0..n : g[i] \in A
  <2> DEFINE S == {i \in 0..n : g[i] \in A}
  <2>1. 0 \in S
    <3>1. 0 \in 0..n
      BY <1>1
    <3> HIDE DEF A, Step, n
    <3> QED
      BY <1>1, <1>10, <3>1
  <2>2. ASSUME NEW k \in 1..n, k - 1 \in S PROVE k \in S
    <3>1. g[k - 1] \in A /\ k \in 0..n
      BY <2>2
    <3>2. g[k] \in A
      <4> HIDE DEF A, Step, n
      <4> QED
        BY <1>2, <1>10, <3>1
    <3> QED
      BY <3>1, <3>2
  <2>3. ASSUME NEW i \in 0..n PROVE i \in S
    <3>1. i \in Nat /\ \A k \in 1..i : k \in 1..n
      OBVIOUS
    <3> HIDE DEF S
    <3> QED
      BY <2>1, <2>2, <3>1, UpTo
  <2> QED
    BY <2>3
<1>12. Plain(s, from, to) = g[to] /\ g[to] \in A
  BY <1>8, <1>11
<1>13. ASSUME to < from PROVE g[to] = <<>>
  <2>1. CASE to = 0
    BY <1>10, <2>1
  <2>2. CASE to # 0
    <3>1. to \in 1..n /\ g[to] = Step(to, g[to - 1])
      <4>1. to \in 1..n
        BY <2>2
      <4> HIDE DEF Step
      <4> QED
        BY <1>10, <4>1
    <3> QED
      BY <1>13, <3>1
  <2> QED
    BY <2>1, <2>2
<1>14. ASSUME from <= to
       PROVE  Plain(s, from, to) = IF Kept(s, to) THEN Append(Plain(s, from, to - 1), s[to])
                                   ELSE Plain(s, from, to - 1)
  <2>1. to \in 1..n /\ to - 1 \in 0..n
    BY <1>14
  <2>2. g[to] = Step(to, g[to - 1])
    <3> HIDE DEF Step
    <3> QED
      BY <1>10, <2>1
  <2>3. Plain(s, from, to - 1) = g[to - 1]
    BY <1>8, <2>1
  <2>4. ~(to < from)
    BY <1>14
  <2> QED
    BY <1>12, <2>2, <2>3, <2>4
<1> QED
  BY <1>12, <1>13, <1>14

(***************************************************************************)
(* Appending to the second part appends to the whole.                      *)
(***************************************************************************)
LEMMA AppendConcat ==
  \A a, b \in Seq(Char), x \in Char : Append(a \o b, x) = a \o Append(b, x)
<1> SUFFICES ASSUME NEW a \in Seq(Char), NEW b \in Seq(Char), NEW x \in Char
             PROVE  Append(a \o b, x) = a \o Append(b, x)
  OBVIOUS
<1>1. a \o b \in Seq(Char) /\ <<x>> \in Seq(Char)
  OBVIOUS
<1>2. Append(a \o b, x) = (a \o b) \o <<x>> /\ Append(b, x) = b \o <<x>>
  BY <1>1, AppendIsConcat
<1>3. (a \o b) \o <<x>> = a \o (b \o <<x>>)
  BY <1>1, ConcatAssociative
<1> QED
  BY <1>2, <1>3

(***************************************************************************)
(* Text without backslashes is kept as it is.                              *)
(***************************************************************************)
LEMMA PlainTake ==
  ASSUME NEW s \in Seq(Char), NEW from \in Nat \ {0}, NEW p \in 1..(Len(s) + 1),
         from <= p, NEW q \in p..(Len(s) + 1), \A i \in p..(q - 1) : s[i] # "\\"
  PROVE  Plain(s, from, q - 1) = Plain(s, from, p - 1) \o SubSeq(s, p, q - 1)
<1> DEFINE P(k) == Plain(s, from, p + k - 1)
           S == {k \in 0..(q - p) : P(k) = P(0) \o SubSeq(s, p, p + k - 1)}
<1>1. 0 \in S
  <2>1. SubSeq(s, p, p + 0 - 1) = <<>> /\ p + 0 - 1 \in 0..Len(s)
    OBVIOUS
  <2>2. P(0) \in Seq(Char)
    BY <2>1, PlainStep
  <2>3. P(0) = P(0) \o SubSeq(s, p, p + 0 - 1)
    BY <2>1, <2>2, ConcatEmptySeq
  <2>4. 0 \in 0..(q - p)
    OBVIOUS
  <2> HIDE DEF P
  <2> QED
    BY <2>3, <2>4
<1>2. ASSUME NEW k \in 1..(q - p), k - 1 \in S
      PROVE  k \in S
  <2> DEFINE i == p + k - 1
  <2>1. /\ i \in p..(q - 1) /\ i \in 0..Len(s) /\ from <= i /\ i \in 1..Len(s)
        /\ i - 1 = p + (k - 1) - 1 /\ p + 0 - 1 \in 0..Len(s)
    OBVIOUS
  <2>2. Kept(s, i)
    BY <2>1 DEF Kept, Raw
  <2>3. Plain(s, from, i) = Append(Plain(s, from, i - 1), s[i])
    BY <2>1, <2>2, PlainStep
  <2>4. Plain(s, from, i - 1) = P(0) \o SubSeq(s, p, i - 1)
    BY <1>2, <2>1
  <2>5. SubSeq(s, p, i) = Append(SubSeq(s, p, i - 1), s[i])
    BY <2>1
  <2>6. P(0) \in Seq(Char) /\ SubSeq(s, p, i - 1) \in Seq(Char) /\ s[i] \in Char
    BY <2>1, PlainStep
  <2>7. Append(P(0) \o SubSeq(s, p, i - 1), s[i]) = P(0) \o Append(SubSeq(s, p, i - 1), s[i])
    <3> HIDE DEF P, i
    <3> QED
      BY <2>6, AppendConcat
  <2>8. P(k) = P(0) \o SubSeq(s, p, p + k - 1)
    BY <2>3, <2>4, <2>5, <2>7
  <2>9. k \in 0..(q - p)
    OBVIOUS
  <2> HIDE DEF P
  <2> QED
    BY <2>8, <2>9
<1>3. q - p \in S
  <2>1. q - p \in Nat
    OBVIOUS
  <2> HIDE DEF S
  <2> QED
    BY <1>1, <1>2, <2>1, UpTo
<1>4. p + (q - p) - 1 = q - 1 /\ p + 0 - 1 = p - 1
  OBVIOUS
<1> QED
  BY <1>3, <1>4

(***************************************************************************)
(* What Min gives for the places where a variable begins or ends.          *)
(***************************************************************************)
LEMMA FirstIn ==
  ASSUME NEW s \in Seq(Char), NEW p \in Nat \ {0}
  PROVE  /\ Begins(s, p) # {} => /\ Min(Begins(s, p)) \in Begins(s, p)
                                 /\ \A i \in Begins(s, p) : Min(Begins(s, p)) <= i
         /\ Ends(s, p) # {} => /\ Min(Ends(s, p)) \in Ends(s, p)
                               /\ \A j \in Ends(s, p) : Min(Ends(s, p)) <= j
<1>1. Begins(s, p) \subseteq Nat /\ Ends(s, p) \subseteq Nat
  <2>1. p..(Len(s) - 1) \subseteq Nat /\ p..Len(s) \subseteq Nat
    OBVIOUS
  <2>2. Begins(s, p) \subseteq p..(Len(s) - 1) /\ Ends(s, p) \subseteq p..Len(s)
    BY DEF Begins, Ends
  <2> QED
    BY <2>1, <2>2
<1> QED
  BY <1>1, MinIn

(***************************************************************************)
(* The parts a text means have their type.                                 *)
(***************************************************************************)
LEMMA PartTypes ==
  ASSUME NEW s \in Seq(Char), NEW from \in Nat \ {0}
  PROVE  /\ \A to \in 0..Len(s) : LiteralOf(s, from, to) \in Seq(Part)
         /\ Ends(s, from) # {} => VariableAt(s, from) \in Part
<1>1. ASSUME NEW to \in 0..Len(s) PROVE LiteralOf(s, from, to) \in Seq(Part)
  <2>1. Plain(s, from, to) \in Seq(Char)
    BY PlainStep
  <2>2. Literal(Plain(s, from, to)) \in Part
    BY <2>1 DEF Literal, Part
  <2> QED
    BY <2>2 DEF LiteralOf
<1>2. ASSUME Ends(s, from) # {} PROVE VariableAt(s, from) \in Part
  <2> DEFINE end == Min(Ends(s, from))
             dashes == {d \in from..(end - 1) : Raw(s, d, "-")}
             dash == IF dashes = {} THEN end ELSE Min(dashes)
  <2>1. end \in from..Len(s)
    <3>1. Min(Ends(s, from)) \in Ends(s, from)
      BY <1>2, FirstIn
    <3> QED
      BY <3>1 DEF Ends
  <2>2. dash \in from..end
    <3>1. CASE dashes = {}
      BY <2>1, <3>1
    <3>2. CASE dashes # {}
      <4>1. dashes \subseteq Nat /\ dashes \subseteq from..(end - 1)
        BY <2>1
      <4>2. Min(dashes) \in dashes
        <5> HIDE DEF dashes
        <5> QED
          BY <3>2, <4>1, MinIn
      <4> QED
        BY <2>1, <3>2, <4>1, <4>2
    <3> QED
      BY <3>1, <3>2
  <2>3. dash - 1 \in 0..Len(s) /\ end - 1 \in 0..Len(s) /\ dash + 1 \in Nat \ {0}
    <3> HIDE DEF dash, end
    <3> QED
      BY <2>1, <2>2
  <2>4. Plain(s, from, dash - 1) \in Seq(Char) /\ Plain(s, dash + 1, end - 1) \in Seq(Char)
    <3> HIDE DEF dash, end
    <3> QED
      BY <2>3, PlainStep
  <2>5. VariableAt(s, from) = Variable(Plain(s, from, dash - 1), Plain(s, dash + 1, end - 1), dashes # {})
    BY DEF VariableAt
  <2> HIDE DEF dash, end, dashes
  <2> QED
    BY <2>4, <2>5 DEF Variable, Part
<1> QED
  BY <1>1, <1>2

\* What the text means from p on, given what it means from later positions on.
Body(s, p, parts) ==
  IF HasVariable(s, p)
  THEN LiteralOf(s, p, Name(s, p) - 3) \o <<VariableAt(s, Name(s, p))>>
         \o parts[Min(Ends(s, Name(s, p))) + 1]
  ELSE LiteralOf(s, p, Len(s))

(***************************************************************************)
(* Where the first variable from p on begins and ends.                     *)
(***************************************************************************)
LEMMA FirstVariable ==
  ASSUME NEW s \in Seq(Char), NEW p \in 1..(Len(s) + 1), HasVariable(s, p)
  PROVE  /\ Name(s, p) - 2 \in Begins(s, p) /\ \A i \in Begins(s, p) : Name(s, p) - 2 <= i
         /\ Name(s, p) \in (p + 2)..(Len(s) + 1) /\ Name(s, p) \in Nat \ {0}
         /\ Min(Ends(s, Name(s, p))) \in Name(s, p)..Len(s)
         /\ Min(Ends(s, Name(s, p))) \in Ends(s, Name(s, p))
         /\ \A j \in Ends(s, Name(s, p)) : Min(Ends(s, Name(s, p))) <= j
<1> DEFINE f == Min(Begins(s, p))
<1>1. p \in Nat \ {0} /\ Begins(s, p) # {} /\ Ends(s, Name(s, p)) # {}
  BY DEF HasVariable
<1>2. f \in Begins(s, p) /\ \A i \in Begins(s, p) : f <= i
  BY <1>1, FirstIn
<1>3. f \in p..(Len(s) - 1)
  BY <1>2 DEF Begins
<1>4. Name(s, p) = f + 2
  BY DEF Name
<1> HIDE DEF f
<1>5. Name(s, p) - 2 = f /\ Name(s, p) \in (p + 2)..(Len(s) + 1) /\ Name(s, p) \in Nat \ {0}
  BY <1>3, <1>4
<1>6. /\ Min(Ends(s, Name(s, p))) \in Ends(s, Name(s, p))
      /\ \A j \in Ends(s, Name(s, p)) : Min(Ends(s, Name(s, p))) <= j
  BY <1>1, <1>5, FirstIn
<1>7. Min(Ends(s, Name(s, p))) \in Name(s, p)..Len(s)
  BY <1>6 DEF Ends
<1> QED
  BY <1>2, <1>5, <1>6, <1>7

(***************************************************************************)
(* Meanings satisfies its recursion.                                       *)
(***************************************************************************)
LEMMA MeaningsStep ==
  ASSUME NEW s \in Seq(Char)
  PROVE  /\ Meanings(s) \in [1..(Len(s) + 1) -> Seq(Part)]
         /\ \A p \in 1..(Len(s) + 1) : Meanings(s)[p] = Body(s, p, Meanings(s))
<1> DEFINE N == Len(s) + 1
           V == Seq(Part)
           A == [1..N -> V]
           body == [pg \in (1..N) \X A |-> Body(s, pg[1], pg[2])]
           Is(f) == f = [p \in 1..N |-> Body(s, p, f)]
<1>1. N \in Nat /\ <<>> \in V
  OBVIOUS
<1>2. ASSUME NEW p \in 1..N, HasVariable(s, p)
      PROVE  /\ LiteralOf(s, p, Name(s, p) - 3) \o <<VariableAt(s, Name(s, p))>> \in V
             /\ Min(Ends(s, Name(s, p))) + 1 \in (p + 1)..N
             /\ Min(Ends(s, Name(s, p))) + 1 \in 1..N
  <2>1. /\ Name(s, p) \in (p + 2)..(Len(s) + 1) /\ Name(s, p) \in Nat \ {0}
        /\ Min(Ends(s, Name(s, p))) \in Name(s, p)..Len(s)
        /\ Min(Ends(s, Name(s, p))) \in Ends(s, Name(s, p))
    BY <1>2, FirstVariable
  <2>2. Name(s, p) - 3 \in 0..Len(s) /\ p \in Nat \ {0}
    BY <2>1
  <2>3. LiteralOf(s, p, Name(s, p) - 3) \in V
    BY <2>2, PartTypes
  <2>4. VariableAt(s, Name(s, p)) \in Part
    BY <2>1, PartTypes
  <2>5. <<VariableAt(s, Name(s, p))>> \in V
    BY <2>4
  <2>6. Min(Ends(s, Name(s, p))) + 1 \in (p + 1)..N /\ Min(Ends(s, Name(s, p))) + 1 \in 1..N
    BY <2>1
  <2> HIDE DEF N
  <2> QED
    BY <2>3, <2>5, <2>6, ConcatProperties
<1>3. ASSUME NEW p \in 1..N, ~HasVariable(s, p)
      PROVE  LiteralOf(s, p, Len(s)) \in V
  <2>1. p \in Nat \ {0} /\ Len(s) \in 0..Len(s)
    OBVIOUS
  <2> QED
    BY <2>1, PartTypes
<1>4. ASSUME NEW p \in 1..N, NEW g \in A PROVE Body(s, p, g) \in V
  <2>1. CASE HasVariable(s, p)
    <3>1. g[Min(Ends(s, Name(s, p))) + 1] \in V
      <4> HIDE DEF N, V
      <4> QED
        BY <1>2, <2>1
    <3>2. LiteralOf(s, p, Name(s, p) - 3) \o <<VariableAt(s, Name(s, p))>> \in V
      BY <1>2, <2>1
    <3>3. Body(s, p, g) = LiteralOf(s, p, Name(s, p) - 3) \o <<VariableAt(s, Name(s, p))>>
                            \o g[Min(Ends(s, Name(s, p))) + 1]
      BY <2>1 DEF Body
    <3> QED
      BY <3>1, <3>2, <3>3, ConcatProperties
  <2>2. CASE ~HasVariable(s, p)
    BY <1>3, <2>2 DEF Body
  <2> QED
    BY <2>1, <2>2
<1>5. body \in [(1..N) \X A -> V]
  <2> HIDE DEF A, V, N
  <2> QED
    BY <1>4
<1>6. ASSUME NEW p \in 1..N, NEW g \in A, NEW h \in A, \A q \in (p + 1)..N : g[q] = h[q]
      PROVE  body[<<p, g>>] = body[<<p, h>>]
  <2>1. body[<<p, g>>] = Body(s, p, g) /\ body[<<p, h>>] = Body(s, p, h)
    <3> HIDE DEF A, N
    <3> QED
      OBVIOUS
  <2>2. Body(s, p, g) = Body(s, p, h)
    <3>1. CASE HasVariable(s, p)
      <4>1. g[Min(Ends(s, Name(s, p))) + 1] = h[Min(Ends(s, Name(s, p))) + 1]
        BY <1>2, <1>6, <3>1
      <4> QED
        BY <3>1, <4>1 DEF Body
    <3>2. CASE ~HasVariable(s, p)
      BY <3>2 DEF Body
    <3> QED
      BY <3>1, <3>2
  <2> QED
    BY <2>1, <2>2
<1>7. PICK f \in A : \A p \in 1..N : f[p] = body[<<p, f>>]
  <2>1. LooksAhead(V, N, body)
    BY <1>5, <1>6 DEF LooksAhead
  <2>2. \E f : Descends(V, N, body, f)
    <3> HIDE DEF N, V, body
    <3> QED
      BY <1>1, <2>1, DescendsExists
  <2> QED
    BY <2>2 DEF Descends
<1>8. Is(f)
  <2>1. \A p \in 1..N : body[<<p, f>>] = Body(s, p, f)
    <3> HIDE DEF A, N
    <3> QED
      BY <1>7
  <2>2. f = [p \in 1..N |-> f[p]]
    BY <1>7
  <2> HIDE DEF body, N
  <2> QED
    BY <1>7, <2>1, <2>2
<1>9. Meanings(s) = CHOOSE f_1 : Is(f_1)
  BY DEF Meanings, Body
<1>10. Is(Meanings(s))
  <2> HIDE DEF Is
  <2> QED
    BY <1>8, <1>9
<1> DEFINE M == Meanings(s)
<1>11. DOMAIN M = 1..N /\ M = [p \in 1..N |-> M[p]] /\ \A p \in 1..N : M[p] = Body(s, p, M)
  <2> HIDE DEF N
  <2> QED
    BY <1>10
<1> HIDE DEF M
<1>12. \A p \in 1..N : M[p] \in V
  <2> DEFINE S == {k \in 0..N : \A p \in (N + 1 - k)..N : M[p] \in V}
  <2>1. 0 \in S
    OBVIOUS
  <2>2. ASSUME NEW k \in 1..N, k - 1 \in S PROVE k \in S
    <3>1. k \in 0..N /\ \A p \in (N + 1 - (k - 1))..N : M[p] \in V
      BY <2>2
    <3>2. ASSUME NEW p \in (N + 1 - k)..N PROVE M[p] \in V
      <4>1. p \in 1..N /\ M[p] = Body(s, p, M)
        BY <1>11
      <4>2. CASE HasVariable(s, p)
        <5>1. Min(Ends(s, Name(s, p))) + 1 \in (N + 1 - (k - 1))..N
          <6>1. Min(Ends(s, Name(s, p))) + 1 \in (p + 1)..N
            BY <1>2, <4>1, <4>2
          <6> QED
            BY <6>1
        <5>2. M[Min(Ends(s, Name(s, p))) + 1] \in V
          BY <3>1, <5>1
        <5>3. LiteralOf(s, p, Name(s, p) - 3) \o <<VariableAt(s, Name(s, p))>> \in V
          BY <1>2, <4>1, <4>2
        <5>4. M[p] = LiteralOf(s, p, Name(s, p) - 3) \o <<VariableAt(s, Name(s, p))>>
                       \o M[Min(Ends(s, Name(s, p))) + 1]
          BY <4>1, <4>2 DEF Body
        <5> QED
          BY <5>2, <5>3, <5>4, ConcatProperties
      <4>3. CASE ~HasVariable(s, p)
        BY <1>3, <4>1, <4>3 DEF Body
      <4> QED
        BY <4>2, <4>3
    <3> QED
      BY <3>1, <3>2
  <2>3. N \in S
    <3> HIDE DEF S
    <3> QED
      BY <1>1, <2>1, <2>2, UpTo
  <2>4. N + 1 - N = 1
    BY <1>1
  <2> QED
    BY <2>3, <2>4
<1>13. M \in [1..N -> V]
  <2> HIDE DEF N, V
  <2> QED
    BY <1>11, <1>12
<1> QED
  BY <1>11, <1>13 DEF M

-----------------------------------------------------------------------------
\* The text from b to p - 1 is in the buffer of literals, and begins no variable
\* that is closed.  What is left to say is what the text means from b on.
Buffered(s, lit, parts, b, p) ==
  /\ p <= Len(s) => ~Escaped(s, p)
  /\ lit = Plain(s, b, p - 1)
  /\ \A i \in Begins(s, b) : i < p => Ends(s, i + 2) = {}
  /\ Meanings(s)[1] = parts \o Meanings(s)[b]

\* A variable whose text begins at v is not closed before p.
Inside(s, v, p) ==
  /\ v \in 3..p
  /\ v - 2 \in Begins(s, 1)
  /\ \A j \in v..(p - 1) : ~Raw(s, j, "}")
  /\ p <= Len(s) => ~Escaped(s, p)

\* A buffer holds the text from v to p - 1; a backslash at the end of the input
\* is lost, but then the variable is not closed.
Scanned(s, buf, v, p) == p <= Len(s) => buf = Plain(s, v, p - 1)

NoDash(s, v, p) == \A j \in v..(p - 1) : ~Raw(s, j, "-")

(***************************************************************************)
(* A backslash that is not escaped gives way to the character behind it.   *)
(***************************************************************************)
LEMMA PlainEscaped ==
  ASSUME NEW s \in Seq(Char), NEW from \in Nat \ {0}, NEW p \in 1..(Len(s) - 1),
         from <= p, s[p] = "\\", ~Escaped(s, p)
  PROVE  /\ Plain(s, from, p + 1) = Append(Plain(s, from, p - 1), s[p + 1])
         /\ Escaped(s, p + 1) /\ ~Escaped(s, p + 2)
<1>1. p \in 1..Len(s) /\ p + 1 \in 1..Len(s) /\ p # Len(s) /\ (p + 1) + 1 = p + 2
  OBVIOUS
<1>2. Escaped(s, p + 1) /\ ~Escaped(s, p + 2)
  <2>1. Escaped(s, p + 1)
    BY <1>1, EscapedNext
  <2>2. Escaped(s, (p + 1) + 1) <=> s[p + 1] = "\\" /\ ~Escaped(s, p + 1)
    BY <1>1, EscapedNext
  <2> QED
    BY <1>1, <2>1, <2>2
<1>3. ~Kept(s, p) /\ Kept(s, p + 1)
  BY <1>1, <1>2 DEF Kept, Raw
<1>4. /\ from <= p /\ p \in 0..Len(s) /\ from <= p + 1 /\ p + 1 \in 0..Len(s)
      /\ (p + 1) - 1 = p
  BY <1>1
<1>5. Plain(s, from, p) = Plain(s, from, p - 1)
  BY <1>3, <1>4, PlainStep
<1>6. Plain(s, from, p + 1) = Append(Plain(s, from, (p + 1) - 1), s[p + 1])
  BY <1>3, <1>4, PlainStep
<1> QED
  BY <1>2, <1>4, <1>5, <1>6

(***************************************************************************)
(* A piece of text without backslashes is added to the literals.           *)
(***************************************************************************)
LEMMA BufferBytes ==
  ASSUME NEW s \in Seq(Char), NEW lit, NEW parts, NEW p \in 1..Len(s), NEW b \in 1..p,
         Buffered(s, lit, parts, b, p),
         NEW q \in (p + 1)..(Len(s) + 1), \A i \in p..(q - 1) : s[i] # "\\",
         \A i \in Begins(s, p) : i < q => Ends(s, i + 2) = {}
  PROVE  Buffered(s, lit \o SubSeq(s, p, q - 1), parts, b, q)
<1>1. q <= Len(s) => ~Escaped(s, q)
  <2>1. q - 1 \in 1..Len(s) /\ q - 1 \in p..(q - 1) /\ (q - 1) + 1 = q
    OBVIOUS
  <2>2. Escaped(s, (q - 1) + 1) <=> s[q - 1] = "\\" /\ ~Escaped(s, q - 1)
    BY <2>1, EscapedNext
  <2> QED
    BY <2>1, <2>2
<1>2. lit \o SubSeq(s, p, q - 1) = Plain(s, b, q - 1)
  <2>1. b \in Nat \ {0} /\ p \in 1..(Len(s) + 1) /\ b <= p /\ q \in p..(Len(s) + 1)
    OBVIOUS
  <2>2. Plain(s, b, q - 1) = Plain(s, b, p - 1) \o SubSeq(s, p, q - 1)
    BY <2>1, PlainTake
  <2> QED
    BY <2>2 DEF Buffered
<1>3. ASSUME NEW i \in Begins(s, b), i < q PROVE Ends(s, i + 2) = {}
  <2>1. i \in b..(Len(s) - 1)
    BY DEF Begins
  <2>2. CASE i < p
    BY <2>2 DEF Buffered
  <2>3. CASE i >= p
    <3>1. i \in Begins(s, p)
      <4>1. i \in p..(Len(s) - 1)
        BY <2>1, <2>3
      <4>2. Raw(s, i, Sigil) /\ s[i + 1] = "{"
        BY DEF Begins
      <4> QED
        BY <4>1, <4>2 DEF Begins
    <3> QED
      BY <1>3, <3>1
  <2> QED
    BY <2>1, <2>2, <2>3
<1> QED
  BY <1>1, <1>2, <1>3 DEF Buffered

(***************************************************************************)
(* So is the character behind a backslash, and a backslash at the end.     *)
(***************************************************************************)
LEMMA BufferBackslash ==
  ASSUME NEW s \in Seq(Char), NEW lit, NEW parts, NEW p \in 1..Len(s), NEW b \in 1..p,
         Buffered(s, lit, parts, b, p), s[p] = "\\"
  PROVE  /\ p < Len(s) => Buffered(s, Append(lit, s[p + 1]), parts, b, p + 2)
         /\ p = Len(s) => Buffered(s, lit \o <<"\\">>, parts, b, p + 1)
<1>0. b \in Nat \ {0} /\ b <= p /\ ~Escaped(s, p) /\ lit = Plain(s, b, p - 1) /\ p - 1 \in 0..Len(s)
  BY DEF Buffered
<1>1. ASSUME NEW i \in Begins(s, b), i < p PROVE Ends(s, i + 2) = {}
  BY <1>1 DEF Buffered
<1>2. p \notin Begins(s, b)
  BY Zenon, TextAssumption DEF Begins, Raw
<1>3. ASSUME NEW i \in Begins(s, b) PROVE i \in Nat
  <2>1. i \in b..(Len(s) - 1)
    BY DEF Begins
  <2> QED
    BY <2>1
<1>4. CASE p < Len(s)
  <2>1. p \in 1..(Len(s) - 1)
    BY <1>4
  <2>2. /\ Plain(s, b, p + 1) = Append(Plain(s, b, p - 1), s[p + 1])
        /\ Escaped(s, p + 1) /\ ~Escaped(s, p + 2)
    BY <1>0, <2>1, PlainEscaped
  <2>3. p + 1 \notin Begins(s, b)
    BY <2>2 DEF Begins, Raw
  <2>4. ASSUME NEW i \in Begins(s, b), i < p + 2 PROVE Ends(s, i + 2) = {}
    <3>1. i < p \/ i = p \/ i = p + 1
      BY <1>3, <2>4
    <3> QED
      BY <1>1, <1>2, <2>3, <3>1
  <2>5. (p + 2) - 1 = p + 1
    OBVIOUS
  <2>6. Buffered(s, Append(lit, s[p + 1]), parts, b, p + 2)
    BY <1>0, <2>2, <2>4, <2>5 DEF Buffered
  <2> QED
    BY <1>4, <2>6
<1>5. CASE p = Len(s)
  <2>1. Kept(s, p)
    BY <1>5 DEF Kept
  <2>2. p \in 0..Len(s)
    OBVIOUS
  <2>3. Plain(s, b, p) = Append(Plain(s, b, p - 1), s[p])
    BY <1>0, <2>1, <2>2, PlainStep
  <2>4. lit \in Seq(Char) /\ s[p] \in Char
    <3>1. Plain(s, b, p - 1) \in Seq(Char)
      BY <1>0, PlainStep
    <3> QED
      BY <1>0, <3>1
  <2>5. Append(lit, s[p]) = lit \o <<s[p]>>
    BY <2>4, AppendIsConcat
  <2>6. ASSUME NEW i \in Begins(s, b), i < p + 1 PROVE Ends(s, i + 2) = {}
    <3>1. i < p \/ i = p
      BY <1>3, <2>6
    <3> QED
      BY <1>1, <1>2, <3>1
  <2>7. (p + 1) - 1 = p /\ ~(p + 1 <= Len(s))
    BY <1>5
  <2>8. Buffered(s, lit \o <<"\\">>, parts, b, p + 1)
    BY <1>0, <2>3, <2>5, <2>6, <2>7 DEF Buffered
  <2> QED
    BY <1>5, <2>8
<1> QED
  BY <1>4, <1>5

(***************************************************************************)
(* The buffer becomes a part, unless it is empty.                          *)
(***************************************************************************)
LEMMA AppendsLiteral ==
  ASSUME TypeOK, NEW b \in Nat \ {0}, NEW p \in 1..(Len(in) + 1), litBuf = Plain(in, b, p - 1)
  PROVE  appendBuffer = out \o LiteralOf(in, b, p - 1)
<1>1. in \in Seq(Char) /\ out \in Seq(Part) /\ p - 1 \in 0..Len(in)
  BY DEF TypeOK
<1>2. CASE litBuf = <<>>
  BY <1>1, <1>2, ConcatEmptySeq DEF appendBuffer, LiteralOf
<1>3. CASE litBuf # <<>>
  <2>1. LiteralOf(in, b, p - 1) = <<Literal(litBuf)>>
    BY <1>3 DEF LiteralOf
  <2>2. Literal(litBuf) \in Part
    BY DEF TypeOK, Literal, Part
  <2>3. Append(out, Literal(litBuf)) = out \o <<Literal(litBuf)>>
    BY <1>1, <2>2, AppendIsConcat
  <2> QED
    BY <1>3, <2>1, <2>3 DEF appendBuffer
<1> QED
  BY <1>2, <1>3

(***************************************************************************)
(* At the end of the text, what was buffered is the last part.             *)
(***************************************************************************)
LEMMA BufferEnds ==
  ASSUME NEW s \in Seq(Char), NEW lit, NEW parts, NEW b \in 1..(Len(s) + 1),
         Buffered(s, lit, parts, b, Len(s) + 1)
  PROVE  Meanings(s)[1] = parts \o LiteralOf(s, b, Len(s))
<1>1. ~HasVariable(s, b)
  <2> SUFFICES ASSUME HasVariable(s, b) PROVE FALSE
    OBVIOUS
  <2>1. Name(s, b) - 2 \in Begins(s, b) /\ Name(s, b) \in (b + 2)..(Len(s) + 1)
    BY FirstVariable
  <2>2. Name(s, b) - 2 < Len(s) + 1 /\ (Name(s, b) - 2) + 2 = Name(s, b)
    BY <2>1
  <2>3. Ends(s, Name(s, b)) = {}
    BY <2>1, <2>2 DEF Buffered
  <2> QED
    BY <2>3 DEF HasVariable
<1>2. Meanings(s)[b] = Body(s, b, Meanings(s))
  BY MeaningsStep
<1> QED
  BY <1>1, <1>2 DEF Body, Buffered

(***************************************************************************)
(* Parts are put together in any order.                                    *)
(***************************************************************************)
LEMMA ConcatParts == \A a, b, c \in Seq(Part) : (a \o b) \o c = a \o (b \o c)
BY ConcatAssociative

(***************************************************************************)
(* When the variable that begins behind the buffer is closed at e, the     *)
(* buffer and the variable are the next parts.                             *)
(***************************************************************************)
LEMMA BufferCloses ==
  ASSUME NEW s \in Seq(Char), NEW lit, NEW parts \in Seq(Part), NEW v \in 1..Len(s), NEW b \in 1..v,
         v \in Begins(s, 1), Buffered(s, lit, parts, b, v),
         NEW e \in (v + 2)..Len(s), e \in Ends(s, v + 2), \A j \in Ends(s, v + 2) : e <= j
  PROVE  /\ e = Min(Ends(s, v + 2))
         /\ Buffered(s, <<>>, parts \o LiteralOf(s, b, v - 1) \o <<VariableAt(s, v + 2)>>, e + 1, e + 1)
<1>1. v \in 1..(Len(s) - 1)
  BY DEF Begins
<1>2. e \in (v + 2)..Len(s)
  OBVIOUS
<1>3. b \in 1..(Len(s) + 1) /\ b \in Nat \ {0}
  BY <1>1
<1>4. v \in Begins(s, b)
  <2>1. v \in b..(Len(s) - 1)
    BY <1>1
  <2>2. Raw(s, v, Sigil) /\ s[v + 1] = "{"
    BY DEF Begins
  <2> QED
    BY <2>1, <2>2 DEF Begins
<1>5. ASSUME NEW i \in Begins(s, b) PROVE v <= i
  <2>1. i \in b..(Len(s) - 1)
    BY DEF Begins
  <2> SUFFICES ASSUME i < v PROVE FALSE
    BY <1>1, <2>1
  <2>2. Ends(s, i + 2) = {}
    BY DEF Buffered
  <2>3. e \in (i + 2)..Len(s)
    BY <1>1, <1>2, <2>1
  <2>4. e \in Ends(s, i + 2)
    BY <2>3 DEF Ends
  <2> QED
    BY <2>2, <2>4
<1>6. Min(Begins(s, b)) = v
  <2>1. Min(Begins(s, b)) \in Begins(s, b) /\ Min(Begins(s, b)) <= v
    BY <1>3, <1>4, FirstIn
  <2>2. v <= Min(Begins(s, b)) /\ Min(Begins(s, b)) \in b..(Len(s) - 1)
    BY <1>5, <2>1 DEF Begins
  <2> QED
    BY <1>1, <2>1, <2>2
<1>7. Name(s, b) = v + 2 /\ HasVariable(s, b)
  BY <1>4, <1>6 DEF Name, HasVariable
<1>8. e = Min(Ends(s, v + 2))
  <2>1. v + 2 \in Nat \ {0}
    BY <1>1
  <2>2. Min(Ends(s, v + 2)) \in Ends(s, v + 2) /\ Min(Ends(s, v + 2)) <= e
    BY <2>1, FirstIn
  <2>3. e <= Min(Ends(s, v + 2)) /\ Min(Ends(s, v + 2)) \in (v + 2)..Len(s)
    BY <2>2 DEF Ends
  <2> QED
    BY <1>2, <2>2, <2>3
<1> DEFINE M == Meanings(s)
           X == LiteralOf(s, b, v - 1)
           Y == <<VariableAt(s, v + 2)>>
<1>9. M[b] = X \o Y \o M[e + 1]
  <2>1. M[b] = Body(s, b, M)
    BY <1>3, MeaningsStep
  <2>2. (v + 2) - 3 = v - 1
    BY <1>1
  <2> QED
    BY <1>7, <1>8, <2>1, <2>2 DEF Body
<1>10. X \in Seq(Part) /\ Y \in Seq(Part) /\ M[e + 1] \in Seq(Part) /\ e + 1 \in 1..(Len(s) + 1)
  <2>1. v - 1 \in 0..Len(s) /\ v + 2 \in Nat \ {0} /\ e + 1 \in 1..(Len(s) + 1)
    BY <1>1, <1>2
  <2>2. X \in Seq(Part)
    BY <1>3, <2>1, PartTypes
  <2>3. VariableAt(s, v + 2) \in Part
    BY <2>1, PartTypes
  <2>4. M \in [1..(Len(s) + 1) -> Seq(Part)]
    BY MeaningsStep
  <2> HIDE DEF M, X
  <2>5. M[e + 1] \in Seq(Part)
    BY <2>1, <2>4
  <2>6. Y \in Seq(Part)
    BY <2>3
  <2> QED
    BY <2>1, <2>2, <2>5, <2>6
<1>11. M[1] = (parts \o X \o Y) \o M[e + 1]
  <2>1. M[1] = parts \o M[b]
    BY DEF Buffered
  <2> HIDE DEF M, X, Y
  <2>2. X \o Y \in Seq(Part)
    BY <1>10, ConcatProperties
  <2>3. (parts \o X) \o Y = parts \o (X \o Y)
    BY <1>10, ConcatParts
  <2>4. (parts \o (X \o Y)) \o M[e + 1] = parts \o ((X \o Y) \o M[e + 1])
    BY <1>10, <2>2, ConcatParts
  <2> QED
    BY <1>9, <2>1, <2>3, <2>4
<1>12. e + 1 <= Len(s) => ~Escaped(s, e + 1)
  <2>1. e \in 1..Len(s)
    BY <1>1, <1>2
  <2>2. s[e] = "}"
    BY DEF Ends, Raw
  <2> QED
    BY <2>1, <2>2, EscapedNext
<1>13. <<>> = Plain(s, e + 1, (e + 1) - 1)
  <2>1. e + 1 \in Nat \ {0} /\ (e + 1) - 1 \in 0..Len(s) /\ (e + 1) - 1 < e + 1
    BY <1>1, <1>2
  <2> QED
    BY <2>1, PlainStep
<1>14. \A i \in Begins(s, e + 1) : ~(i < e + 1)
  <2>1. \A i \in (e + 1)..(Len(s) - 1) : ~(i < e + 1)
    BY <1>2
  <2> QED
    BY <2>1 DEF Begins
<1> HIDE DEF X, Y
<1>15. Buffered(s, <<>>, parts \o X \o Y, e + 1, e + 1)
  BY <1>11, <1>12, <1>13, <1>14 DEF Buffered
<1> QED
  BY <1>8, <1>15 DEF X, Y

(***************************************************************************)
(* Within a variable a piece of text is passed that has neither a token    *)
(* nor a backslash in it.                                                  *)
(***************************************************************************)
LEMMA InsideBytes ==
  ASSUME NEW s \in Seq(Char), NEW p \in 1..Len(s), NEW v \in 1..p, NEW q \in (p + 1)..(Len(s) + 1),
         \A i \in p..(q - 1) : s[i] # "\\"
  PROVE  /\ Inside(s, v, p) /\ (\A i \in p..(q - 1) : s[i] # "}") => Inside(s, v, q)
         /\ NoDash(s, v, p) /\ (\A i \in p..(q - 1) : s[i] # "-") => NoDash(s, v, q)
         /\ \A u \in 1..p : \A buf : Scanned(s, buf, u, p) => Scanned(s, buf \o SubSeq(s, p, q - 1), u, q)
<1>1. q <= Len(s) => ~Escaped(s, q)
  <2>1. q - 1 \in 1..Len(s) /\ q - 1 \in p..(q - 1) /\ (q - 1) + 1 = q
    OBVIOUS
  <2>2. Escaped(s, (q - 1) + 1) <=> s[q - 1] = "\\" /\ ~Escaped(s, q - 1)
    BY <2>1, EscapedNext
  <2> QED
    BY <2>1, <2>2
<1>2. \A j \in v..(q - 1) : j \in v..(p - 1) \/ j \in p..(q - 1)
  OBVIOUS
<1>3. ASSUME Inside(s, v, p), \A i \in p..(q - 1) : s[i] # "}" PROVE Inside(s, v, q)
  <2>0. v \in 3..p
    BY <1>3 DEF Inside
  <2>1. v - 2 \in Begins(s, 1) /\ \A j \in v..(p - 1) : ~Raw(s, j, "}")
    BY <1>3 DEF Inside
  <2>2. \A j \in p..(q - 1) : ~Raw(s, j, "}")
    BY <1>3 DEF Raw
  <2>3. v \in 3..q
    BY <2>0
  <2> QED
    BY <1>1, <1>2, <2>1, <2>2, <2>3 DEF Inside
<1>4. ASSUME NoDash(s, v, p), \A i \in p..(q - 1) : s[i] # "-" PROVE NoDash(s, v, q)
  <2>1. \A j \in p..(q - 1) : ~Raw(s, j, "-")
    BY <1>4 DEF Raw
  <2> QED
    BY <1>2, <1>4, <2>1 DEF NoDash
<1>5. ASSUME NEW u \in 1..p, NEW buf, Scanned(s, buf, u, p)
      PROVE  Scanned(s, buf \o SubSeq(s, p, q - 1), u, q)
  <2>1. u \in Nat \ {0} /\ p \in 1..(Len(s) + 1) /\ u <= p /\ q \in p..(Len(s) + 1) /\ p <= Len(s)
    OBVIOUS
  <2>2. Plain(s, u, q - 1) = Plain(s, u, p - 1) \o SubSeq(s, p, q - 1)
    BY <2>1, PlainTake
  <2>3. buf = Plain(s, u, p - 1)
    BY <1>5, <2>1 DEF Scanned
  <2> QED
    BY <2>2, <2>3 DEF Scanned
<1> QED
  BY <1>3, <1>4, <1>5

(***************************************************************************)
(* So is a backslash with the character behind it.                         *)
(***************************************************************************)
LEMMA InsideBackslash ==
  ASSUME NEW s \in Seq(Char), NEW p \in 1..Len(s), NEW v \in 1..p, Inside(s, v, p), Raw(s, p, "\\")
  PROVE  /\ p < Len(s) =>
              /\ Inside(s, v, p + 2)
              /\ NoDash(s, v, p) => NoDash(s, v, p + 2)
              /\ \A u \in 1..p : \A buf : Scanned(s, buf, u, p) => Scanned(s, Append(buf, s[p + 1]), u, p + 2)
         /\ p = Len(s) =>
              /\ Inside(s, v, p + 1)
              /\ NoDash(s, v, p) => NoDash(s, v, p + 1)
              /\ \A u, buf : Scanned(s, buf, u, p + 1)
<1>0. v \in 3..p
  BY DEF Inside
<1>1. v - 2 \in Begins(s, 1) /\ \A j \in v..(p - 1) : ~Raw(s, j, "}")
  BY DEF Inside
<1>2. ~Raw(s, p, "}") /\ ~Raw(s, p, "-")
  BY DEF Raw
<1>3. CASE p < Len(s)
  <2>1. p \in 1..(Len(s) - 1)
    BY <1>3
  <2>2. ASSUME NEW u \in 1..p
        PROVE  /\ Plain(s, u, p + 1) = Append(Plain(s, u, p - 1), s[p + 1])
               /\ Escaped(s, p + 1) /\ ~Escaped(s, p + 2)
    <3>1. u \in Nat \ {0} /\ u <= p
      OBVIOUS
    <3> QED
      BY <2>1, <3>1, PlainEscaped DEF Raw
  <2>3. ~Raw(s, p + 1, "}") /\ ~Raw(s, p + 1, "-") /\ ~Escaped(s, p + 2)
    BY <2>2 DEF Raw
  <2>4. \A j \in v..((p + 2) - 1) : j \in v..(p - 1) \/ j = p \/ j = p + 1
    OBVIOUS
  <2>5. Inside(s, v, p + 2)
    <3>1. v \in 3..(p + 2)
      BY <1>0
    <3>2. \A j \in v..((p + 2) - 1) : ~Raw(s, j, "}")
      BY <1>1, <1>2, <2>3, <2>4
    <3> QED
      BY <1>1, <2>3, <3>1, <3>2 DEF Inside
  <2>6. NoDash(s, v, p) => NoDash(s, v, p + 2)
    BY <1>2, <2>3, <2>4 DEF NoDash
  <2>7. ASSUME NEW u \in 1..p, NEW buf, Scanned(s, buf, u, p)
        PROVE  Scanned(s, Append(buf, s[p + 1]), u, p + 2)
    <3>1. buf = Plain(s, u, p - 1) /\ (p + 2) - 1 = p + 1
      BY <1>3, <2>7 DEF Scanned
    <3> QED
      BY <2>2, <3>1 DEF Scanned
  <2> QED
    BY <1>3, <2>5, <2>6, <2>7
<1>4. CASE p = Len(s)
  <2>1. \A j \in v..((p + 1) - 1) : j \in v..(p - 1) \/ j = p
    OBVIOUS
  <2>2. ~(p + 1 <= Len(s)) /\ v \in 3..(p + 1)
    BY <1>0, <1>4
  <2>3. \A j \in v..((p + 1) - 1) : ~Raw(s, j, "}")
    BY <1>1, <1>2, <2>1
  <2>4. Inside(s, v, p + 1)
    BY <1>1, <2>2, <2>3 DEF Inside
  <2>5. NoDash(s, v, p) => NoDash(s, v, p + 1)
    BY <1>2, <2>1 DEF NoDash
  <2>6. \A u, buf : Scanned(s, buf, u, p + 1)
    BY <2>2 DEF Scanned
  <2> QED
    BY <1>4, <2>4, <2>5, <2>6
<1> QED
  BY <1>3, <1>4

(***************************************************************************)
(* The variable that is closed at p, without and with a default.           *)
(***************************************************************************)
LEMMA ClosedAt ==
  ASSUME NEW s \in Seq(Char), NEW p \in 1..Len(s), NEW v \in 1..p, Inside(s, v, p), p \in Ends(s, v)
  PROVE  /\ \A j \in Ends(s, v) : p <= j
         /\ NoDash(s, v, p) => VariableAt(s, v) = Variable(Plain(s, v, p - 1), <<>>, FALSE)
         /\ \A d \in v..(p - 1) : NoDash(s, v, d) /\ Raw(s, d, "-") =>
              VariableAt(s, v) = Variable(Plain(s, v, d - 1), Plain(s, d + 1, p - 1), TRUE)
<1>2. ASSUME NEW j \in Ends(s, v) PROVE p <= j
  <2>1. j \in v..Len(s)
    BY DEF Ends
  <2>2. j \notin v..(p - 1)
    BY DEF Inside, Ends
  <2> QED
    BY <2>1, <2>2
<1>3. Min(Ends(s, v)) = p
  <2>1. v \in Nat \ {0}
    OBVIOUS
  <2>2. Min(Ends(s, v)) \in Ends(s, v) /\ Min(Ends(s, v)) <= p
    BY <2>1, FirstIn
  <2>3. p <= Min(Ends(s, v)) /\ Min(Ends(s, v)) \in v..Len(s)
    <3>1. Ends(s, v) \subseteq v..Len(s)
      BY DEF Ends
    <3> QED
      BY <1>2, <2>2, <3>1
  <2> QED
    BY <2>2, <2>3
<1> DEFINE dashes == {d \in v..(p - 1) : Raw(s, d, "-")}
           dash == IF dashes = {} THEN p ELSE Min(dashes)
<1>4. VariableAt(s, v) = Variable(Plain(s, v, dash - 1), Plain(s, dash + 1, p - 1), dashes # {})
  BY <1>3 DEF VariableAt
<1>5. ASSUME NoDash(s, v, p)
      PROVE  VariableAt(s, v) = Variable(Plain(s, v, p - 1), <<>>, FALSE)
  <2>1. dashes = {}
    BY <1>5 DEF NoDash
  <2>2. dash = p
    BY <2>1
  <2>3. Plain(s, p + 1, p - 1) = <<>>
    <3>1. p + 1 \in Nat \ {0} /\ p - 1 \in 0..Len(s) /\ p - 1 < p + 1
      OBVIOUS
    <3> QED
      BY <3>1, PlainStep
  <2>4. (dashes # {}) = FALSE
    BY <2>1
  <2> HIDE DEF dash, dashes
  <2> QED
    BY <1>4, <2>2, <2>3, <2>4
<1>6. ASSUME NEW d \in v..(p - 1), NoDash(s, v, d), Raw(s, d, "-")
      PROVE  VariableAt(s, v) = Variable(Plain(s, v, d - 1), Plain(s, d + 1, p - 1), TRUE)
  <2>1. d \in dashes
    BY <1>6
  <2>2. dashes \subseteq v..(p - 1) /\ dashes \subseteq Nat
    OBVIOUS
  <2>3. Min(dashes) \in dashes /\ Min(dashes) <= d
    <3> HIDE DEF dashes
    <3> QED
      BY <2>1, <2>2, MinIn
  <2>4. Min(dashes) \in v..(p - 1) /\ Raw(s, Min(dashes), "-")
    BY <2>3
  <2>5. Min(dashes) \notin v..(d - 1)
    BY <1>6, <2>4 DEF NoDash
  <2>6. Min(dashes) = d
    <3> HIDE DEF dashes
    <3> QED
      BY <2>3, <2>4, <2>5
  <2>7. dash = d /\ (dashes # {}) = TRUE
    BY <2>1, <2>6
  <2> HIDE DEF dash, dashes
  <2> QED
    BY <1>4, <2>7
<1> QED
  BY <1>2, <1>5, <1>6

-----------------------------------------------------------------------------
(***************************************************************************)
(* A prefix agrees with the sequence as far as it goes.                    *)
(***************************************************************************)
LEMMA PrefixAgrees ==
  \A a, b \in Seq(Char) : IsPrefix(a, b) <=> Len(a) <= Len(b) /\ \A i \in 1..Len(a) : a[i] = b[i]
<1> SUFFICES ASSUME NEW a \in Seq(Char), NEW b \in Seq(Char), Len(a) <= Len(b)
             PROVE  SubSeq(a, 1, Len(a)) = SubSeq(b, 1, Len(a)) <=> \A i \in 1..Len(a) : a[i] = b[i]
  BY DEF IsPrefix
<1> DEFINE n == Len(a)
           x == SubSeq(a, 1, n)
           y == SubSeq(b, 1, n)
<1>1. n \in Nat /\ 1 \in Int /\ n \in Int
  OBVIOUS
<1>2. (\A i \in 1..n : a[i] \in Char) /\ (\A i \in 1..n : b[i] \in Char)
  OBVIOUS
<1>3. (IF 1 <= n THEN n - 1 + 1 ELSE 0) = n /\ n - 1 + 1 = n
  BY <1>1
<1>4. x \in Seq(Char) /\ Len(x) = n /\ \A i \in 1..n : x[i] = a[1 + i - 1]
  <2> HIDE DEF n
  <2> QED
    BY <1>1, <1>2, <1>3, SubSeqProperties
<1>5. y \in Seq(Char) /\ Len(y) = n /\ \A i \in 1..n : y[i] = b[1 + i - 1]
  <2> HIDE DEF n
  <2> QED
    BY <1>1, <1>2, <1>3, SubSeqProperties
<1>6. \A i \in 1..n : 1 + i - 1 = i
  BY <1>1
<1>7. \A i \in 1..n : x[i] = a[i] /\ y[i] = b[i]
  <2> HIDE DEF x, y, n
  <2> QED
    BY <1>4, <1>5, <1>6
<1> HIDE DEF x, y, n
<1>8. (\A i \in 1..n : x[i] = y[i]) => x = y
  BY <1>4, <1>5, SeqEqual
<1>9. x = y <=> \A i \in 1..n : a[i] = b[i]
  BY <1>7, <1>8
<1> QED
  BY <1>9 DEF x, y, n

(***************************************************************************)
(* A token of one or two characters is next if these characters are.       *)
(***************************************************************************)
LEMMA NextTokens ==
  ASSUME TypeOK
  PROVE  /\ \A c \in Char : nextToken(<<c>>) <=> hasNext(pos) /\ in[pos] = c
         /\ \A c, d \in Char : nextToken(<<c, d>>) <=> pos < Len(in) /\ in[pos] = c /\ in[pos + 1] = d
<1>1. in \in Seq(Char) /\ pos \in 1..(Len(in) + 1)
  BY DEF TypeOK
<1> DEFINE rest == SubSeq(in, pos, Len(in))
<1>2. ASSUME hasNext(pos)
      PROVE  /\ rest \in Seq(Char) /\ Len(rest) = Len(in) - pos + 1 /\ rest[1] = in[pos]
             /\ pos < Len(in) => rest[2] = in[pos + 1]
  BY <1>1, <1>2 DEF hasNext
<1> HIDE DEF rest
<1>3. ASSUME NEW c \in Char PROVE nextToken(<<c>>) <=> hasNext(pos) /\ in[pos] = c
  <2>1. <<c>> \in Seq(Char) /\ Len(<<c>>) = 1 /\ <<c>>[1] = c
    OBVIOUS
  <2>2. ASSUME hasNext(pos) PROVE IsPrefix(<<c>>, rest) <=> in[pos] = c
    <3>1. 1 <= Len(rest)
      BY <1>1, <1>2, <2>2 DEF hasNext
    <3>2. IsPrefix(<<c>>, rest) <=> Len(<<c>>) <= Len(rest) /\ \A i \in 1..Len(<<c>>) : <<c>>[i] = rest[i]
      BY <1>2, <2>1, <2>2, PrefixAgrees
    <3>3. (\A i \in 1..1 : <<c>>[i] = rest[i]) <=> c = rest[1]
      BY <2>1
    <3> QED
      BY <1>2, <2>1, <2>2, <3>1, <3>2, <3>3
  <2> QED
    BY <2>2 DEF nextToken, rest
<1>4. ASSUME NEW c \in Char, NEW d \in Char
      PROVE  nextToken(<<c, d>>) <=> pos < Len(in) /\ in[pos] = c /\ in[pos + 1] = d
  <2>1. <<c, d>> \in Seq(Char) /\ Len(<<c, d>>) = 2 /\ <<c, d>>[1] = c /\ <<c, d>>[2] = d
    OBVIOUS
  <2>2. ASSUME hasNext(pos)
        PROVE  IsPrefix(<<c, d>>, rest) <=> pos < Len(in) /\ in[pos] = c /\ in[pos + 1] = d
    <3>1. 2 <= Len(rest) <=> pos < Len(in)
      BY <1>1, <1>2, <2>2 DEF hasNext
    <3>2. IsPrefix(<<c, d>>, rest) <=>
            Len(<<c, d>>) <= Len(rest) /\ \A i \in 1..Len(<<c, d>>) : <<c, d>>[i] = rest[i]
      BY <1>2, <2>1, <2>2, PrefixAgrees
    <3>3. (\A i \in 1..2 : <<c, d>>[i] = rest[i]) <=> c = rest[1] /\ d = rest[2]
      <4>1. \A i \in 1..2 : i = 1 \/ i = 2
        OBVIOUS
      <4>2. 1 \in 1..2 /\ 2 \in 1..2
        OBVIOUS
      <4> QED
        BY <2>1, <4>1, <4>2
    <3> QED
      BY <1>2, <2>1, <2>2, <3>1, <3>2, <3>3
  <2>3. pos < Len(in) => hasNext(pos)
    BY <1>1 DEF hasNext
  <2> QED
    BY <2>2, <2>3 DEF nextToken, rest
<1> QED
  BY <1>3, <1>4

(***************************************************************************)
(* The bytes up to a set of characters: at least one, and no other of them *)
(* is in the set.                                                          *)
(***************************************************************************)
LEMMA UntilStops ==
  ASSUME TypeOK, hasNext(pos), NEW stops
  PROVE  /\ Until(stops) \in (pos + 1)..(Len(in) + 1)
         /\ \A r \in (pos + 1)..(Until(stops) - 1) : in[r] \notin stops
<1>1. in \in Seq(Char) /\ pos \in 1..Len(in)
  BY DEF TypeOK, hasNext
<1> DEFINE T == {q \in (pos + 1)..(Len(in) + 1) : q = Len(in) + 1 \/ in[q] \in stops}
<1>2. T \subseteq Nat /\ Len(in) + 1 \in T
  BY <1>1
<1>3. PICK q \in T : \A x \in T : q <= x
  <2> HIDE DEF T
  <2> QED
    BY <1>2, LeastNat
<1>4. q \in (pos + 1)..(Len(in) + 1) /\ (q = Len(in) + 1 \/ in[q] \in stops)
  OBVIOUS
<1>5. ASSUME NEW r \in (pos + 1)..(q - 1) PROVE in[r] \notin stops
  <2>1. r \in (pos + 1)..(Len(in) + 1) /\ ~(q <= r)
    BY <1>1, <1>4
  <2> QED
    BY <1>3, <2>1
<1> QED
  BY <1>4, <1>5 DEF Until

(***************************************************************************)
(* The characters of the tokens.                                           *)
(***************************************************************************)
LEMMA Characters ==
  "\\" \in Char /\ "-" \in Char /\ "}" \in Char /\ "{" \in Char /\ Sigil \in Char
BY Zenon, TextAssumption

(***************************************************************************)
(* What it means that a token is next.                                     *)
(***************************************************************************)
LEMMA Tokens ==
  ASSUME TypeOK
  PROVE  /\ nextToken(tokenBackslash) <=> hasNext(pos) /\ in[pos] = "\\"
         /\ nextToken(tokenDefaultVal) <=> hasNext(pos) /\ in[pos] = "-"
         /\ nextToken(tokenVarEnd) <=> hasNext(pos) /\ in[pos] = "}"
         /\ nextToken(tokenVarBegin) <=> pos < Len(in) /\ in[pos] = Sigil /\ in[pos + 1] = "{"
<1>1. "\\" \in Char /\ "-" \in Char /\ "}" \in Char /\ "{" \in Char /\ Sigil \in Char
  BY Characters
<1>2. nextToken(tokenBackslash) <=> hasNext(pos) /\ in[pos] = "\\"
  BY <1>1, NextTokens DEF tokenBackslash
<1>3. nextToken(tokenDefaultVal) <=> hasNext(pos) /\ in[pos] = "-"
  BY <1>1, NextTokens DEF tokenDefaultVal
<1>4. nextToken(tokenVarEnd) <=> hasNext(pos) /\ in[pos] = "}"
  BY <1>1, NextTokens DEF tokenVarEnd
<1>5. nextToken(tokenVarBegin) <=> pos < Len(in) /\ in[pos] = Sigil /\ in[pos + 1] = "{"
  BY <1>1, NextTokens DEF tokenVarBegin
<1> QED
  BY <1>2, <1>3, <1>4, <1>5

(***************************************************************************)
(* The tokens have their length, and the two of a variable's beginning are *)
(* characters.                                                             *)
(***************************************************************************)
LEMMA TokenTypes ==
  /\ Len(tokenVarBegin) = 2 /\ Len(tokenDefaultVal) = 1 /\ Len(tokenVarEnd) = 1
  /\ tokenVarBegin \in Seq(Char) /\ tokenBackslash \in Seq(Char)
<1>1. \A c, d \in Char : Len(<<c, d>>) = 2 /\ <<c, d>> \in Seq(Char)
  OBVIOUS
<1>2. \A c \in Char : Len(<<c>>) = 1 /\ <<c>> \in Seq(Char)
  OBVIOUS
<1>3. "\\" \in Char /\ "-" \in Char /\ "}" \in Char /\ "{" \in Char /\ Sigil \in Char
  BY Characters
<1> QED
  BY <1>1, <1>2, <1>3 DEF tokenVarBegin, tokenBackslash, tokenDefaultVal, tokenVarEnd

(***************************************************************************)
(* A backslash and a piece of text are taken into a buffer of characters,  *)
(* and the position stays within the text.                                 *)
(***************************************************************************)
LEMMA TakeTypes ==
  ASSUME TypeOK, NEW buf \in Seq(Char), NEW buf1
  PROVE  /\ \A atEnd \in Seq(Char) : \A p1 :
              /\ nextToken(tokenBackslash)
              /\ IF hasNext(pos + 1) THEN buf1 = Append(buf, in[pos + 1]) /\ p1 = pos + 2
                 ELSE buf1 = buf \o atEnd /\ p1 = pos + 1
              => buf1 \in Seq(Char) /\ p1 \in 1..(Len(in) + 1)
         /\ \A stops, p1 :
              /\ hasNext(pos)
              /\ p1 = Until(stops) /\ buf1 = buf \o SubSeq(in, pos, p1 - 1)
              => buf1 \in Seq(Char) /\ p1 \in 1..(Len(in) + 1)
<1>1. in \in Seq(Char) /\ pos \in 1..(Len(in) + 1)
  BY DEF TypeOK
<1>2. ASSUME NEW atEnd \in Seq(Char), NEW p1, hasNext(pos),
             IF hasNext(pos + 1) THEN buf1 = Append(buf, in[pos + 1]) /\ p1 = pos + 2
             ELSE buf1 = buf \o atEnd /\ p1 = pos + 1
      PROVE  buf1 \in Seq(Char) /\ p1 \in 1..(Len(in) + 1)
  <2>1. CASE hasNext(pos + 1)
    <3>1. in[pos + 1] \in Char /\ pos + 2 \in 1..(Len(in) + 1)
      BY <1>1, <2>1 DEF hasNext
    <3> QED
      BY <1>2, <2>1, <3>1, AppendProperties
  <2>2. CASE ~hasNext(pos + 1)
    <3>1. pos + 1 \in 1..(Len(in) + 1)
      BY <1>1, <1>2 DEF hasNext
    <3> QED
      BY <1>2, <2>2, <3>1, ConcatProperties
  <2> QED
    BY <2>1, <2>2
<1>3. ASSUME NEW stops, NEW p1, hasNext(pos), p1 = Until(stops), buf1 = buf \o SubSeq(in, pos, p1 - 1)
      PROVE  buf1 \in Seq(Char) /\ p1 \in 1..(Len(in) + 1)
  <2>1. p1 \in (pos + 1)..(Len(in) + 1)
    BY <1>3, UntilStops
  <2>2. SubSeq(in, pos, p1 - 1) \in Seq(Char)
    BY <1>1, <2>1
  <2>3. p1 \in 1..(Len(in) + 1)
    BY <1>1, <2>1
  <2> QED
    BY <1>3, <2>2, <2>3, ConcatProperties
<1>4. nextToken(tokenBackslash) => hasNext(pos)
  BY DEF nextToken
<1> QED
  BY <1>2, <1>3, <1>4

(***************************************************************************)
(* Every step keeps the types.                                             *)
(***************************************************************************)
LEMMA TypeStep ==
  ASSUME TypeOK, [Next]_vars
  PROVE  TypeOK'
<1>1. /\ in \in Seq(Char) /\ pos \in 1..(Len(in) + 1)
      /\ litBuf \in Seq(Char) /\ varBuf \in Seq(Char) /\ defBuf \in Seq(Char)
      /\ def \in BOOLEAN /\ begin \in 1..(Len(in) + 1) /\ out \in Seq(Part)
  BY DEF TypeOK
<1>2. <<>> \in Seq(Char) /\ <<>> \in Seq(Part)
  OBVIOUS
<1>3. appendBuffer \in Seq(Part)
  <2>1. Literal(litBuf) \in Part
    BY <1>1 DEF Literal, Part
  <2> QED
    BY <1>1, <2>1, AppendProperties DEF appendBuffer
<1>4. CASE ParseBackslash
  <2>1. litBuf' \in Seq(Char) /\ pos' \in 1..(Len(in) + 1)
    BY <1>1, <1>4, TakeTypes, TokenTypes DEF ParseBackslash, TakeEscaped
  <2> QED
    BY <1>4, <2>1 DEF ParseBackslash, TypeOK, variable
<1>5. CASE BeginVariable
  <2>1. pos' \in 1..(Len(in) + 1)
    <3>1. pos' = pos + 2 /\ pos < Len(in)
      BY <1>5, Tokens, TokenTypes DEF BeginVariable
    <3> QED
      BY <1>1, <3>1
  <2> QED
    BY <1>2, <1>5, <2>1 DEF BeginVariable, TypeOK
<1>6. CASE ParseLiteral
  <2>1. litBuf' \in Seq(Char) /\ pos' \in 1..(Len(in) + 1)
    BY <1>1, <1>6, TakeTypes DEF ParseLiteral, TakeBytes
  <2> QED
    BY <1>6, <2>1 DEF ParseLiteral, TypeOK, variable
<1>7. CASE ParseEnd
  BY <1>2, <1>3, <1>7 DEF ParseEnd, TypeOK, variable
<1>8. CASE VariableBackslash
  <2>1. varBuf' \in Seq(Char) /\ pos' \in 1..(Len(in) + 1)
    BY <1>1, <1>2, <1>8, TakeTypes DEF VariableBackslash, TakeEscaped
  <2> QED
    BY <1>8, <2>1 DEF VariableBackslash, TypeOK
<1>9. CASE BeginDefault
  <2>1. pos' \in 1..(Len(in) + 1)
    <3>1. pos' = pos + 1 /\ pos <= Len(in)
      BY <1>9, TokenTypes DEF BeginDefault, nextToken, hasNext
    <3> QED
      BY <1>1, <3>1
  <2> QED
    BY <1>9, <2>1 DEF BeginDefault, TypeOK
<1>10. CASE CloseVariable
  <2>1. pos' \in 1..(Len(in) + 1)
    <3>1. pos' = pos + 1 /\ pos <= Len(in)
      BY <1>10, TokenTypes DEF CloseVariable, nextToken, hasNext
    <3> QED
      BY <1>1, <3>1
  <2>2. Variable(varBuf, defBuf, def) \in Part
    BY <1>1 DEF Variable, Part
  <2>3. out' \in Seq(Part)
    BY <1>3, <1>10, <2>2, AppendProperties DEF CloseVariable, appendVariable
  <2> QED
    BY <1>2, <1>10, <2>1, <2>3 DEF CloseVariable, TypeOK, variable
<1>11. CASE VariableBytes
  <2>1. varBuf' \in Seq(Char) /\ pos' \in 1..(Len(in) + 1)
    BY <1>1, <1>11, TakeTypes DEF VariableBytes, TakeBytes
  <2> QED
    BY <1>11, <2>1 DEF VariableBytes, TypeOK
<1>12. CASE NotClosed
  <2>1. litBuf' \in Seq(Char)
    BY <1>1, <1>12, TokenTypes, ConcatProperties DEF NotClosed
  <2> QED
    BY <1>12, <2>1 DEF NotClosed, TypeOK, variable
<1>13. CASE DefaultBackslash
  <2>1. defBuf' \in Seq(Char) /\ pos' \in 1..(Len(in) + 1)
    BY <1>1, <1>2, <1>13, TakeTypes DEF DefaultBackslash, TakeEscaped
  <2> QED
    BY <1>13, <2>1 DEF DefaultBackslash, TypeOK
<1>14. CASE EndDefault
  BY <1>14 DEF EndDefault, TypeOK, variable
<1>15. CASE DefaultBytes
  <2>1. defBuf' \in Seq(Char) /\ pos' \in 1..(Len(in) + 1)
    BY <1>1, <1>15, TakeTypes DEF DefaultBytes, TakeBytes
  <2> QED
    BY <1>15, <2>1 DEF DefaultBytes, TypeOK
<1>16. CASE UNCHANGED vars
  BY <1>16 DEF vars, variable, TypeOK
<1> QED
  BY <1>4, <1>5, <1>6, <1>7, <1>8, <1>9, <1>10, <1>11, <1>12, <1>13, <1>14, <1>15, <1>16 DEF Next

-----------------------------------------------------------------------------
(***************************************************************************)
(* Where a variable begins, its text begins two characters further on.     *)
(***************************************************************************)
LEMMA OpensAt ==
  ASSUME NEW s \in Seq(Char), NEW p \in 1..(Len(s) - 1), p \in Begins(s, 1)
  PROVE  Inside(s, p + 2, p + 2) /\ s[p] # "\\" /\ s[p + 1] # "\\" /\ p + 1 \notin Begins(s, 1)
<1>1. s[p] = Sigil /\ s[p + 1] = "{"
  BY DEF Begins, Raw
<1>2. s[p] # "\\" /\ s[p + 1] # "\\" /\ s[p + 1] # Sigil
  BY Zenon, <1>1, TextAssumption
<1>3. p + 1 \notin Begins(s, 1)
  BY <1>2 DEF Begins, Raw
<1>4. p + 1 \in 1..Len(s) /\ (p + 1) + 1 = p + 2
  OBVIOUS
<1>5. Escaped(s, (p + 1) + 1) <=> s[p + 1] = "\\" /\ ~Escaped(s, p + 1)
  BY <1>4, EscapedNext
<1>6. ~Escaped(s, p + 2)
  BY <1>2, <1>4, <1>5
<1>7. p + 2 \in 3..(p + 2) /\ (p + 2) - 2 = p /\ (p + 2)..((p + 2) - 1) = {}
  OBVIOUS
<1>8. \A j \in {} : ~Raw(s, j, "}")
  OBVIOUS
<1>9. Inside(s, p + 2, p + 2)
  BY <1>6, <1>7, <1>8 DEF Inside
<1> QED
  BY <1>2, <1>3, <1>9

LEMMA TwoBytes ==
  ASSUME NEW s \in Seq(Char), NEW p \in 1..(Len(s) - 1)
  PROVE  SubSeq(s, p, p + 1) = <<s[p], s[p + 1]>>
<1> DEFINE x == SubSeq(s, p, p + 1)
           y == <<s[p], s[p + 1]>>
<1>1. s[p] \in Char /\ s[p + 1] \in Char
  OBVIOUS
<1>2. \A i \in p..(p + 1) : s[i] \in Char
  OBVIOUS
<1>3. p \in Int /\ p + 1 \in Int /\ (IF p <= p + 1 THEN (p + 1) - p + 1 ELSE 0) = 2 /\ (p + 1) - p + 1 = 2
  OBVIOUS
<1>4. x \in Seq(Char) /\ Len(x) = 2 /\ \A i \in 1..2 : x[i] = s[p + i - 1]
  BY <1>2, <1>3, SubSeqProperties
<1>5. y \in Seq(Char) /\ Len(y) = 2 /\ y[1] = s[p] /\ y[2] = s[p + 1]
  BY <1>1
<1>6. 1 \in 1..2 /\ 2 \in 1..2 /\ p + 1 - 1 = p /\ p + 2 - 1 = p + 1 /\ \A i \in 1..2 : i = 1 \/ i = 2
  OBVIOUS
<1> HIDE DEF x, y
<1>7. x[1] = s[p] /\ x[2] = s[p + 1]
  <2>1. x[1] = s[p + 1 - 1] /\ x[2] = s[p + 2 - 1]
    BY <1>4, <1>6
  <2> QED
    BY <1>6, <2>1
<1>8. \A i \in 1..Len(x) : x[i] = y[i]
  BY <1>4, <1>5, <1>6, <1>7
<1>9. x = y
  BY <1>4, <1>5, <1>8, SeqEqual
<1> QED
  BY <1>9 DEF x, y

(***************************************************************************)
(* A variable that the text does not close: its two first characters are   *)
(* a literal.                                                              *)
(***************************************************************************)
LEMMA NeverCloses ==
  ASSUME NEW s \in Seq(Char), NEW lit, NEW parts, NEW p \in 1..(Len(s) - 1), p \in Begins(s, 1),
         NEW b \in 1..p, Buffered(s, lit, parts, b, p), Inside(s, p + 2, Len(s) + 1)
  PROVE  Buffered(s, lit \o tokenVarBegin, parts, b, p + 2)
<1>1. Ends(s, p + 2) = {}
  <2>1. (Len(s) + 1) - 1 = Len(s)
    OBVIOUS
  <2>2. \A j \in (p + 2)..Len(s) : ~Raw(s, j, "}")
    BY <2>1 DEF Inside
  <2> QED
    BY <2>2 DEF Ends
<1>2. \A i \in p..((p + 2) - 1) : i = p \/ i = p + 1
  OBVIOUS
<1>3. \A i \in p..((p + 2) - 1) : s[i] # "\\"
  BY <1>2, OpensAt
<1>4. ASSUME NEW i \in Begins(s, p), i < p + 2 PROVE Ends(s, i + 2) = {}
  <2>1. i \in p..(Len(s) - 1)
    BY DEF Begins
  <2>2. i = p \/ i = p + 1
    BY <1>4, <2>1
  <2>3. p + 1 \notin Begins(s, p)
    <3>1. p + 1 \in p..(Len(s) - 1) => p + 1 \in 1..(Len(s) - 1)
      OBVIOUS
    <3>2. p + 1 \notin Begins(s, 1)
      BY OpensAt
    <3> QED
      BY <3>1, <3>2 DEF Begins
  <2> QED
    BY <1>1, <2>2, <2>3
<1>5. SubSeq(s, p, (p + 2) - 1) = tokenVarBegin
  <2>1. SubSeq(s, p, (p + 2) - 1) = <<s[p], s[p + 1]>>
    <3>1. (p + 2) - 1 = p + 1
      OBVIOUS
    <3> QED
      BY <3>1, TwoBytes
  <2>2. s[p] = Sigil /\ s[p + 1] = "{"
    BY DEF Begins, Raw
  <2> QED
    BY <2>1, <2>2 DEF tokenVarBegin
<1>6. p \in 1..Len(s) /\ p + 2 \in (p + 1)..(Len(s) + 1)
  OBVIOUS
<1> QED
  BY <1>3, <1>4, <1>5, <1>6, BufferBytes

-----------------------------------------------------------------------------
\* The buffer of literals holds the text up to p, from some position on.
Gathered(p) == \E b \in 1..p : Buffered(in, litBuf, out, b, p)

\* The name goes up to pos.
InName ==
  /\ ~def
  /\ NoDash(in, begin, pos)
  /\ Scanned(in, varBuf, begin, pos)
  /\ defBuf = <<>>

\* The name goes up to the first dash, and the default from there to pos.
InDefault ==
  /\ def
  /\ \E d \in begin..(pos - 1) :
       /\ Raw(in, d, "-")
       /\ NoDash(in, begin, d)
       /\ varBuf = Plain(in, begin, d - 1)
       /\ Scanned(in, defBuf, d + 1, pos)

Parsing ==
  /\ loop = "parse" => Gathered(pos)
  /\ loop \in {"variable", "default"} => Inside(in, begin, pos) /\ Gathered(begin - 2)
  /\ loop = "variable" => InName \/ (InDefault /\ (nextToken(tokenVarEnd) \/ ~hasNext(pos)))
  /\ loop = "default" => InDefault

IInv == TypeOK /\ Parsing /\ ParseMeansText

(***************************************************************************)
(* The steps of parse.                                                     *)
(***************************************************************************)
LEMMA ParseBackslashStep ==
  ASSUME IInv, ParseBackslash
  PROVE  Parsing'
<1>1. in \in Seq(Char) /\ pos \in 1..Len(in) /\ in[pos] = "\\"
  <2>1. hasNext(pos) /\ in[pos] = "\\"
    BY Tokens DEF IInv, ParseBackslash, TakeEscaped
  <2> QED
    BY <2>1 DEF IInv, TypeOK, hasNext
<1>2. PICK b \in 1..pos : Buffered(in, litBuf, out, b, pos)
  BY DEF IInv, Parsing, Gathered, ParseBackslash
<1>3. /\ pos < Len(in) => Buffered(in, Append(litBuf, in[pos + 1]), out, b, pos + 2)
      /\ pos = Len(in) => Buffered(in, litBuf \o tokenBackslash, out, b, pos + 1)
  BY <1>1, <1>2, BufferBackslash DEF tokenBackslash
<1>4. IF pos < Len(in) THEN litBuf' = Append(litBuf, in[pos + 1]) /\ pos' = pos + 2
      ELSE litBuf' = litBuf \o tokenBackslash /\ pos' = pos + 1
  <2>1. hasNext(pos + 1) <=> pos < Len(in)
    BY <1>1 DEF hasNext
  <2> QED
    BY <2>1 DEF ParseBackslash, TakeEscaped
<1>5. in' = in /\ out' = out /\ loop' = "parse"
  BY DEF ParseBackslash
<1>6. b \in 1..pos' /\ (pos < Len(in) \/ pos = Len(in))
  BY <1>1, <1>4
<1>7. Buffered(in, litBuf', out, b, pos')
  BY <1>3, <1>4, <1>6
<1> QED
  BY <1>5, <1>6, <1>7 DEF Parsing, Gathered

LEMMA BeginVariableStep ==
  ASSUME IInv, BeginVariable
  PROVE  Parsing'
<1>1. in \in Seq(Char) /\ pos \in 1..(Len(in) - 1)
  <2>1. pos < Len(in)
    BY Tokens DEF IInv, BeginVariable
  <2> QED
    BY <2>1 DEF IInv, TypeOK
<1>2. PICK b \in 1..pos : Buffered(in, litBuf, out, b, pos)
  BY DEF IInv, Parsing, Gathered, BeginVariable
<1>3. ~Escaped(in, pos)
  BY <1>1, <1>2 DEF Buffered
<1>4. pos \in Begins(in, 1)
  <2>1. in[pos] = Sigil /\ in[pos + 1] = "{"
    BY Tokens DEF IInv, BeginVariable
  <2> QED
    BY <1>1, <1>3, <2>1 DEF Begins, Raw
<1>5. Inside(in, pos + 2, pos + 2)
  BY <1>1, <1>4, OpensAt
<1>6. /\ in' = in /\ out' = out /\ litBuf' = litBuf /\ loop' = "variable"
      /\ pos' = pos + 2 /\ begin' = pos + 2 /\ varBuf' = <<>> /\ defBuf' = <<>> /\ ~def'
  BY TokenTypes DEF BeginVariable
<1>7. Plain(in, pos + 2, (pos + 2) - 1) = <<>>
  <2>1. pos + 2 \in Nat \ {0} /\ (pos + 2) - 1 \in 0..Len(in) /\ (pos + 2) - 1 < pos + 2
    BY <1>1
  <2> QED
    BY <1>1, <2>1, PlainStep
<1>8. NoDash(in, pos + 2, pos + 2)
  <2>1. (pos + 2)..((pos + 2) - 1) = {}
    BY <1>1
  <2> QED
    BY <2>1 DEF NoDash
<1>9. InName'
  BY <1>6, <1>7, <1>8 DEF InName, Scanned
<1>10. Inside(in', begin', pos')
  BY <1>5, <1>6
<1>11. Gathered(begin - 2)'
  <2>1. begin' - 2 = pos
    BY <1>1, <1>6
  <2> QED
    BY <1>2, <1>6, <2>1 DEF Gathered
<1>12. loop' # "parse" /\ loop' # "default"
  BY <1>6
<1> QED
  BY Zenon, <1>9, <1>10, <1>11, <1>12 DEF Parsing

LEMMA ParseLiteralStep ==
  ASSUME IInv, ParseLiteral
  PROVE  Parsing'
<1> DEFINE q == Until({Sigil, "\\"})
<1>0. TypeOK /\ hasNext(pos)
  BY DEF IInv, ParseLiteral
<1>1. in \in Seq(Char) /\ pos \in 1..Len(in)
  BY <1>0 DEF TypeOK, hasNext
<1>2. PICK b \in 1..pos : Buffered(in, litBuf, out, b, pos)
  BY DEF IInv, Parsing, Gathered, ParseLiteral
<1>3. /\ q \in (pos + 1)..(Len(in) + 1)
      /\ \A r \in (pos + 1)..(q - 1) : in[r] \notin {Sigil, "\\"}
  BY <1>0, UntilStops
<1>4. pos' = q /\ litBuf' = litBuf \o SubSeq(in, pos, q - 1) /\ in' = in /\ out' = out /\ loop' = "parse"
  BY DEF ParseLiteral, TakeBytes
<1> HIDE DEF q
<1>5. \A i \in pos..(q - 1) : i = pos \/ i \in (pos + 1)..(q - 1)
  BY <1>1, <1>3
<1>6. \A i \in pos..(q - 1) : in[i] # "\\"
  <2>1. in[pos] # "\\"
    BY <1>0, Tokens DEF ParseLiteral
  <2> QED
    BY <1>3, <1>5, <2>1
<1>7. ASSUME NEW i \in Begins(in, pos), i < q PROVE FALSE
  <2>1. i \in pos..(Len(in) - 1)
    BY DEF Begins
  <2>2. i = pos \/ i \in (pos + 1)..(q - 1)
    BY <1>1, <1>3, <1>7, <2>1
  <2>3. in[i] = Sigil /\ in[i + 1] = "{"
    BY DEF Begins, Raw
  <2>4. i = pos
    BY <1>3, <2>2, <2>3
  <2>5. pos < Len(in)
    BY <1>1, <2>1, <2>4
  <2> QED
    BY <1>0, <2>3, <2>4, <2>5, Tokens DEF ParseLiteral
<1>8. Buffered(in, litBuf \o SubSeq(in, pos, q - 1), out, b, q)
  BY <1>1, <1>2, <1>3, <1>6, <1>7, BufferBytes
<1>9. b \in 1..q
  BY <1>1, <1>3
<1> QED
  BY <1>4, <1>8, <1>9 DEF Parsing, Gathered

(***************************************************************************)
(* At the end of the text its meaning is complete.                         *)
(***************************************************************************)
LEMMA ParseEndStep ==
  ASSUME IInv, ParseEnd
  PROVE  Parsing' /\ ParseMeansText'
<1>1. TypeOK /\ in \in Seq(Char) /\ pos \in 1..(Len(in) + 1) /\ pos = Len(in) + 1
  BY DEF IInv, TypeOK, ParseEnd, hasNext
<1>2. PICK b \in 1..pos : Buffered(in, litBuf, out, b, pos)
  BY DEF IInv, Parsing, Gathered, ParseEnd
<1>3. b \in 1..(Len(in) + 1) /\ b \in Nat \ {0} /\ pos - 1 = Len(in)
  BY <1>1
<1>4. Meanings(in)[1] = out \o LiteralOf(in, b, Len(in))
  BY <1>1, <1>2, <1>3, BufferEnds
<1>5. litBuf = Plain(in, b, pos - 1)
  BY <1>2 DEF Buffered
<1>6. appendBuffer = out \o LiteralOf(in, b, pos - 1)
  BY <1>1, <1>3, <1>5, AppendsLiteral
<1>7. out' = Meanings(in)[1] /\ in' = in /\ loop' = "done"
  BY <1>3, <1>4, <1>6 DEF ParseEnd
<1> QED
  BY <1>7 DEF Parsing, ParseMeansText

(***************************************************************************)
(* What the steps of parseVariable and of parseDefault start from.         *)
(***************************************************************************)
LEMMA WithinVariable ==
  ASSUME IInv, loop \in {"variable", "default"}
  PROVE  /\ TypeOK /\ in \in Seq(Char) /\ pos \in 1..(Len(in) + 1)
         /\ Inside(in, begin, pos) /\ Gathered(begin - 2)
         /\ begin \in 3..pos /\ begin \in 1..pos
         /\ hasNext(pos) => pos \in 1..Len(in) /\ ~Escaped(in, pos)
         /\ loop = "variable" /\ hasNext(pos) /\ ~nextToken(tokenVarEnd) => InName
         /\ nextToken(tokenBackslash) \/ nextToken(tokenDefaultVal) => ~nextToken(tokenVarEnd)
<1>1. TypeOK /\ in \in Seq(Char) /\ pos \in 1..(Len(in) + 1)
  BY DEF IInv, TypeOK
<1>2. Inside(in, begin, pos) /\ Gathered(begin - 2)
  BY DEF IInv, Parsing
<1>3. begin \in 3..pos
  BY <1>2 DEF Inside
<1>4. begin \in 1..pos
  BY <1>1, <1>3
<1>5. ASSUME hasNext(pos) PROVE pos \in 1..Len(in) /\ ~Escaped(in, pos)
  <2>1. pos <= Len(in)
    BY <1>5 DEF hasNext
  <2>2. ~Escaped(in, pos)
    BY <1>2, <2>1 DEF Inside
  <2> QED
    BY <1>1, <2>1, <2>2
<1>6. loop = "variable" /\ hasNext(pos) /\ ~nextToken(tokenVarEnd) => InName
  BY DEF IInv, Parsing
<1>7. nextToken(tokenBackslash) \/ nextToken(tokenDefaultVal) => ~nextToken(tokenVarEnd)
  <2>1. "\\" # "}" /\ "-" # "}"
    OBVIOUS
  <2> QED
    BY Zenon, <1>1, <2>1, Tokens
<1> QED
  BY <1>1, <1>2, <1>3, <1>4, <1>5, <1>6, <1>7

(***************************************************************************)
(* The steps of parseVariable.                                             *)
(***************************************************************************)
LEMMA VariableBackslashStep ==
  ASSUME IInv, VariableBackslash
  PROVE  Parsing'
<1>1. loop = "variable" /\ nextToken(tokenBackslash) /\ hasNext(pos)
  BY DEF VariableBackslash, TakeEscaped, nextToken
<1>2. /\ TypeOK /\ in \in Seq(Char) /\ pos \in 1..Len(in) /\ ~Escaped(in, pos)
      /\ Inside(in, begin, pos) /\ Gathered(begin - 2) /\ begin \in 1..pos /\ InName
  BY <1>1, WithinVariable
<1>3. Raw(in, pos, "\\")
  BY <1>1, <1>2, Tokens DEF Raw
<1>4. NoDash(in, begin, pos) /\ Scanned(in, varBuf, begin, pos)
  BY <1>2 DEF InName
<1>5. /\ pos < Len(in) =>
           /\ Inside(in, begin, pos + 2) /\ NoDash(in, begin, pos + 2)
           /\ Scanned(in, Append(varBuf, in[pos + 1]), begin, pos + 2)
      /\ pos = Len(in) =>
           /\ Inside(in, begin, pos + 1) /\ NoDash(in, begin, pos + 1)
           /\ \A u, buf : Scanned(in, buf, u, pos + 1)
  BY <1>2, <1>3, <1>4, InsideBackslash
<1>6. IF pos < Len(in) THEN varBuf' = Append(varBuf, in[pos + 1]) /\ pos' = pos + 2
      ELSE pos' = pos + 1
  <2>1. hasNext(pos + 1) <=> pos < Len(in)
    BY <1>2 DEF hasNext
  <2> QED
    BY <2>1 DEF VariableBackslash, TakeEscaped
<1>7. /\ in' = in /\ out' = out /\ litBuf' = litBuf /\ loop' = "variable"
      /\ begin' = begin /\ def' = def /\ defBuf' = defBuf
  BY DEF VariableBackslash
<1>8. pos < Len(in) \/ (pos = Len(in) /\ ~(pos < Len(in)))
  BY <1>2
<1>9. Inside(in, begin, pos') /\ NoDash(in, begin, pos') /\ Scanned(in, varBuf', begin, pos')
  BY <1>5, <1>6, <1>8
<1>10. InName' /\ Inside(in', begin', pos') /\ Gathered(begin - 2)'
  BY <1>2, <1>7, <1>9 DEF InName, Gathered
<1>11. loop' # "parse" /\ loop' # "default"
  BY <1>7
<1> QED
  BY Zenon, <1>10, <1>11 DEF Parsing

LEMMA VariableBytesStep ==
  ASSUME IInv, VariableBytes
  PROVE  Parsing'
<1> DEFINE stops == {"}", "-", "\\"}
           q == Until(stops)
<1>1. loop = "variable" /\ hasNext(pos) /\ ~nextToken(tokenVarEnd)
  BY DEF VariableBytes
<1>2. /\ TypeOK /\ in \in Seq(Char) /\ pos \in 1..Len(in)
      /\ Inside(in, begin, pos) /\ Gathered(begin - 2) /\ begin \in 1..pos /\ InName
  BY <1>1, WithinVariable
<1>3. pos' = q /\ varBuf' = varBuf \o SubSeq(in, pos, q - 1)
  BY DEF VariableBytes, TakeBytes
<1>4. /\ in' = in /\ out' = out /\ litBuf' = litBuf /\ loop' = "variable"
      /\ begin' = begin /\ def' = def /\ defBuf' = defBuf
  BY DEF VariableBytes
<1>5. in[pos] \notin stops
  BY Zenon, <1>1, <1>2, Tokens DEF VariableBytes
<1> HIDE DEF q
<1>6. q \in (pos + 1)..(Len(in) + 1) /\ \A r \in (pos + 1)..(q - 1) : in[r] \notin stops
  <2> HIDE DEF stops
  <2> QED
    BY <1>1, <1>2, UntilStops DEF q
<1>7. \A i \in pos..(q - 1) : in[i] \notin stops
  <2> HIDE DEF stops
  <2>1. \A i \in pos..(q - 1) : i = pos \/ i \in (pos + 1)..(q - 1)
    BY <1>2, <1>6
  <2> QED
    BY <1>5, <1>6, <2>1
<1>8. \A i \in pos..(q - 1) : in[i] # "}" /\ in[i] # "-" /\ in[i] # "\\"
  BY Zenon, <1>7
<1> HIDE DEF stops
<1>9. NoDash(in, begin, pos) /\ Scanned(in, varBuf, begin, pos)
  BY <1>2 DEF InName
<1>10. /\ Inside(in, begin, q) /\ NoDash(in, begin, q)
       /\ Scanned(in, varBuf \o SubSeq(in, pos, q - 1), begin, q)
  BY <1>2, <1>6, <1>8, <1>9, InsideBytes
<1>11. InName' /\ Inside(in', begin', pos') /\ Gathered(begin - 2)'
  BY <1>2, <1>3, <1>4, <1>10 DEF InName, Gathered
<1>12. loop' # "parse" /\ loop' # "default"
  BY <1>4
<1> QED
  BY Zenon, <1>11, <1>12 DEF Parsing

LEMMA BeginDefaultStep ==
  ASSUME IInv, BeginDefault
  PROVE  Parsing'
<1>1. loop = "variable" /\ nextToken(tokenDefaultVal) /\ hasNext(pos)
  BY DEF BeginDefault, nextToken
<1>2. /\ TypeOK /\ in \in Seq(Char) /\ pos \in 1..Len(in) /\ ~Escaped(in, pos)
      /\ Inside(in, begin, pos) /\ Gathered(begin - 2) /\ begin \in 1..pos /\ InName
  BY <1>1, WithinVariable
<1>3. in[pos] = "-" /\ Raw(in, pos, "-")
  BY <1>1, <1>2, Tokens DEF Raw
<1>4. /\ in' = in /\ out' = out /\ litBuf' = litBuf /\ loop' = "default" /\ pos' = pos + 1
      /\ begin' = begin /\ def' /\ varBuf' = varBuf /\ defBuf' = defBuf
  BY TokenTypes DEF BeginDefault
<1>5. NoDash(in, begin, pos) /\ varBuf = Plain(in, begin, pos - 1) /\ defBuf = <<>>
  <2>1. pos <= Len(in)
    BY <1>2
  <2> QED
    BY <1>2, <2>1 DEF InName, Scanned
<1>6. Inside(in, begin, pos + 1)
  <2>1. pos + 1 \in (pos + 1)..(Len(in) + 1) /\ \A i \in pos..((pos + 1) - 1) : i = pos
    BY <1>2
  <2>2. "-" # "\\" /\ "-" # "}"
    OBVIOUS
  <2>3. \A i \in pos..((pos + 1) - 1) : in[i] # "\\" /\ in[i] # "}"
    BY Zenon, <1>3, <2>1, <2>2
  <2> QED
    BY <1>2, <2>1, <2>3, InsideBytes
<1>7. Scanned(in, <<>>, pos + 1, pos + 1)
  <2>1. pos + 1 \in Nat \ {0} /\ (pos + 1) - 1 \in 0..Len(in) /\ (pos + 1) - 1 < pos + 1
    BY <1>2
  <2>2. Plain(in, pos + 1, (pos + 1) - 1) = <<>>
    BY <1>2, <2>1, PlainStep
  <2> QED
    BY <2>2 DEF Scanned
<1>8. pos \in begin'..(pos' - 1)
  BY <1>2, <1>4
<1>9. InDefault' /\ Inside(in', begin', pos') /\ Gathered(begin - 2)'
  <2>1. Inside(in', begin', pos') /\ Gathered(begin - 2)'
    BY <1>2, <1>4, <1>6 DEF Gathered
  <2>2. InDefault'
    BY <1>3, <1>4, <1>5, <1>7, <1>8 DEF InDefault
  <2> QED
    BY <2>1, <2>2
<1>10. loop' # "parse" /\ loop' # "variable"
  BY <1>4
<1> QED
  BY Zenon, <1>9, <1>10 DEF Parsing

LEMMA CloseVariableStep ==
  ASSUME IInv, CloseVariable
  PROVE  Parsing'
<1>1. loop = "variable" /\ nextToken(tokenVarEnd) /\ hasNext(pos)
  BY DEF CloseVariable, nextToken
<1>2. /\ TypeOK /\ in \in Seq(Char) /\ pos \in 1..Len(in) /\ ~Escaped(in, pos)
      /\ Inside(in, begin, pos) /\ Gathered(begin - 2) /\ begin \in 3..pos /\ begin \in 1..pos
  BY <1>1, WithinVariable
<1>3. pos \in Ends(in, begin)
  <2>1. pos \in begin..Len(in)
    BY <1>2
  <2>2. in[pos] = "}"
    BY <1>1, <1>2, Tokens
  <2> QED
    BY <1>2, <2>1, <2>2 DEF Ends, Raw
<1>4. (\A j \in Ends(in, begin) : pos <= j) /\ VariableAt(in, begin) = Variable(varBuf, defBuf, def)
  <2>0. pos <= Len(in)
    BY <1>2
  <2>1. CASE InName
    <3>1. varBuf = Plain(in, begin, pos - 1) /\ defBuf = <<>> /\ NoDash(in, begin, pos) /\ def = FALSE
      BY <1>2, <2>0, <2>1 DEF InName, Scanned, TypeOK
    <3> QED
      BY <1>2, <1>3, <3>1, ClosedAt
  <2>2. CASE InDefault
    <3>1. PICK d \in begin..(pos - 1) :
             /\ Raw(in, d, "-") /\ NoDash(in, begin, d)
             /\ varBuf = Plain(in, begin, d - 1) /\ defBuf = Plain(in, d + 1, pos - 1)
      BY <2>0, <2>2 DEF InDefault, Scanned
    <3>2. def = TRUE
      BY <1>2, <2>2 DEF InDefault, TypeOK
    <3> QED
      BY <1>2, <1>3, <3>1, <3>2, ClosedAt
  <2> QED
    BY <1>1, <2>1, <2>2 DEF IInv, Parsing
<1>5. PICK b \in 1..(begin - 2) : Buffered(in, litBuf, out, b, begin - 2)
  BY <1>2 DEF Gathered
<1>6. /\ begin - 2 \in 1..Len(in) /\ begin - 2 \in 1..(Len(in) + 1) /\ (begin - 2) + 2 = begin
      /\ pos \in ((begin - 2) + 2)..Len(in) /\ b \in Nat \ {0} /\ (begin - 2) - 1 \in 0..Len(in)
  BY <1>2
<1>7. begin - 2 \in Begins(in, 1)
  BY <1>2 DEF Inside
<1>8. out \in Seq(Part)
  BY <1>2 DEF TypeOK
<1> DEFINE parts == out \o LiteralOf(in, b, (begin - 2) - 1)
<1>9. Buffered(in, <<>>, parts \o <<VariableAt(in, begin)>>, pos + 1, pos + 1)
  BY <1>2, <1>3, <1>4, <1>5, <1>6, <1>7, <1>8, BufferCloses
<1>10. appendBuffer = parts
  <2>1. litBuf = Plain(in, b, (begin - 2) - 1)
    BY <1>5 DEF Buffered
  <2> QED
    BY <1>2, <1>6, <2>1, AppendsLiteral
<1>11. Append(appendBuffer, VariableAt(in, begin)) = parts \o <<VariableAt(in, begin)>>
  <2>1. LiteralOf(in, b, (begin - 2) - 1) \in Seq(Part)
    BY <1>2, <1>6, PartTypes
  <2>2. begin \in Nat \ {0} /\ Ends(in, begin) # {}
    BY <1>2, <1>3
  <2>3. VariableAt(in, begin) \in Part
    BY <1>2, <2>2, PartTypes
  <2>4. parts \in Seq(Part)
    BY <1>8, <2>1, ConcatProperties
  <2> HIDE DEF parts
  <2> QED
    BY <1>10, <2>3, <2>4, AppendIsConcat
<1>12. /\ in' = in /\ pos' = pos + 1 /\ loop' = "parse" /\ litBuf' = <<>>
       /\ out' = parts \o <<VariableAt(in, begin)>>
  BY <1>4, <1>11, TokenTypes DEF CloseVariable, appendVariable
<1> HIDE DEF parts
<1>13. pos + 1 \in 1..pos'
  BY <1>2, <1>12
<1>14. Gathered(pos)'
  BY <1>9, <1>12, <1>13 DEF Gathered
<1>15. loop' # "variable" /\ loop' # "default"
  BY <1>12
<1> QED
  BY Zenon, <1>14, <1>15 DEF Parsing

LEMMA NotClosedStep ==
  ASSUME IInv, NotClosed
  PROVE  Parsing'
<1>1. /\ TypeOK /\ in \in Seq(Char) /\ pos \in 1..(Len(in) + 1)
      /\ Inside(in, begin, pos) /\ Gathered(begin - 2) /\ begin \in 3..pos
  BY WithinVariable DEF NotClosed
<1>2. pos = Len(in) + 1
  <2>1. ~(pos <= Len(in))
    BY DEF NotClosed, hasNext
  <2> QED
    BY <1>1, <2>1
<1>3. PICK b \in 1..(begin - 2) : Buffered(in, litBuf, out, b, begin - 2)
  BY <1>1 DEF Gathered
<1>4. begin - 2 \in Begins(in, 1)
  BY <1>1 DEF Inside
<1>5. begin - 2 \in 1..(Len(in) - 1)
  BY <1>4 DEF Begins
<1>6. (begin - 2) + 2 = begin
  BY <1>1
<1>7. Buffered(in, litBuf \o tokenVarBegin, out, b, begin)
  BY <1>1, <1>2, <1>3, <1>4, <1>5, <1>6, NeverCloses
<1>8. in' = in /\ out' = out /\ loop' = "parse" /\ pos' = begin /\ litBuf' = litBuf \o tokenVarBegin
  BY DEF NotClosed
<1>9. b \in 1..begin
  BY <1>1
<1>10. Gathered(pos)'
  BY <1>7, <1>8, <1>9 DEF Gathered
<1>11. loop' # "variable" /\ loop' # "default"
  BY <1>8
<1> QED
  BY Zenon, <1>10, <1>11 DEF Parsing

(***************************************************************************)
(* The steps of parseDefault.                                              *)
(***************************************************************************)
LEMMA DefaultBackslashStep ==
  ASSUME IInv, DefaultBackslash
  PROVE  Parsing'
<1>1. loop = "default" /\ nextToken(tokenBackslash) /\ hasNext(pos)
  BY DEF DefaultBackslash, TakeEscaped, nextToken
<1>2. /\ TypeOK /\ in \in Seq(Char) /\ pos \in 1..Len(in) /\ ~Escaped(in, pos)
      /\ Inside(in, begin, pos) /\ Gathered(begin - 2) /\ begin \in 1..pos
  BY <1>1, WithinVariable
<1>3. Raw(in, pos, "\\")
  BY <1>1, <1>2, Tokens DEF Raw
<1>4. PICK d \in begin..(pos - 1) :
         /\ Raw(in, d, "-") /\ NoDash(in, begin, d)
         /\ varBuf = Plain(in, begin, d - 1) /\ Scanned(in, defBuf, d + 1, pos)
  BY <1>1 DEF IInv, Parsing, InDefault
<1>5. d + 1 \in 1..pos
  BY <1>2
<1>6. /\ pos < Len(in) =>
           Inside(in, begin, pos + 2) /\ Scanned(in, Append(defBuf, in[pos + 1]), d + 1, pos + 2)
      /\ pos = Len(in) => Inside(in, begin, pos + 1) /\ \A u, buf : Scanned(in, buf, u, pos + 1)
  BY <1>2, <1>3, <1>4, <1>5, InsideBackslash
<1>7. IF pos < Len(in) THEN defBuf' = Append(defBuf, in[pos + 1]) /\ pos' = pos + 2
      ELSE pos' = pos + 1
  <2>1. hasNext(pos + 1) <=> pos < Len(in)
    BY <1>2 DEF hasNext
  <2> QED
    BY <2>1 DEF DefaultBackslash, TakeEscaped
<1>8. /\ in' = in /\ out' = out /\ litBuf' = litBuf /\ loop' = "default"
      /\ begin' = begin /\ def' = def /\ varBuf' = varBuf
  BY <1>1 DEF DefaultBackslash
<1>9. pos < Len(in) \/ (pos = Len(in) /\ ~(pos < Len(in)))
  BY <1>2
<1>10. Inside(in, begin, pos') /\ Scanned(in, defBuf', d + 1, pos')
  BY <1>6, <1>7, <1>9
<1>11. d \in begin..(pos' - 1) /\ def
  <2>1. d \in begin..(pos' - 1)
    BY <1>2, <1>7
  <2> QED
    BY <1>1, <2>1 DEF IInv, Parsing, InDefault
<1>12. Inside(in', begin', pos') /\ Gathered(begin - 2)'
  BY <1>2, <1>8, <1>10 DEF Gathered
<1>13. InDefault'
  BY <1>4, <1>8, <1>10, <1>11 DEF InDefault
<1>14. loop' # "parse" /\ loop' # "variable"
  BY <1>8
<1> QED
  BY Zenon, <1>12, <1>13, <1>14 DEF Parsing

LEMMA EndDefaultStep ==
  ASSUME IInv, EndDefault
  PROVE  Parsing'
<1>1. Inside(in, begin, pos) /\ Gathered(begin - 2) /\ InDefault
  BY WithinVariable DEF EndDefault, IInv, Parsing
<1>2. /\ in' = in /\ pos' = pos /\ out' = out /\ litBuf' = litBuf /\ loop' = "variable"
      /\ begin' = begin /\ def' = def /\ varBuf' = varBuf /\ defBuf' = defBuf
  BY DEF EndDefault, variable
<1>3. nextToken(tokenVarEnd)' \/ ~hasNext(pos)'
  <2>1. hasNext(pos)' <=> hasNext(pos)
    BY <1>2 DEF hasNext
  <2>2. nextToken(tokenVarEnd)' <=> nextToken(tokenVarEnd)
    BY Zenon, <1>2, <2>1 DEF nextToken, tokenVarEnd
  <2> QED
    BY <2>1, <2>2 DEF EndDefault
<1>4. Inside(in', begin', pos') /\ Gathered(begin - 2)' /\ InDefault'
  BY <1>1, <1>2 DEF Gathered, InDefault
<1>5. loop' # "parse" /\ loop' # "default"
  BY <1>2
<1> QED
  BY Zenon, <1>3, <1>4, <1>5 DEF Parsing

LEMMA DefaultBytesStep ==
  ASSUME IInv, DefaultBytes
  PROVE  Parsing'
<1> DEFINE stops == {"}", "\\"}
           q == Until(stops)
<1>1. loop = "default" /\ hasNext(pos)
  BY DEF DefaultBytes
<1>2. /\ TypeOK /\ in \in Seq(Char) /\ pos \in 1..Len(in)
      /\ Inside(in, begin, pos) /\ Gathered(begin - 2) /\ begin \in 1..pos
  BY <1>1, WithinVariable
<1>3. pos' = q /\ defBuf' = defBuf \o SubSeq(in, pos, q - 1)
  BY DEF DefaultBytes, TakeBytes
<1>4. /\ in' = in /\ out' = out /\ litBuf' = litBuf /\ loop' = "default"
      /\ begin' = begin /\ def' = def /\ varBuf' = varBuf
  BY <1>1 DEF DefaultBytes
<1>5. in[pos] \notin stops
  BY Zenon, <1>1, <1>2, Tokens DEF DefaultBytes
<1> HIDE DEF q
<1>6. q \in (pos + 1)..(Len(in) + 1) /\ \A r \in (pos + 1)..(q - 1) : in[r] \notin stops
  <2> HIDE DEF stops
  <2> QED
    BY <1>1, <1>2, UntilStops DEF q
<1>7. \A i \in pos..(q - 1) : in[i] \notin stops
  <2> HIDE DEF stops
  <2>1. \A i \in pos..(q - 1) : i = pos \/ i \in (pos + 1)..(q - 1)
    BY <1>2, <1>6
  <2> QED
    BY <1>5, <1>6, <2>1
<1>8. \A i \in pos..(q - 1) : in[i] # "}" /\ in[i] # "\\"
  BY Zenon, <1>7
<1> HIDE DEF stops
<1>9. PICK d \in begin..(pos - 1) :
         /\ Raw(in, d, "-") /\ NoDash(in, begin, d)
         /\ varBuf = Plain(in, begin, d - 1) /\ Scanned(in, defBuf, d + 1, pos)
  BY <1>1 DEF IInv, Parsing, InDefault
<1>10. d + 1 \in 1..pos /\ d \in begin..(q - 1)
  BY <1>2, <1>6
<1>11. Inside(in, begin, q) /\ Scanned(in, defBuf \o SubSeq(in, pos, q - 1), d + 1, q)
  BY <1>2, <1>6, <1>8, <1>9, <1>10, InsideBytes
<1>12. Inside(in', begin', pos') /\ Gathered(begin - 2)'
  BY <1>2, <1>3, <1>4, <1>11 DEF Gathered
<1>13. def
  BY <1>1 DEF IInv, Parsing, InDefault
<1>14. InDefault'
  BY <1>3, <1>4, <1>9, <1>10, <1>11, <1>13 DEF InDefault
<1>15. loop' # "parse" /\ loop' # "variable"
  BY <1>4
<1> QED
  BY Zenon, <1>12, <1>14, <1>15 DEF Parsing

-----------------------------------------------------------------------------
(***************************************************************************)
(* At first nothing is read.                                               *)
(***************************************************************************)
LEMMA InitIInv == Init => IInv
<1> SUFFICES ASSUME Init PROVE IInv
  OBVIOUS
<1>1. /\ in \in Seq(Char) /\ pos = 1 /\ begin = 1 /\ loop = "parse" /\ litBuf = <<>> /\ varBuf = <<>>
      /\ defBuf = <<>> /\ def = FALSE /\ out = <<>>
  <2>1. Texts \subseteq Seq(Char)
    BY Zenon, TextAssumption
  <2> QED
    BY <2>1 DEF Init
<1>2. 1 \in 1..(Len(in) + 1) /\ 1 \in 1..1 /\ 1 - 1 = 0 /\ 0 \in 0..Len(in) /\ 0 < 1 /\ 1 \in Nat \ {0}
  BY <1>1
<1>3. TypeOK
  <2>1. <<>> \in Seq(Char) /\ <<>> \in Seq(Part) /\ FALSE \in BOOLEAN
    OBVIOUS
  <2> QED
    BY <1>1, <1>2, <2>1 DEF TypeOK
<1>4. Buffered(in, litBuf, out, 1, pos)
  <2>1. ~Escaped(in, 1)
    BY <1>1, EscapedNext
  <2>2. Plain(in, 1, 0) = <<>>
    BY <1>1, <1>2, PlainStep
  <2>3. \A i \in Begins(in, 1) : ~(i < 1)
    <3>1. \A i \in 1..(Len(in) - 1) : ~(i < 1)
      BY <1>1
    <3> QED
      BY <3>1 DEF Begins
  <2>4. Meanings(in)[1] \in Seq(Part)
    BY <1>1, <1>2, MeaningsStep
  <2>5. Meanings(in)[1] = <<>> \o Meanings(in)[1]
    BY <2>4, ConcatEmptySeq
  <2> QED
    BY <1>1, <1>2, <2>1, <2>2, <2>3, <2>5 DEF Buffered
<1>5. Gathered(pos)
  BY <1>1, <1>2, <1>4 DEF Gathered
<1>6. loop # "variable" /\ loop # "default" /\ loop # "done"
  BY <1>1
<1>7. Parsing /\ ParseMeansText
  BY Zenon, <1>5, <1>6 DEF Parsing, ParseMeansText
<1> QED
  BY <1>3, <1>7 DEF IInv

(***************************************************************************)
(* Every step keeps the invariant.                                         *)
(***************************************************************************)
LEMMA StepIInv ==
  ASSUME IInv, [Next]_vars
  PROVE  IInv'
<1>1. TypeOK'
  BY TypeStep DEF IInv
<1>2. CASE ParseEnd
  BY <1>1, <1>2, ParseEndStep DEF IInv
<1>3. ASSUME \/ ParseBackslash \/ BeginVariable \/ ParseLiteral
             \/ VariableBackslash \/ BeginDefault \/ CloseVariable \/ VariableBytes \/ NotClosed
             \/ DefaultBackslash \/ EndDefault \/ DefaultBytes
      PROVE  IInv'
  <2>1. Parsing'
    BY <1>3, ParseBackslashStep, BeginVariableStep, ParseLiteralStep, VariableBackslashStep,
       BeginDefaultStep, CloseVariableStep, VariableBytesStep, NotClosedStep,
       DefaultBackslashStep, EndDefaultStep, DefaultBytesStep
  <2>2. loop' \in {"parse", "variable", "default"}
    BY <1>3 DEF ParseBackslash, BeginVariable, ParseLiteral, VariableBackslash, BeginDefault,
       CloseVariable, VariableBytes, NotClosed, DefaultBackslash, EndDefault, DefaultBytes
  <2>3. ParseMeansText'
    BY <2>2 DEF ParseMeansText
  <2> QED
    BY <1>1, <2>1, <2>3 DEF IInv
<1>4. CASE UNCHANGED vars
  <2>1. /\ in' = in /\ pos' = pos /\ loop' = loop /\ litBuf' = litBuf /\ varBuf' = varBuf
        /\ defBuf' = defBuf /\ def' = def /\ begin' = begin /\ out' = out
    BY <1>4 DEF vars, variable
  <2>2. hasNext(pos)' <=> hasNext(pos)
    BY <2>1 DEF hasNext
  <2>3. nextToken(tokenVarEnd)' <=> nextToken(tokenVarEnd)
    BY Zenon, <2>1, <2>2 DEF nextToken, tokenVarEnd
  <2>4. Gathered(pos)' <=> Gathered(pos)
    BY <2>1 DEF Gathered
  <2>5. Gathered(begin - 2)' <=> Gathered(begin - 2)
    BY <2>1 DEF Gathered
  <2>6. (InName' <=> InName) /\ (InDefault' <=> InDefault)
    BY <2>1 DEF InName, InDefault
  <2>7. Parsing'
    BY Zenon, <2>1, <2>2, <2>3, <2>4, <2>5, <2>6 DEF Parsing, IInv
  <2>8. ParseMeansText'
    BY <2>1 DEF ParseMeansText, IInv
  <2> QED
    BY <1>1, <2>7, <2>8 DEF IInv
<1> QED
  BY <1>2, <1>3, <1>4 DEF Next

(***************************************************************************)
(* The invariant of the parser: what the buffers hold at every position.   *)
(***************************************************************************)
THEOREM ParserInvariant == Spec => []IInv
<1>1. Init => IInv
  BY InitIInv
<1>2. IInv /\ [Next]_vars => IInv'
  BY StepIInv
<1> QED
  BY <1>1, <1>2, PTL DEF Spec

(***************************************************************************)
(* Parse and ParsePercent keep their buffers and their position within the *)
(* text, whatever it is.                                                   *)
(***************************************************************************)
THEOREM ParserTypes == Spec => []TypeOK
<1>1. IInv => TypeOK
  BY DEF IInv
<1> QED
  BY <1>1, ParserInvariant, PTL

(***************************************************************************)
(* The parser of interpolate finds exactly the parts a text means, for     *)
(* every text of every length: escapes, a default, a closing brace that is *)
(* escaped, and a variable that is never closed, which is parsed again as  *)
(* a literal.                                                              *)
(***************************************************************************)
THEOREM TextIsParsed == Spec => []ParseMeansText
<1>1. IInv => ParseMeansText
  BY DEF IInv
<1> QED
  BY <1>1, ParserInvariant, PTL

-----------------------------------------------------------------------------
(***************************************************************************)
(* Proofs about Include, for every file system and every depth: what the   *)
(* files of each level are, and which of them are merged or pending.       *)
(***************************************************************************)
\* A call, and the paths it has still to include.
ACall == [dir : Path, patterns : Seq(Pattern), paths : Seq(Path)]
Pending(files, call) == ToSet(call.paths) \cup Matches(files, call.dir, call.patterns)

\* A call includes files of one level, and no more calls run than there are levels.
Nested ==
  /\ Len(calls) =< maxDepth + 2
  /\ \A k \in 1..Len(calls) : Pending(fs, calls[k]) \subseteq Level(fs, maxDepth + 1)[k - 1]

\* A merged file is of the level that it was found at, and not too deep.
Placed ==
  \A i \in 1..Len(bodies) :
    /\ levels[i] \in 0..(maxDepth + 1)
    /\ bodies[i] \in DOMAIN fs /\ bodies[i] \in Level(fs, maxDepth + 1)[levels[i]]
    /\ fs[bodies[i]].include # BadAttr
    /\ HasIncludes(fs[bodies[i]]) => levels[i] <= maxDepth

\* A file of level n was merged after the i-th, or a call has still to include it.
Follows(i, path, n) == \E j \in 1..Len(bodies) : i < j /\ bodies[j] = path /\ levels[j] = n
Awaits(path, n) == n + 1 \in 1..Len(calls) /\ path \in Pending(fs, calls[n + 1])

\* No file that a merged one includes is forgotten.
Whole ==
  /\ Follows(0, Main, 0) \/ Awaits(Main, 0)
  /\ \A i \in 1..Len(bodies) : \A path \in Includes(fs, bodies[i]) :
       Follows(i, path, levels[i] + 1) \/ Awaits(path, levels[i] + 1)

\* An error has its reason.
Justified ==
  /\ diags = "parse" =>
       \E n \in 0..(maxDepth + 1) : \E path \in Level(fs, maxDepth + 1)[n] :
         path \notin DOMAIN fs /\ ~Malformed(path)
  /\ diags = "pattern" =>
       \E n \in 0..(maxDepth + 1) : \E path \in Level(fs, maxDepth + 1)[n] : Malformed(path)
  /\ diags = "attribute" =>
       \E n \in 0..(maxDepth + 1) : \E path \in Level(fs, maxDepth + 1)[n] :
         path \in DOMAIN fs /\ fs[path].include = BadAttr
  /\ diags = "depth" =>
       \E path \in Level(fs, maxDepth + 1)[maxDepth + 1] :
         path \in DOMAIN fs /\ HasIncludes(fs[path])
  /\ diags # "none" => calls = <<>>

IncludeInv ==
  IncludeTypeOK /\ Nested /\ Placed /\ Justified /\ (diags = "none" => Whole)

-----------------------------------------------------------------------------
(***************************************************************************)
(* fs.Glob gives a list of paths.                                          *)
(***************************************************************************)
LEMMA GlobTypes ==
  ASSUME NEW files, NEW dir \in Path
  PROVE  Glob(files, dir) \in Seq(Path)
<1> DEFINE n == Len(Order)
           A == Seq(Path)
           x(k) == Append(dir, Order[k])
           Step(k, q) == IF Exists(files, x(k)) THEN Append(q, x(k)) ELSE q
           step == [kq \in (1..n) \X A |-> Step(kq[1], kq[2])]
           Is(f) == f = [i \in 0..n |-> IF i = 0 THEN <<>>
                                        ELSE IF Exists(files, x(i)) THEN Append(f[i - 1], x(i)) ELSE f[i - 1]]
           g == CHOOSE f : Is(f)
<1>1. n \in Nat /\ <<>> \in A /\ Order \in Seq(FileNames)
  BY IncludeAssumption
<1>2. ASSUME NEW k \in 1..n, NEW q \in A PROVE Step(k, q) \in A
  <2>1. x(k) \in Path
    BY <1>1 DEF Path
  <2> HIDE DEF x
  <2> QED
    BY <2>1
<1>3. step \in [(1..n) \X A -> A]
  BY <1>2
<1>4. PICK f : Accumulates(A, <<>>, step, n, f)
  <2> HIDE DEF step, A, n
  <2> QED
    BY <1>1, <1>3, AccumulatesExists
<1>5. f \in [0..n -> A] /\ f[0] = <<>> /\ \A k \in 1..n : f[k] = Step(k, f[k - 1])
  <2>1. f \in [0..n -> A] /\ f[0] = <<>> /\ \A k \in 1..n : f[k] = step[<<k, f[k - 1]>>]
    BY <1>4 DEF Accumulates
  <2>2. \A k \in 1..n : k - 1 \in 0..n
    BY <1>1
  <2>3. \A k \in 1..n : step[<<k, f[k - 1]>>] = Step(k, f[k - 1])
    BY <2>1, <2>2
  <2> HIDE DEF Step, step
  <2> QED
    BY <2>1, <2>3
<1>6. Is(f)
  <2> SUFFICES ASSUME NEW i \in 0..n
               PROVE  f[i] = IF i = 0 THEN <<>>
                             ELSE IF Exists(files, x(i)) THEN Append(f[i - 1], x(i)) ELSE f[i - 1]
    BY <1>5
  <2>1. CASE i = 0
    BY <1>5, <2>1
  <2>2. CASE i # 0
    <3>1. f[i] = Step(i, f[i - 1])
      <4>1. i \in 1..n
        BY <1>1, <2>2
      <4> HIDE DEF Step, A, n
      <4> QED
        BY <1>5, <4>1
    <3> QED
      BY <2>2, <3>1
  <2> QED
    BY <2>1, <2>2
<1>7. Is(g)
  <2> HIDE DEF Is
  <2> QED
    BY <1>6
<1>8. Glob(files, dir) = g[n]
  BY DEF Glob
<1>9. g[0] = <<>> /\ \A k \in 1..n : g[k] = Step(k, g[k - 1])
  <2>1. g[0] = <<>>
    <3>1. 0 \in 0..n
      BY <1>1
    <3> QED
      BY <1>7, <3>1
  <2>2. ASSUME NEW k \in 1..n PROVE g[k] = Step(k, g[k - 1])
    <3>1. k \in 0..n /\ k # 0
      BY <1>1
    <3> QED
      BY <1>7, <3>1
  <2> QED
    BY <2>1, <2>2
<1> HIDE DEF Is, g, Step
<1> DEFINE S == {i \in 0..n : g[i] \in A}
<1>10. 0 \in S
  <2> HIDE DEF A
  <2> QED
    BY <1>1, <1>9
<1>11. ASSUME NEW k \in 1..n, k - 1 \in S PROVE k \in S
  <2>1. k \in 0..n
    BY <1>1
  <2> HIDE DEF A, n
  <2> QED
    BY <1>2, <1>9, <1>11, <2>1
<1>12. n \in S
  <2> HIDE DEF S, n
  <2> QED
    BY <1>1, <1>10, <1>11, UpTo
<1> QED
  BY <1>8, <1>12

(***************************************************************************)
(* glob gives a list of paths.                                             *)
(***************************************************************************)
LEMMA globTypes ==
  ASSUME NEW files, NEW dir \in Path, NEW pattern \in Path
  PROVE  glob(files, dir, pattern) \in Seq(Path)
<1>1. Front(pattern) \in Path
  BY DEF Front, Path
<1>2. dir \o Front(pattern) \in Path /\ dir \o pattern \in Path
  BY <1>1, ConcatProperties DEF Path
<1>3. Glob(files, dir \o Front(pattern)) \in Seq(Path)
  BY <1>2, GlobTypes
<1>4. <<dir \o pattern>> \in Seq(Path)
  BY <1>2
<1> QED
  BY <1>3, <1>4 DEF glob

(***************************************************************************)
(* A path has no malformed name, a pattern without one is a path, and one  *)
(* with a malformed name has it in every directory.                        *)
(***************************************************************************)
LEMMA MalformedNames ==
  /\ \A path \in Path : ~Malformed(path)
  /\ \A pattern \in Pattern : ~Malformed(pattern) => pattern \in Path
  /\ \A dir \in Path : \A pattern \in Pattern : Malformed(pattern) => Malformed(dir \o pattern)
<1>1. ASSUME NEW path \in Path PROVE ~Malformed(path)
  <2>1. \A i \in DOMAIN path : path[i] \in FileNames
    BY DEF Path
  <2> QED
    BY <2>1, IncludeAssumption DEF Malformed, ToSet
<1>2. ASSUME NEW pattern \in Pattern, ~Malformed(pattern) PROVE pattern \in Path
  <2>1. \A i \in 1..Len(pattern) : i \in DOMAIN pattern /\ pattern[i] \in FileNames \cup {"*["}
    BY DEF Pattern
  <2>2. \A i \in 1..Len(pattern) : pattern[i] \in FileNames
    BY <1>2, <2>1 DEF Malformed, ToSet
  <2>3. pattern = [i \in 1..Len(pattern) |-> pattern[i]] /\ Len(pattern) \in Nat
    BY DEF Pattern
  <2> QED
    BY <2>2, <2>3 DEF Path
<1>3. ASSUME NEW dir \in Path, NEW pattern \in Pattern, Malformed(pattern)
      PROVE  Malformed(dir \o pattern)
  <2> DEFINE q == dir \o pattern
  <2>1. /\ dir \in Pattern /\ Len(dir) \in Nat /\ Len(pattern) \in Nat
        /\ DOMAIN pattern = 1..Len(pattern)
    BY DEF Path, Pattern
  <2>2. /\ Len(q) = Len(dir) + Len(pattern) /\ DOMAIN q = 1..Len(q)
        /\ \A i \in 1..Len(q) : q[i] = IF i <= Len(dir) THEN dir[i] ELSE pattern[i - Len(dir)]
    BY <2>1, ConcatProperties DEF Pattern
  <2> HIDE DEF q
  <2>3. PICK i \in 1..Len(pattern) : pattern[i] = "*["
    BY <1>3, <2>1 DEF Malformed, ToSet
  <2>4. Len(dir) + i \in DOMAIN q /\ q[Len(dir) + i] = "*["
    BY <2>1, <2>2, <2>3
  <2> QED
    BY <2>4 DEF Malformed, ToSet, q
<1> QED
  BY <1>1, <1>2, <1>3

(***************************************************************************)
(* The files of a level are those that the files of the level before it    *)
(* include.                                                                *)
(***************************************************************************)
LEMMA LevelStep ==
  ASSUME NEW files, NEW max \in Nat
  PROVE  /\ Level(files, max)[0] = {Main}
         /\ \A n \in 1..max : Level(files, max)[n] = UNION {Includes(files, path) : path \in Level(files, max)[n - 1]}
<1> DEFINE U == {Main} \cup UNION {Includes(files, path) : path \in DOMAIN files}
           A == SUBSET U
           Of(T) == UNION {Includes(files, path) : path \in T}
           step == [kq \in (1..max) \X A |-> Of(kq[2])]
           Is(f) == f = [n \in 0..max |-> IF n = 0 THEN {Main} ELSE Of(f[n - 1])]
           g == CHOOSE f : Is(f)
<1>1. {Main} \in A
  OBVIOUS
<1>2. \A T : Of(T) \in A
  BY DEF Includes
<1>3. step \in [(1..max) \X A -> A]
  <2> HIDE DEF Of, A
  <2> QED
    BY <1>2
<1>4. PICK f : Accumulates(A, {Main}, step, max, f)
  <2> HIDE DEF step, A
  <2> QED
    BY <1>1, <1>3, AccumulatesExists
<1>5. f \in [0..max -> A] /\ f[0] = {Main} /\ \A k \in 1..max : f[k] = Of(f[k - 1])
  <2>1. f \in [0..max -> A] /\ f[0] = {Main} /\ \A k \in 1..max : f[k] = step[<<k, f[k - 1]>>]
    BY <1>4 DEF Accumulates
  <2>2. \A k \in 1..max : k - 1 \in 0..max
    OBVIOUS
  <2> HIDE DEF Of, A
  <2>3. \A k \in 1..max : step[<<k, f[k - 1]>>] = Of(f[k - 1])
    BY <2>1, <2>2
  <2> HIDE DEF step
  <2> QED
    BY <2>1, <2>3
<1> HIDE DEF A, Of, step
<1>6. Is(f)
  <2>1. \A n \in 0..max : n # 0 => n \in 1..max
    OBVIOUS
  <2>2. f = [n \in 0..max |-> f[n]]
    BY <1>5
  <2>3. \A n \in 0..max : f[n] = IF n = 0 THEN {Main} ELSE Of(f[n - 1])
    BY <1>5, <2>1
  <2> QED
    BY <2>2, <2>3
<1>7. Is(g)
  <2> HIDE DEF Is
  <2> QED
    BY <1>6
<1>8. Level(files, max) = g
  BY DEF Level, Of
<1> HIDE DEF g
<1>9. g[0] = {Main} /\ \A n \in 1..max : g[n] = Of(g[n - 1])
  <2>1. 0 \in 0..max /\ \A n \in 1..max : n \in 0..max /\ n # 0
    OBVIOUS
  <2> QED
    BY <1>7, <2>1
<1> QED
  BY <1>8, <1>9 DEF Of

(***************************************************************************)
(* The elements of a sequence are its head and those of its tail.          *)
(***************************************************************************)
LEMMA HeadAndTail ==
  ASSUME NEW S, NEW s \in Seq(S), s # <<>>
  PROVE  /\ Head(s) \in S /\ Tail(s) \in Seq(S) /\ Len(Tail(s)) = Len(s) - 1 /\ Len(s) >= 1
         /\ Head(s) = s[1] /\ \A i \in 1..Len(Tail(s)) : Tail(s)[i] = s[i + 1]
         /\ ToSet(s) = {Head(s)} \cup ToSet(Tail(s))
<1>1. /\ Head(s) \in S /\ Tail(s) \in Seq(S) /\ Len(Tail(s)) = Len(s) - 1 /\ Len(s) >= 1
      /\ Head(s) = s[1] /\ \A i \in 1..Len(Tail(s)) : Tail(s)[i] = s[i + 1]
  OBVIOUS
<1>2. DOMAIN s = 1..Len(s) /\ DOMAIN Tail(s) = 1..Len(Tail(s)) /\ Len(s) \in Nat
  BY <1>1
<1>3. ASSUME NEW x \in ToSet(s) PROVE x \in {Head(s)} \cup ToSet(Tail(s))
  <2>1. PICK i \in 1..Len(s) : x = s[i]
    BY <1>2 DEF ToSet
  <2>2. i # 1 => i - 1 \in 1..Len(Tail(s)) /\ Tail(s)[i - 1] = s[i]
    BY <1>1, <1>2
  <2> QED
    BY <1>1, <1>2, <2>1, <2>2 DEF ToSet
<1>4. ASSUME NEW x \in {Head(s)} \cup ToSet(Tail(s)) PROVE x \in ToSet(s)
  <2>1. CASE x = Head(s)
    <3>1. 1 \in DOMAIN s
      BY <1>1, <1>2
    <3> QED
      BY <1>1, <2>1, <3>1 DEF ToSet
  <2>2. CASE x \in ToSet(Tail(s))
    <3>1. PICK i \in 1..Len(Tail(s)) : x = Tail(s)[i]
      BY <1>2, <2>2 DEF ToSet
    <3>2. i + 1 \in DOMAIN s /\ x = s[i + 1]
      BY <1>1, <1>2, <3>1
    <3> QED
      BY <3>2 DEF ToSet
  <2> QED
    BY <2>1, <2>2
<1> QED
  BY <1>1, <1>3, <1>4

(***************************************************************************)
(* No patterns, no files.                                                  *)
(***************************************************************************)
LEMMA NoPatterns == ToSet(<<>>) = {} /\ \A files, dir : Matches(files, dir, <<>>) = {}
BY DEF ToSet, Matches

(***************************************************************************)
(* The files of a list of patterns are those of the first pattern and of   *)
(* the rest.                                                               *)
(***************************************************************************)
LEMMA MatchesHead ==
  ASSUME NEW files, NEW dir, NEW patterns \in Seq(Pattern), patterns # <<>>
  PROVE  Matches(files, dir, patterns)
           = Found(files, dir, Head(patterns)) \cup Matches(files, dir, Tail(patterns))
<1> DEFINE M(p) == Found(files, dir, p)
           rest == Tail(patterns)
<1>1. \A q : Matches(files, dir, q) = UNION {M(q[i]) : i \in DOMAIN q}
  BY DEF Matches
<1>2. /\ rest \in Seq(Pattern) /\ Len(rest) = Len(patterns) - 1 /\ Len(patterns) >= 1
      /\ Head(patterns) = patterns[1] /\ \A i \in 1..Len(rest) : rest[i] = patterns[i + 1]
  BY HeadAndTail
<1>3. DOMAIN patterns = 1..Len(patterns) /\ DOMAIN rest = 1..Len(rest) /\ Len(patterns) \in Nat
  BY <1>2
<1> HIDE DEF M, rest
<1>4. ASSUME NEW x \in Matches(files, dir, patterns) PROVE x \in M(Head(patterns)) \cup Matches(files, dir, rest)
  <2>1. PICK i \in 1..Len(patterns) : x \in M(patterns[i])
    BY <1>1, <1>3
  <2>2. i # 1 => i - 1 \in 1..Len(rest) /\ rest[i - 1] = patterns[i]
    BY <1>2, <1>3
  <2>3. CASE i = 1
    BY <1>2, <2>1, <2>3
  <2>4. CASE i # 1
    <3>1. x \in M(rest[i - 1]) /\ i - 1 \in DOMAIN rest
      BY <1>3, <2>1, <2>2, <2>4
    <3> QED
      BY <1>1, <3>1
  <2> QED
    BY <2>3, <2>4
<1>5. ASSUME NEW x \in M(Head(patterns)) \cup Matches(files, dir, rest) PROVE x \in Matches(files, dir, patterns)
  <2>1. CASE x \in M(Head(patterns))
    <3>1. 1 \in DOMAIN patterns /\ x \in M(patterns[1])
      BY <1>2, <1>3, <2>1
    <3> QED
      BY <1>1, <3>1
  <2>2. CASE x \in Matches(files, dir, rest)
    <3>1. PICK i \in 1..Len(rest) : x \in M(rest[i])
      BY <1>1, <1>3, <2>2
    <3>2. i + 1 \in DOMAIN patterns /\ x \in M(patterns[i + 1])
      BY <1>2, <1>3, <3>1
    <3> QED
      BY <1>1, <3>2
  <2> QED
    BY <1>5, <2>1, <2>2
<1> QED
  BY <1>4, <1>5 DEF M, rest

-----------------------------------------------------------------------------
(***************************************************************************)
(* The innermost call goes on; the others wait for it.                     *)
(***************************************************************************)
LEMMA CallsContinue ==
  ASSUME NEW call \in ACall, calls \in Seq(ACall), calls # <<>>
  PROVE  /\ Continue(call) \in Seq(ACall) /\ Len(Continue(call)) = Len(calls)
         /\ Continue(call)[Len(calls)] = call
         /\ \A k \in 1..(Len(calls) - 1) : Continue(call)[k] = calls[k]
         /\ Len(calls) \in Nat /\ Len(calls) >= 1
         /\ Current \in ACall /\ Current = calls[Len(calls)]
<1>1. Len(calls) \in Nat /\ Len(calls) >= 1 /\ Len(calls) \in 1..Len(calls)
  OBVIOUS
<1>2. Current = calls[Len(calls)] /\ Current \in ACall
  BY <1>1 DEF Current, Last
<1> HIDE DEF ACall
<1> QED
  BY <1>1, <1>2 DEF Continue

(***************************************************************************)
(* What a call consists of.                                                *)
(***************************************************************************)
LEMMA CallTypes ==
  ASSUME NEW call \in ACall
  PROVE  /\ call.dir \in Path /\ call.patterns \in Seq(Pattern) /\ call.paths \in Seq(Path)
BY DEF ACall

(***************************************************************************)
(* A call that is made of paths and patterns, and what it has pending.     *)
(***************************************************************************)
LEMMA CallIsCall ==
  ASSUME NEW dir \in Path, NEW patterns \in Seq(Pattern), NEW paths \in Seq(Path)
  PROVE  /\ Call(dir, patterns, paths) \in ACall
         /\ \A files : Pending(files, Call(dir, patterns, paths)) = ToSet(paths) \cup Matches(files, dir, patterns)
BY DEF ACall, Call, Pending

(***************************************************************************)
(* The loop over the patterns: what is pending stays the same.             *)
(***************************************************************************)
LEMMA PatternCalls ==
  ASSUME IncludeTypeOK, NextPattern
  PROVE  /\ calls' \in Seq(ACall) /\ Len(calls') = Len(calls)
         /\ \A k \in 1..Len(calls) : Pending(fs, calls'[k]) = Pending(fs, calls[k])
<1> DEFINE c == Current
           call == Call(c.dir, Tail(c.patterns), glob(fs, c.dir, Head(c.patterns)))
<1>1. /\ calls \in Seq(ACall) /\ calls # <<>> /\ c.paths = <<>> /\ c.patterns # <<>>
      /\ ~Malformed(Head(c.patterns)) /\ calls' = Continue(call)
  BY DEF IncludeTypeOK, NextPattern, HasPattern, ACall
<1>2. c \in ACall /\ c = calls[Len(calls)] /\ Len(calls) \in Nat
  <2>1. calls[1] \in ACall
    BY <1>1
  <2> QED
    BY <1>1, <2>1, CallsContinue
<1>3. c.dir \in Path /\ c.patterns \in Seq(Pattern)
  BY <1>2, CallTypes
<1>4. Head(c.patterns) \in Path /\ Tail(c.patterns) \in Seq(Pattern)
  BY <1>1, <1>3, HeadAndTail, MalformedNames
<1>5. glob(fs, c.dir, Head(c.patterns)) \in Seq(Path)
  BY <1>3, <1>4, globTypes
<1>6. call \in ACall
  BY <1>3, <1>4, <1>5, CallIsCall
<1>7. Pending(fs, call) = ToSet(glob(fs, c.dir, Head(c.patterns))) \cup Matches(fs, c.dir, Tail(c.patterns))
  BY <1>3, <1>4, <1>5, CallIsCall
<1>8. Pending(fs, c) = Matches(fs, c.dir, c.patterns)
  BY <1>1, NoPatterns DEF Pending
<1>9. Pending(fs, call) = Pending(fs, c)
  BY <1>1, <1>3, <1>7, <1>8, MatchesHead DEF Found
<1> HIDE DEF c, call
<1>10. /\ Continue(call) \in Seq(ACall) /\ Len(Continue(call)) = Len(calls)
       /\ Continue(call)[Len(calls)] = call
       /\ \A k \in 1..(Len(calls) - 1) : Continue(call)[k] = calls[k]
  BY <1>1, <1>6, CallsContinue
<1>11. ASSUME NEW k \in 1..Len(calls) PROVE Pending(fs, calls'[k]) = Pending(fs, calls[k])
  <2>1. CASE k = Len(calls)
    BY <1>1, <1>2, <1>9, <1>10, <2>1
  <2>2. CASE k # Len(calls)
    <3>1. k \in 1..(Len(calls) - 1)
      BY <1>2, <2>2
    <3> QED
      BY <1>1, <1>10, <3>1
  <2> QED
    BY <2>1, <2>2
<1> QED
  BY <1>1, <1>10, <1>11

(***************************************************************************)
(* The next path of a call is pending, and when it is done the others are. *)
(***************************************************************************)
LEMMA PathCalls ==
  ASSUME IncludeTypeOK, HasPath
  PROVE  /\ calls \in Seq(ACall) /\ calls # <<>> /\ Len(calls) \in Nat /\ Len(calls) >= 1
         /\ PathDone \in ACall /\ NextPath \in Path
         /\ Pending(fs, calls[Len(calls)]) = {NextPath} \cup Pending(fs, PathDone)
         /\ Continue(PathDone) \in Seq(ACall) /\ Len(Continue(PathDone)) = Len(calls)
         /\ Continue(PathDone)[Len(calls)] = PathDone
         /\ \A k \in 1..(Len(calls) - 1) : Continue(PathDone)[k] = calls[k]
<1> DEFINE c == Current
<1>1. calls \in Seq(ACall) /\ calls # <<>> /\ c.paths # <<>>
  BY DEF IncludeTypeOK, HasPath, ACall
<1>2. c \in ACall /\ c = calls[Len(calls)] /\ Len(calls) \in Nat /\ Len(calls) >= 1
  <2>1. calls[1] \in ACall
    BY <1>1
  <2> QED
    BY <1>1, <2>1, CallsContinue
<1>3. c.dir \in Path /\ c.patterns \in Seq(Pattern) /\ c.paths \in Seq(Path)
  BY <1>2, CallTypes
<1>4. Head(c.paths) \in Path /\ Tail(c.paths) \in Seq(Path) /\ ToSet(c.paths) = {Head(c.paths)} \cup ToSet(Tail(c.paths))
  BY <1>1, <1>3, HeadAndTail
<1>5. PathDone \in ACall /\ Pending(fs, PathDone) = ToSet(Tail(c.paths)) \cup Matches(fs, c.dir, c.patterns)
  BY <1>3, <1>4, CallIsCall DEF PathDone
<1>6. Pending(fs, c) = {NextPath} \cup Pending(fs, PathDone)
  BY <1>4, <1>5 DEF Pending, NextPath
<1>7. NextPath \in Path
  BY <1>4 DEF NextPath
<1> HIDE DEF c
<1>8. /\ Continue(PathDone) \in Seq(ACall) /\ Len(Continue(PathDone)) = Len(calls)
      /\ Continue(PathDone)[Len(calls)] = PathDone
      /\ \A k \in 1..(Len(calls) - 1) : Continue(PathDone)[k] = calls[k]
  BY <1>1, <1>5, CallsContinue
<1> QED
  BY <1>1, <1>2, <1>5, <1>6, <1>7, <1>8

(***************************************************************************)
(* The call for a file with includes has all of them pending.              *)
(***************************************************************************)
LEMMA FileCalls ==
  ASSUME IncludeTypeOK, IncludeFile
  PROVE  /\ calls' \in Seq(ACall) /\ Len(calls') = Len(calls) + 1
         /\ \A k \in 1..(Len(calls) - 1) : calls'[k] = calls[k]
         /\ calls'[Len(calls)] = PathDone
         /\ Pending(fs, calls'[Len(calls) + 1]) = Includes(fs, NextPath)
<1> DEFINE call == Call(Front(NextPath), fs[NextPath].include, <<>>)
<1>1. HasPath /\ NextPath \in DOMAIN fs /\ HasIncludes(fs[NextPath]) /\ calls' = Append(Continue(PathDone), call)
  BY DEF IncludeFile, ParseFileFS
<1>2. /\ NextPath \in Path /\ Len(calls) \in Nat
      /\ Continue(PathDone) \in Seq(ACall) /\ Len(Continue(PathDone)) = Len(calls)
      /\ Continue(PathDone)[Len(calls)] = PathDone
      /\ \A k \in 1..(Len(calls) - 1) : Continue(PathDone)[k] = calls[k]
      /\ Len(calls) >= 1
  BY <1>1, PathCalls
<1>3. Front(NextPath) \in Path
  BY <1>2 DEF Front, Path
<1>4. fs[NextPath].include \in Seq(Pattern)
  BY <1>1, IncludeAssumption DEF IncludeTypeOK
<1>5. <<>> \in Seq(Path)
  OBVIOUS
<1>6. call \in ACall /\ Pending(fs, call) = ToSet(<<>>) \cup Matches(fs, Front(NextPath), fs[NextPath].include)
  BY <1>3, <1>4, <1>5, CallIsCall
<1>7. Pending(fs, call) = Includes(fs, NextPath)
  BY <1>1, <1>6, NoPatterns DEF Includes
<1> HIDE DEF call, ACall
<1> DEFINE s == Continue(PathDone)
<1>8. s \in Seq(ACall) /\ Len(s) = Len(calls)
  BY <1>2
<1> HIDE DEF s
<1>9. /\ Append(s, call) \in Seq(ACall) /\ Len(Append(s, call)) = Len(s) + 1
      /\ \A k \in 1..Len(s) : Append(s, call)[k] = s[k]
      /\ Append(s, call)[Len(s) + 1] = call
  BY <1>6, <1>8
<1> QED
  BY <1>1, <1>2, <1>7, <1>8, <1>9 DEF s

(***************************************************************************)
(* A body without the attribute has no includes; the call goes on.         *)
(***************************************************************************)
LEMMA BodyCalls ==
  ASSUME IncludeTypeOK, IncludeBody
  PROVE  /\ calls' \in Seq(ACall) /\ Len(calls') = Len(calls)
         /\ \A k \in 1..(Len(calls) - 1) : calls'[k] = calls[k]
         /\ calls'[Len(calls)] = PathDone
         /\ Includes(fs, NextPath) = {}
<1>1. HasPath /\ fs[NextPath].include = NoAttr /\ calls' = Continue(PathDone)
  BY DEF IncludeBody
<1>2. Includes(fs, NextPath) = {}
  BY <1>1 DEF Includes, HasIncludes
<1> QED
  BY <1>1, <1>2, PathCalls

(***************************************************************************)
(* A call that returns has nothing pending.                                *)
(***************************************************************************)
LEMMA ReturnCalls ==
  ASSUME IncludeTypeOK, IncludeReturns
  PROVE  /\ calls' \in Seq(ACall) /\ Len(calls') = Len(calls) - 1 /\ Len(calls) \in Nat /\ Len(calls) >= 1
         /\ \A k \in 1..(Len(calls) - 1) : calls'[k] = calls[k]
         /\ Pending(fs, calls[Len(calls)]) = {}
<1>1. calls \in Seq(ACall) /\ calls # <<>> /\ Current.paths = <<>> /\ Current.patterns = <<>> /\ calls' = Front(calls)
  BY DEF IncludeTypeOK, IncludeReturns, ACall
<1>2. Current = calls[Len(calls)]
  BY DEF Current, Last
<1>3. Pending(fs, calls[Len(calls)]) = {}
  BY <1>1, <1>2, NoPatterns DEF Pending
<1> HIDE DEF ACall
<1>4. Len(calls) \in Nat /\ Len(calls) >= 1
  BY <1>1
<1>5. /\ Front(calls) \in Seq(ACall) /\ Len(Front(calls)) = Len(calls) - 1
      /\ \A k \in 1..(Len(calls) - 1) : Front(calls)[k] = calls[k]
  <2> DEFINE m == Len(calls) - 1
  <2>1. m \in Int /\ 1 \in Int /\ \A i \in 1..m : calls[i] \in ACall
    BY <1>1, <1>4
  <2>2. Front(calls) = SubSeq(calls, 1, m)
    BY DEF Front
  <2>3. /\ SubSeq(calls, 1, m) \in Seq(ACall)
        /\ Len(SubSeq(calls, 1, m)) = IF 1 <= m THEN m - 1 + 1 ELSE 0
        /\ \A i \in 1..(m - 1 + 1) : SubSeq(calls, 1, m)[i] = calls[1 + i - 1]
    <3> HIDE DEF m
    <3> QED
      BY <2>1, SubSeqProperties
  <2>4. \A i \in 1..m : i \in 1..(m - 1 + 1) /\ 1 + i - 1 = i
    BY <1>4
  <2>5. (1 <= m => m - 1 + 1 = m) /\ (~(1 <= m) => m = 0)
    BY <1>4
  <2> QED
    BY <2>2, <2>3, <2>4, <2>5
<1> QED
  BY <1>1, <1>3, <1>4, <1>5

-----------------------------------------------------------------------------
\* What a step that merges the next file does to the pending files.
Merges ==
  /\ HasPath /\ ParseFileFS(NextPath) /\ ~TooDeep(fs[NextPath], NextDepth)
  /\ fs[NextPath].include # BadAttr
  /\ MergeBody
  /\ calls' \in Seq(ACall)
  /\ \A k \in 1..(Len(calls) - 1) : calls'[k] = calls[k]
  /\ calls'[Len(calls)] = PathDone
  /\ \/ Len(calls') = Len(calls) /\ Includes(fs, NextPath) = {}
     \/ /\ Len(calls') = Len(calls) + 1 /\ HasIncludes(fs[NextPath])
        /\ Pending(fs, calls'[Len(calls) + 1]) = Includes(fs, NextPath)

(***************************************************************************)
(* The two steps that merge a file.                                        *)
(***************************************************************************)
LEMMA StepMerges == IncludeTypeOK /\ (IncludeBody \/ IncludeFile) => Merges
<1>1. IncludeTypeOK /\ IncludeBody => Merges
  BY BodyCalls, IncludeAssumption DEF IncludeBody, Merges
<1>2. IncludeTypeOK /\ IncludeFile => Merges
  BY FileCalls DEF IncludeFile, Merges, HasIncludes
<1> QED
  BY <1>1, <1>2

(***************************************************************************)
(* The types of the sequences that MergeBody appends to.                   *)
(***************************************************************************)
LEMMA MergedBodies ==
  ASSUME IncludeTypeOK, HasPath, MergeBody
  PROVE  /\ bodies' \in Seq(Path) /\ levels' \in Seq(Nat) /\ Len(levels') = Len(bodies')
         /\ Len(bodies) \in Nat /\ Len(bodies') = Len(bodies) + 1 /\ Len(calls) \in Nat /\ Len(calls) >= 1
         /\ \A i \in 1..Len(bodies) : bodies'[i] = bodies[i] /\ levels'[i] = levels[i] /\ levels[i] \in Nat
         /\ bodies'[Len(bodies) + 1] = NextPath /\ levels'[Len(bodies) + 1] = Len(calls) - 1
         /\ fs' = fs /\ maxDepth' = maxDepth /\ diags' = diags
<1>1. NextPath \in Path /\ Len(calls) \in Nat /\ Len(calls) >= 1
  BY PathCalls
<1>2. NextLevel \in Nat /\ NextLevel = Len(calls) - 1
  BY <1>1 DEF NextLevel
<1>3. bodies \in Seq(Path) /\ levels \in Seq(Nat) /\ Len(levels) = Len(bodies) /\ Len(bodies) \in Nat
  BY DEF IncludeTypeOK
<1>4. /\ bodies' = Append(bodies, NextPath) /\ levels' = Append(levels, NextLevel)
      /\ fs' = fs /\ maxDepth' = maxDepth /\ diags' = diags
  BY DEF MergeBody
<1>5. /\ bodies' \in Seq(Path) /\ Len(bodies') = Len(bodies) + 1
      /\ bodies'[Len(bodies) + 1] = NextPath /\ \A i \in 1..Len(bodies) : bodies'[i] = bodies[i]
  <2> HIDE DEF Path
  <2> QED
    BY <1>1, <1>3, <1>4
<1>6. /\ levels' \in Seq(Nat) /\ Len(levels') = Len(levels) + 1
      /\ levels'[Len(levels) + 1] = NextLevel /\ \A i \in 1..Len(levels) : levels'[i] = levels[i] /\ levels[i] \in Nat
  BY <1>2, <1>3, <1>4
<1> QED
  BY <1>1, <1>2, <1>3, <1>4, <1>5, <1>6

(***************************************************************************)
(* The depth is a number, and the levels are those of LevelStep.           *)
(***************************************************************************)
LEMMA DepthTypes ==
  ASSUME IncludeTypeOK
  PROVE  /\ maxDepth \in Nat /\ Len(calls) \in Nat /\ Len(bodies) \in Nat
         /\ Level(fs, maxDepth + 1)[0] = {Main}
         /\ \A n \in 1..(maxDepth + 1) :
              Level(fs, maxDepth + 1)[n] = UNION {Includes(fs, path) : path \in Level(fs, maxDepth + 1)[n - 1]}
<1>1. maxDepth \in Nat /\ Len(calls) \in Nat /\ Len(bodies) \in Nat
  BY IncludeAssumption DEF IncludeTypeOK
<1>2. maxDepth + 1 \in Nat
  BY <1>1
<1> QED
  BY <1>1, <1>2, LevelStep

(***************************************************************************)
(* The next path is of the level that the number of calls says.            *)
(***************************************************************************)
LEMMA NextInLevel ==
  ASSUME IncludeTypeOK, Nested, HasPath
  PROVE  /\ NextPath \in Level(fs, maxDepth + 1)[Len(calls) - 1]
         /\ Len(calls) - 1 \in 0..(maxDepth + 1) /\ NextDepth = maxDepth - (Len(calls) - 1)
<1>1. Len(calls) \in Nat /\ Len(calls) >= 1 /\ NextPath \in Pending(fs, calls[Len(calls)])
  BY PathCalls
<1>2. Len(calls) \in 1..Len(calls)
  BY <1>1
<1>3. Pending(fs, calls[Len(calls)]) \subseteq Level(fs, maxDepth + 1)[Len(calls) - 1] /\ Len(calls) =< maxDepth + 2
  BY <1>2 DEF Nested
<1> QED
  BY <1>1, <1>3, DepthTypes DEF NextDepth, NextLevel

(***************************************************************************)
(* A step that merges a file keeps the invariant.                          *)
(***************************************************************************)
LEMMA MergesStep ==
  ASSUME IncludeInv, IncludeBody \/ IncludeFile
  PROVE  IncludeInv'
<1> DEFINE L == Level(fs, maxDepth + 1)
           n == Len(calls)
           m == Len(bodies)
           path == NextPath
           P(k) == Pending(fs, calls[k])
           Q(k) == Pending(fs, calls'[k])
           I(f) == Includes(fs, f)
<1>0. IncludeTypeOK /\ Nested /\ Placed /\ Justified /\ (diags = "none" => Whole)
  BY DEF IncludeInv
<1>1. Merges
  BY <1>0, StepMerges
<1>2. /\ HasPath /\ MergeBody /\ path \in DOMAIN fs /\ ~TooDeep(fs[path], NextDepth)
      /\ fs[path].include # BadAttr
  BY <1>1 DEF Merges, ParseFileFS
<1>3. /\ bodies' \in Seq(Path) /\ levels' \in Seq(Nat) /\ Len(levels') = Len(bodies')
      /\ m \in Nat /\ Len(bodies') = m + 1 /\ n \in Nat /\ n >= 1
      /\ \A i \in 1..m : bodies'[i] = bodies[i] /\ levels'[i] = levels[i] /\ levels[i] \in Nat
      /\ bodies'[m + 1] = path /\ levels'[m + 1] = n - 1
      /\ fs' = fs /\ maxDepth' = maxDepth /\ diags' = diags
  BY <1>0, <1>2, MergedBodies
<1>4. maxDepth \in Nat /\ Level(fs, maxDepth + 1)' = L
  BY <1>0, <1>3, DepthTypes
<1>5. path \in L[n - 1] /\ n - 1 \in 0..(maxDepth + 1) /\ NextDepth = maxDepth - (n - 1)
  BY <1>0, <1>2, NextInLevel
<1>6. HasIncludes(fs[path]) => n - 1 <= maxDepth
  BY <1>2, <1>3, <1>4, <1>5 DEF TooDeep
<1>7. /\ \A k \in 1..(n - 1) : Q(k) = P(k)
      /\ P(n) = {path} \cup Q(n)
      /\ \/ Len(calls') = n /\ I(path) = {}
         \/ Len(calls') = n + 1 /\ HasIncludes(fs[path]) /\ Q(n + 1) = I(path)
  BY <1>0, <1>1, <1>2, PathCalls DEF Merges
<1>8. \A k \in 1..Len(calls') : Pending(fs, calls[k])' = Q(k)
  BY <1>3
<1>9. n =< maxDepth + 2 /\ \A k \in 1..n : P(k) \subseteq L[k - 1]
  BY <1>0 DEF Nested
<1>10. \A k \in 1..(maxDepth + 1) : L[k] = UNION {I(f) : f \in L[k - 1]}
  BY <1>0, DepthTypes
<1>11. diags = "none" /\ diags' = "none"
  BY <1>0, <1>2, <1>3 DEF Justified, HasPath
<1> HIDE DEF L, n, m, path, P, Q, I
<1>12. IncludeTypeOK'
  <2>1. calls' \in Seq(ACall)
    BY <1>1 DEF Merges
  <2> QED
    BY <1>0, <1>3, <2>1 DEF IncludeTypeOK, ACall
<1>13. Len(calls') =< maxDepth + 2 /\ \A k \in 1..Len(calls') : Q(k) \subseteq L[k - 1]
  <2>1. \A k \in 1..n : Q(k) \subseteq L[k - 1]
    <3>1. ASSUME NEW k \in 1..n PROVE Q(k) \subseteq P(k)
      <4>1. k = n \/ k \in 1..(n - 1)
        BY <1>3
      <4> QED
        BY <1>7, <4>1
    <3> QED
      BY <1>9, <3>1
  <2>2. CASE Len(calls') = n
    BY <1>9, <2>1, <2>2
  <2>3. CASE Len(calls') = n + 1 /\ HasIncludes(fs[path]) /\ Q(n + 1) = I(path)
    <3>1. n \in 1..(maxDepth + 1) /\ n + 1 =< maxDepth + 2
      BY <1>3, <1>4, <1>6, <2>3
    <3>2. I(path) \subseteq L[n]
      BY <1>5, <1>10, <3>1
    <3>3. \A k \in 1..(n + 1) : k \in 1..n \/ (k = n + 1 /\ k - 1 = n)
      BY <1>3
    <3> QED
      BY <2>1, <2>3, <3>1, <3>2, <3>3
  <2> QED
    BY <1>7, <2>2, <2>3
<1>14. Nested'
  BY <1>3, <1>4, <1>8, <1>13 DEF Nested
<1>15. Placed'
  <2>1. ASSUME NEW i \in 1..(m + 1)
        PROVE  /\ levels'[i] \in 0..(maxDepth + 1)
               /\ bodies'[i] \in DOMAIN fs /\ bodies'[i] \in L[levels'[i]]
               /\ fs[bodies'[i]].include # BadAttr
               /\ HasIncludes(fs[bodies'[i]]) => levels'[i] <= maxDepth
    <3>1. CASE i \in 1..m
      BY <1>0, <1>3, <3>1 DEF Placed, L, m
    <3>2. CASE i = m + 1
      BY <1>2, <1>3, <1>5, <1>6, <3>2
    <3> QED
      BY <1>3, <3>1, <3>2
  <2> QED
    BY <1>3, <1>4, <2>1 DEF Placed
<1>16. Justified'
  BY <1>11 DEF Justified
<1> DEFINE F(i, f, k) == \E j \in 1..(m + 1) : i < j /\ bodies'[j] = f /\ levels'[j] = k
           A(f, k) == k + 1 \in 1..Len(calls') /\ f \in Q(k + 1)
<1>17. /\ \A i, f, k : Follows(i, f, k)' = F(i, f, k)
       /\ \A f, k : Awaits(f, k)' = A(f, k)
  BY <1>3, <1>8 DEF Follows, Awaits
<1>18. ASSUME NEW i \in 0..m, NEW f, NEW k \in Nat, Follows(i, f, k) \/ Awaits(f, k)
       PROVE  F(i, f, k) \/ A(f, k)
  <2>1. CASE Follows(i, f, k)
    <3>1. PICK j \in 1..m : i < j /\ bodies[j] = f /\ levels[j] = k
      BY <2>1 DEF Follows, m
    <3>2. j \in 1..(m + 1) /\ bodies'[j] = f /\ levels'[j] = k
      BY <1>3, <3>1
    <3> QED
      BY <3>1, <3>2
  <2>2. CASE Awaits(f, k)
    <3>1. k + 1 \in 1..n /\ f \in P(k + 1)
      BY <2>2 DEF Awaits, n, P
    <3>2. CASE f \in Q(k + 1)
      <4>1. k + 1 \in 1..Len(calls')
        BY <1>3, <1>7, <3>1
      <4> QED
        BY <3>2, <4>1
    <3>3. CASE f \notin Q(k + 1)
      <4>1. k + 1 = n
        <5>1. k + 1 = n \/ k + 1 \in 1..(n - 1)
          BY <1>3, <3>1
        <5> QED
          BY <1>7, <3>1, <3>3, <5>1
      <4>2. f = path
        BY <1>7, <3>1, <3>3, <4>1
      <4>3. m + 1 \in 1..(m + 1) /\ i < m + 1 /\ bodies'[m + 1] = f /\ levels'[m + 1] = k
        BY <1>3, <4>1, <4>2
      <4> QED
        BY <4>3
    <3> QED
      BY <3>2, <3>3
  <2> QED
    BY <1>18, <2>1, <2>2
<1>19. Whole'
  <2>1. F(0, Main, 0) \/ A(Main, 0)
    <3>1. 0 \in 0..m /\ 0 \in Nat /\ (Follows(0, Main, 0) \/ Awaits(Main, 0))
      BY <1>0, <1>3, <1>11 DEF Whole
    <3> HIDE DEF F, A
    <3> QED
      BY <1>18, <3>1
  <2>2. ASSUME NEW i \in 1..(m + 1), NEW f \in I(bodies'[i])
        PROVE  F(i, f, levels'[i] + 1) \/ A(f, levels'[i] + 1)
    <3>1. CASE i \in 1..m
      <4>1. i \in 0..m /\ levels[i] + 1 \in Nat /\ levels'[i] = levels[i] /\ f \in I(bodies[i])
        BY <1>3, <2>2, <3>1
      <4>2. Follows(i, f, levels[i] + 1) \/ Awaits(f, levels[i] + 1)
        BY <1>0, <1>11, <3>1, <4>1 DEF Whole, I, m
      <4> HIDE DEF F, A
      <4> QED
        BY <1>18, <4>1, <4>2
    <3>2. CASE i = m + 1
      <4>1. f \in I(path) /\ levels'[i] + 1 = n
        BY <1>3, <2>2, <3>2
      <4>2. Len(calls') = n + 1 /\ f \in Q(n + 1)
        BY <1>7, <4>1
      <4>3. n + 1 \in 1..Len(calls')
        BY <1>3, <4>2
      <4> QED
        BY <4>1, <4>2, <4>3
    <3> QED
      BY <1>3, <3>1, <3>2
  <2> HIDE DEF F, A
  <2>3. \A i \in 1..(m + 1) : Includes(fs, bodies[i])' = I(bodies'[i])
    BY <1>3 DEF I
  <2> QED
    BY <1>3, <1>17, <2>1, <2>2, <2>3 DEF Whole
<1> QED
  BY <1>12, <1>14, <1>15, <1>16, <1>19 DEF IncludeInv

(***************************************************************************)
(* The caller has Main pending, the only file of level 0.                  *)
(***************************************************************************)
LEMMA InitInclude == IncludeInit => IncludeInv
<1> SUFFICES ASSUME IncludeInit PROVE IncludeInv
  OBVIOUS
<1> DEFINE first == Call(<<>>, <<>>, <<Main>>)
<1>1. /\ fs \in FileSystems /\ maxDepth \in MaxDepths
      /\ calls = <<first>> /\ bodies = <<>> /\ diags = "none" /\ levels = <<>>
  BY DEF IncludeInit
<1>2. <<>> \in Path /\ <<>> \in Seq(Pattern) /\ <<Main>> \in Seq(Path)
  BY IncludeAssumption DEF Path
<1>3. first \in ACall /\ Pending(fs, first) = ToSet(<<Main>>) \cup Matches(fs, <<>>, <<>>)
  BY <1>2, CallIsCall
<1>4. ToSet(<<Main>>) = {Main}
  BY DEF ToSet
<1>5. Pending(fs, first) = {Main}
  BY <1>3, <1>4, NoPatterns
<1> HIDE DEF first
<1>6. calls \in Seq(ACall) /\ Len(calls) = 1 /\ calls[1] = first /\ Len(bodies) = 0 /\ Len(levels) = 0
  BY <1>1, <1>3
<1>7. IncludeTypeOK
  BY <1>1, <1>2, <1>6 DEF IncludeTypeOK, ACall
<1>8. maxDepth \in Nat /\ Level(fs, maxDepth + 1)[0] = {Main}
  BY <1>7, DepthTypes
<1>9. Nested
  BY <1>5, <1>6, <1>8 DEF Nested
<1>10. Placed
  BY <1>6 DEF Placed
<1>11. Justified
  BY <1>1 DEF Justified
<1>12. Whole
  <2>1. Awaits(Main, 0)
    BY <1>5, <1>6 DEF Awaits
  <2> QED
    BY <1>6, <2>1 DEF Whole
<1> QED
  BY <1>7, <1>9, <1>10, <1>11, <1>12 DEF IncludeInv

(***************************************************************************)
(* A malformed pattern stands for itself among the files of the level that *)
(* the number of calls says.                                               *)
(***************************************************************************)
LEMMA PatternInLevel ==
  ASSUME IncludeTypeOK, Nested, PatternFails
  PROVE  \E n \in 0..(maxDepth + 1) : \E path \in Level(fs, maxDepth + 1)[n] : Malformed(path)
<1> DEFINE c == Current
           p == Head(c.patterns)
<1>1. calls \in Seq(ACall) /\ calls # <<>> /\ c.patterns # <<>> /\ Malformed(p)
  BY DEF IncludeTypeOK, PatternFails, HasPattern, ACall
<1>2. c \in ACall /\ c = calls[Len(calls)] /\ Len(calls) \in Nat /\ Len(calls) >= 1
  <2>1. calls[1] \in ACall
    BY <1>1
  <2> QED
    BY <1>1, <2>1, CallsContinue
<1>3. c.dir \in Path /\ c.patterns \in Seq(Pattern)
  BY <1>2, CallTypes
<1>4. p \in Pattern
  BY <1>1, <1>3, HeadAndTail
<1>5. Malformed(c.dir \o p)
  BY <1>1, <1>3, <1>4, MalformedNames
<1>6. c.dir \o p \in Matches(fs, c.dir, c.patterns)
  <2> DEFINE q == c.patterns
  <2>1. Matches(fs, c.dir, q) = Found(fs, c.dir, Head(q)) \cup Matches(fs, c.dir, Tail(q))
    <3> HIDE DEF c
    <3> QED
      BY <1>1, <1>3, MatchesHead
  <2>2. Found(fs, c.dir, p) = {c.dir \o p}
    BY <1>1 DEF Found
  <2> QED
    BY <2>1, <2>2
<1>7. c.dir \o p \in Pending(fs, calls[Len(calls)])
  BY <1>2, <1>6 DEF Pending
<1> HIDE DEF c, p
<1>8. Len(calls) \in 1..Len(calls)
  BY <1>2
<1>9. Pending(fs, calls[Len(calls)]) \subseteq Level(fs, maxDepth + 1)[Len(calls) - 1] /\ Len(calls) =< maxDepth + 2
  BY <1>8 DEF Nested
<1>10. Len(calls) - 1 \in 0..(maxDepth + 1)
  BY <1>2, <1>9, DepthTypes
<1> QED
  BY <1>5, <1>7, <1>9, <1>10

(***************************************************************************)
(* An error is returned for the file that the next path names, or for the  *)
(* next pattern.                                                           *)
(***************************************************************************)
LEMMA FailsStep ==
  ASSUME IncludeInv, PatternFails \/ ParseFails \/ AttrFails \/ DepthFails
  PROVE  IncludeInv'
<1> DEFINE L == Level(fs, maxDepth + 1)
           n == Len(calls)
<1>0. IncludeTypeOK /\ Nested
  BY DEF IncludeInv
<1>1. /\ calls' = <<>> /\ bodies' = <<>> /\ levels' = <<>> /\ fs' = fs /\ maxDepth' = maxDepth
      /\ diags' \in {"parse", "depth", "attribute", "pattern"}
      /\ diags' # "pattern" => HasPath
  BY DEF PatternFails, ParseFails, AttrFails, DepthFails, Fail
<1>2. HasPath => NextPath \in L[n - 1] /\ n - 1 \in 0..(maxDepth + 1) /\ NextDepth = maxDepth - (n - 1)
  BY <1>0, NextInLevel
<1>3. maxDepth \in Nat /\ n \in Nat /\ Level(fs, maxDepth + 1)' = L
  BY <1>0, <1>1, DepthTypes
<1>4. IncludeTypeOK'
  <2> HIDE DEF n, L
  <2> QED
    BY <1>0, <1>1 DEF IncludeTypeOK
<1>5. Nested' /\ Placed'
  <2>1. Len(calls') = 0 /\ Len(bodies') = 0
    BY <1>1
  <2> QED
    BY <1>1, <1>3, <2>1 DEF Nested, Placed
<1>6. ASSUME diags' = "parse" PROVE HasPath /\ NextPath \notin DOMAIN fs /\ ~Malformed(NextPath)
  <2>1. HasPath /\ NextPath \notin DOMAIN fs
    BY <1>6 DEF PatternFails, ParseFails, AttrFails, DepthFails, ParseFileFS, Fail
  <2> QED
    BY <1>0, <2>1, PathCalls, MalformedNames
<1>7. ASSUME diags' = "depth"
      PROVE  NextPath \in DOMAIN fs /\ HasIncludes(fs[NextPath]) /\ NextPath \in L[maxDepth + 1]
  <2>1. HasPath /\ NextPath \in DOMAIN fs /\ TooDeep(fs[NextPath], NextDepth)
    BY <1>7 DEF PatternFails, ParseFails, AttrFails, DepthFails, ParseFileFS, Fail
  <2>2. HasIncludes(fs[NextPath]) /\ NextDepth < 0
    BY <2>1 DEF TooDeep
  <2>3. n - 1 = maxDepth + 1
    BY <1>2, <1>3, <2>1, <2>2
  <2> QED
    BY <1>2, <2>1, <2>2, <2>3
<1>8. ASSUME diags' = "attribute" PROVE HasPath /\ NextPath \in DOMAIN fs /\ fs[NextPath].include = BadAttr
  BY <1>8 DEF PatternFails, ParseFails, AttrFails, DepthFails, ParseFileFS, Fail
<1>9. ASSUME diags' = "pattern"
      PROVE  \E k \in 0..(maxDepth + 1) : \E path \in L[k] : Malformed(path)
  <2>1. PatternFails
    BY <1>9 DEF PatternFails, ParseFails, AttrFails, DepthFails, Fail
  <2> QED
    BY <1>0, <2>1, PatternInLevel
<1> HIDE DEF L, n
<1>10. Justified'
  <2>1. diags' = "parse" =>
          \E k \in 0..(maxDepth + 1) : \E path \in L[k] : path \notin DOMAIN fs /\ ~Malformed(path)
    BY <1>2, <1>6
  <2>2. diags' = "depth" => \E path \in L[maxDepth + 1] : path \in DOMAIN fs /\ HasIncludes(fs[path])
    BY <1>7
  <2>3. diags' = "attribute" =>
          \E k \in 0..(maxDepth + 1) : \E path \in L[k] : path \in DOMAIN fs /\ fs[path].include = BadAttr
    BY <1>2, <1>8
  <2> QED
    BY <1>1, <1>3, <1>9, <2>1, <2>2, <2>3 DEF Justified
<1> QED
  BY <1>1, <1>4, <1>5, <1>10 DEF IncludeInv

(***************************************************************************)
(* Steps that merge nothing: a call takes its next pattern or returns.     *)
(***************************************************************************)
LEMMA LoopStep ==
  ASSUME IncludeInv, NextPattern \/ IncludeReturns
  PROVE  IncludeInv'
<1> DEFINE L == Level(fs, maxDepth + 1)
           n == Len(calls)
           P(k) == Pending(fs, calls[k])
           Q(k) == Pending(fs, calls'[k])
<1>0. IncludeTypeOK /\ Nested /\ Placed /\ Justified /\ (diags = "none" => Whole)
  BY DEF IncludeInv
<1>1. fs' = fs /\ maxDepth' = maxDepth /\ bodies' = bodies /\ levels' = levels /\ diags' = diags /\ calls # <<>>
  BY DEF NextPattern, HasPattern, IncludeReturns
<1>2. diags = "none"
  BY <1>0, <1>1 DEF Justified
<1>3. maxDepth \in Nat /\ n \in Nat
  BY <1>0, DepthTypes
<1>4. /\ calls' \in Seq(ACall) /\ Len(calls') \in Nat /\ Len(calls') <= n
      /\ \A k \in 1..Len(calls') : k \in 1..n /\ Q(k) = P(k)
      /\ \A k \in 1..n : k \in 1..Len(calls') \/ P(k) = {}
  <2>1. CASE NextPattern
    <3>1. /\ calls' \in Seq(ACall) /\ Len(calls') = n
          /\ \A k \in 1..n : Q(k) = P(k)
      BY <1>0, <2>1, PatternCalls
    <3> HIDE DEF n, P, Q
    <3> QED
      BY <1>3, <3>1
  <2>2. CASE IncludeReturns
    <3>1. /\ calls' \in Seq(ACall) /\ Len(calls') = n - 1 /\ n >= 1
          /\ \A k \in 1..(n - 1) : Q(k) = P(k)
          /\ P(n) = {}
      BY <1>0, <2>2, ReturnCalls
    <3> HIDE DEF n, P, Q
    <3>2. \A k \in 1..n : k \in 1..(n - 1) \/ k = n
      BY <1>3
    <3> QED
      BY <1>3, <3>1, <3>2
  <2> QED
    BY <2>1, <2>2
<1>5. \A k \in 1..Len(calls') : Pending(fs, calls[k])' = Q(k)
  BY <1>1
<1>6. IncludeTypeOK'
  BY <1>0, <1>1, <1>4 DEF IncludeTypeOK, ACall
<1>7. Nested'
  <2>1. n =< maxDepth + 2 /\ \A k \in 1..n : P(k) \subseteq L[k - 1]
    BY <1>0 DEF Nested
  <2>2. Len(calls') =< maxDepth + 2 /\ \A k \in 1..Len(calls') : Q(k) \subseteq L[k - 1]
    <3> HIDE DEF n, P, Q, L
    <3> QED
      BY <1>3, <1>4, <2>1
  <2> HIDE DEF Q
  <2> QED
    BY <1>1, <1>5, <2>2 DEF Nested
<1>8. Placed'
  BY <1>0, <1>1 DEF Placed
<1>9. Justified'
  BY <1>1, <1>2 DEF Justified
<1>10. \A i, f, k : Follows(i, f, k)' = Follows(i, f, k)
  BY <1>1 DEF Follows
<1>11. \A f : \A k \in Nat : Awaits(f, k) => Awaits(f, k)'
  <2>1. ASSUME NEW f, NEW k \in Nat, Awaits(f, k) PROVE Awaits(f, k)'
    <3>1. k + 1 \in 1..n /\ f \in P(k + 1)
      BY <2>1 DEF Awaits
    <3>2. k + 1 \in 1..Len(calls') /\ f \in Q(k + 1)
      <4> HIDE DEF n, P, Q
      <4> QED
        BY <1>4, <3>1
    <3> QED
      BY <1>1, <3>2 DEF Awaits
  <2> QED
    BY <2>1
<1>12. \A i \in 1..Len(bodies) : levels[i] + 1 \in Nat
  BY <1>0 DEF Placed
<1>13. Whole'
  <2>1. Whole
    BY <1>0, <1>2
  <2>2. Follows(0, Main, 0)' \/ Awaits(Main, 0)'
    BY <1>10, <1>11, <2>1 DEF Whole
  <2>3. ASSUME NEW i \in 1..Len(bodies), NEW f \in Includes(fs, bodies[i])
        PROVE  Follows(i, f, levels[i] + 1)' \/ Awaits(f, levels[i] + 1)'
    <3>1. Follows(i, f, levels[i] + 1) \/ Awaits(f, levels[i] + 1)
      BY <2>1 DEF Whole
    <3>2. Follows(i, f, levels[i] + 1) => Follows(i, f, levels[i] + 1)'
      BY <1>1 DEF Follows
    <3>3. Awaits(f, levels[i] + 1) => Awaits(f, levels[i] + 1)'
      <4> DEFINE k == levels[i] + 1
      <4>1. k \in Nat /\ k' = k
        BY <1>1, <1>12
      <4> QED
        BY <1>11, <4>1 DEF Awaits
    <3> QED
      BY <3>1, <3>2, <3>3
  <2> QED
    BY <1>1, <2>2, <2>3 DEF Whole
<1> QED
  BY <1>6, <1>7, <1>8, <1>9, <1>13 DEF IncludeInv

(***************************************************************************)
(* Every step keeps the invariant.                                         *)
(***************************************************************************)
LEMMA StepInclude == IncludeInv /\ [IncludeNext]_includeVars => IncludeInv'
<1> SUFFICES ASSUME IncludeInv, [IncludeNext]_includeVars PROVE IncludeInv'
  OBVIOUS
<1>1. CASE NextPattern \/ IncludeReturns
  BY <1>1, LoopStep
<1>2. CASE PatternFails \/ ParseFails \/ AttrFails \/ DepthFails
  BY <1>2, FailsStep
<1>3. CASE IncludeBody \/ IncludeFile
  BY <1>3, MergesStep
<1>4. CASE UNCHANGED includeVars
  BY <1>4 DEF includeVars, IncludeInv, IncludeTypeOK, Nested, Placed, Justified, Whole, Follows, Awaits
<1> QED
  BY <1>1, <1>2, <1>3, <1>4 DEF IncludeNext

(***************************************************************************)
(* When all calls have returned, every file of every level is merged.      *)
(***************************************************************************)
LEMMA LevelsMerged ==
  ASSUME IncludeInv, calls = <<>>, diags = "none", NEW n \in 0..(maxDepth + 1)
  PROVE  \A path \in Level(fs, maxDepth + 1)[n] : Follows(0, path, n)
<1> DEFINE L == Level(fs, maxDepth + 1)
           S == {k \in 0..n : \A path \in L[k] : Follows(0, path, k)}
<1>0. IncludeTypeOK /\ Whole /\ Placed
  BY DEF IncludeInv
<1>1. maxDepth \in Nat /\ L[0] = {Main}
      /\ \A k \in 1..(maxDepth + 1) : L[k] = UNION {Includes(fs, path) : path \in L[k - 1]}
  BY <1>0, DepthTypes
<1>2. \A path, k : ~Awaits(path, k)
  BY DEF Awaits
<1> HIDE DEF L
<1>3. 0 \in S
  BY <1>0, <1>1, <1>2 DEF Whole
<1>4. ASSUME NEW k \in 1..n, k - 1 \in S PROVE k \in S
  <2>1. ASSUME NEW path \in L[k] PROVE Follows(0, path, k)
    <3>1. PICK f \in L[k - 1] : path \in Includes(fs, f)
      BY <1>1, <2>1
    <3>2. PICK i \in 1..Len(bodies) : bodies[i] = f /\ levels[i] = k - 1
      BY <1>4, <3>1 DEF Follows
    <3>3. Follows(i, path, levels[i] + 1)
      BY <1>0, <1>2, <3>1, <3>2 DEF Whole
    <3>4. levels[i] + 1 = k
      BY <3>2
    <3>5. PICK j \in 1..Len(bodies) : i < j /\ bodies[j] = path /\ levels[j] = k
      BY <3>3, <3>4 DEF Follows
    <3>6. 0 < j
      BY <3>5
    <3> QED
      BY <3>5, <3>6 DEF Follows
  <2> QED
    BY <2>1
<1>5. n \in S
  <2> HIDE DEF S
  <2>1. n \in Nat
    BY <1>1
  <2> QED
    BY <1>3, <1>4, <2>1, UpTo
<1> QED
  BY <1>5 DEF L

(***************************************************************************)
(* The invariant says all of IncludeExact.  Every file of every level is   *)
(* merged at its level, so none is missing and none too deep.              *)
(***************************************************************************)
LEMMA InvIncludeExact == IncludeInv => IncludeExact
<1> SUFFICES ASSUME IncludeInv PROVE IncludeExact
  OBVIOUS
<1> DEFINE L == Level(fs, maxDepth + 1)
           reached == UNION {L[n] : n \in 0..(maxDepth + 1)}
           missing == \E path \in reached \ DOMAIN fs : ~Malformed(path)
           malformed == \E path \in reached : Malformed(path)
           undecoded == \E path \in reached \cap DOMAIN fs : fs[path].include = BadAttr
           deep == \E path \in L[maxDepth + 1] \cap DOMAIN fs : HasIncludes(fs[path])
<1>0. IncludeTypeOK /\ Nested /\ Placed /\ Justified /\ (diags = "none" => Whole)
  BY DEF IncludeInv
<1>1. maxDepth \in Nat
  BY <1>0, DepthTypes
<1>2. /\ diags = "parse" => missing
      /\ diags = "pattern" => malformed
      /\ diags = "attribute" => undecoded
  BY <1>0 DEF Justified
<1>3. diags = "depth" => deep
  BY <1>0 DEF Justified
<1>4. ASSUME calls = <<>>, diags = "none"
      PROVE  /\ ~missing /\ ~malformed /\ ~undecoded /\ ~deep
             /\ ToSet(bodies) = reached
             /\ \A f \in reached : \A g \in Includes(fs, f) :
                  \E i, j \in DOMAIN bodies : i < j /\ bodies[i] = f /\ bodies[j] = g
  <2>1. \A n \in 0..(maxDepth + 1) : \A path \in L[n] : \E i \in 1..Len(bodies) : bodies[i] = path /\ levels[i] = n
    BY <1>4, LevelsMerged DEF Follows
  <2>2. /\ Whole
        /\ \A path, k : ~Awaits(path, k)
    BY <1>0, <1>4 DEF Awaits
  <2>3. DOMAIN bodies = 1..Len(bodies)
    BY <1>0 DEF IncludeTypeOK
  <2>4. \A i \in 1..Len(bodies) : /\ levels[i] \in 0..(maxDepth + 1)
                                  /\ bodies[i] \in DOMAIN fs /\ bodies[i] \in L[levels[i]]
                                  /\ fs[bodies[i]].include # BadAttr
                                  /\ HasIncludes(fs[bodies[i]]) => levels[i] <= maxDepth
    BY <1>0 DEF Placed
  <2> HIDE DEF L
  <2>5. ~deep
    <3> SUFFICES ASSUME NEW path \in L[maxDepth + 1], path \in DOMAIN fs, HasIncludes(fs[path]) PROVE FALSE
      OBVIOUS
    <3>1. maxDepth + 1 \in 0..(maxDepth + 1)
      BY <1>1
    <3>2. PICK i \in 1..Len(bodies) : bodies[i] = path /\ levels[i] = maxDepth + 1
      BY <2>1, <3>1
    <3>3. maxDepth + 1 <= maxDepth
      BY <2>4, <3>2
    <3> QED
      BY <1>1, <3>3
  <2>6. ToSet(bodies) = reached /\ ~missing
    BY <2>1, <2>3, <2>4 DEF ToSet
  <2>8. \A path \in reached : path \in DOMAIN fs /\ fs[path].include # BadAttr
    BY <2>1, <2>4
  <2>9. \A path \in DOMAIN fs : ~Malformed(path)
    BY <1>0, IncludeAssumption, MalformedNames DEF IncludeTypeOK
  <2>7. ASSUME NEW f \in reached, NEW g \in Includes(fs, f)
        PROVE  \E i, j \in DOMAIN bodies : i < j /\ bodies[i] = f /\ bodies[j] = g
    <3>1. PICK i \in 1..Len(bodies) : bodies[i] = f
      BY <2>1
    <3>2. Follows(i, g, levels[i] + 1)
      BY <2>2, <2>7, <3>1 DEF Whole
    <3> QED
      BY <2>3, <3>1, <3>2 DEF Follows
  <2> QED
    BY <2>5, <2>6, <2>7, <2>8, <2>9
<1>5. Len(calls) =< maxDepth + 2
  BY <1>0 DEF Nested
<1> QED
  BY <1>2, <1>3, <1>4, <1>5 DEF IncludeExact

(***************************************************************************)
(* What calls have pending, what is merged and what an error means, for    *)
(* every file system and depth, after every turn of the loops of Include.  *)
(***************************************************************************)
THEOREM IncludeInvariant == IncludeSpec => []IncludeInv
BY InitInclude, StepInclude, PTL DEF IncludeSpec

(***************************************************************************)
(* The calls, bodies and levels have the types the model says.             *)
(***************************************************************************)
THEOREM IncludeTypes == IncludeSpec => []IncludeTypeOK
<1>1. IncludeInv => IncludeTypeOK
  BY DEF IncludeInv
<1> QED
  BY <1>1, IncludeInvariant, PTL

(***************************************************************************)
(* Include fails exactly if it reaches a path that is no file, a malformed *)
(* pattern, an attribute that does not decode or a file with includes that *)
(* is too deep, and otherwise merges every file that is reached, each      *)
(* before the ones it includes; never do more calls run than the depth     *)
(* allows.  This holds for every file system, cyclic ones included.        *)
(***************************************************************************)
THEOREM IncludeIsExact == IncludeSpec => []IncludeExact
BY IncludeInvariant, InvIncludeExact, PTL
=============================================================================
