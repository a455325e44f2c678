---------------------------- MODULE RpcResolvers ----------------------------
(***************************************************************************)
(* The resolvers of rpcsplitter/resolver.go: how the answers of several    *)
(* endpoints become one answer.  An answer is a number, or Fail for an     *)
(* error; the numbers stand for any comparable response.  Next to each     *)
(* resolver stands what its comment promises, as a relation between the    *)
(* answers and the result, independent of their order.                     *)
(***************************************************************************)
EXTENDS Integers, FiniteSets, Sequences, SequencesExt, TLC

CONSTANTS
  Fail,             \* an error returned by an endpoint
  MaxBlocksBehind   \* maxBlocksBehind of WithRequirements

ASSUME RequirementsAssumption ==
  /\ Fail \notin Int
  /\ MaxBlocksBehind \in Nat

\* What resolve gives: a value, an error, or a panic (an index out of range).
Ok(v) == [kind |-> "ok", v |-> v]
Err == [kind |-> "err", v |-> 0]
Panic == [kind |-> "panic", v |-> 0]

\* extractErrors; filterByNumberType keeps all the rest, because all answers
\* to one call have one type.
Responses(rs) ==
  LET filtered[k \in 0..Len(rs)] ==
        IF k = 0 THEN <<>>
        ELSE IF rs[k] = Fail THEN filtered[k - 1] ELSE Append(filtered[k - 1], rs[k])
  IN  filtered[Len(rs)]

Count(s, v) == Cardinality({i \in DOMAIN s : s[i] = v})

-----------------------------------------------------------------------------
(***************************************************************************)
(* defaultResolver: one pass that counts each response among all and keeps *)
(* the most common so far and whether another one is as common.            *)
(***************************************************************************)
Visit(resps, acc, a) ==
  LET counter == Count(resps, a)
  IN  IF counter > acc.count THEN [resp |-> a, count |-> counter, multiple |-> FALSE]
      ELSE IF counter = acc.count /\ acc.resp # a THEN [acc EXCEPT !.multiple = TRUE]
      ELSE acc

MostCommon(resps) ==
  FoldLeft(LAMBDA acc, a : Visit(resps, acc, a),
           [resp |-> resps[1], count |-> 0, multiple |-> FALSE], resps)

\* Mutant: a tie is decided for the response that came first.
DefaultPickFirst(min, resps) ==
  LET m == MostCommon(resps)
  IN  IF m.count < min THEN Err ELSE Ok(m.resp)

\* Mutant: the number of occurrences is not compared with minResponses.
DefaultPickAny(min, resps) ==
  LET m == MostCommon(resps)
  IN  IF m.multiple THEN Err ELSE Ok(m.resp)

DefaultPick(min, resps) ==
  LET m == MostCommon(resps)
  IN  IF m.multiple \/ m.count < min THEN Err ELSE Ok(m.resp)

\* v occurs at least min times and more often than all others.
Prevails(min, rs, v) ==
  /\ Count(rs, v) >= min
  /\ \A w \in Range(Responses(rs)) \ {v} : Count(rs, w) < Count(rs, v)

-----------------------------------------------------------------------------
(***************************************************************************)
(* gasValueResolver: the value, the lower of two, or the median.           *)
(***************************************************************************)
\* An arrangement of the numbers in ascending order.
Sorts(ns, p) ==
  /\ \A i, j \in DOMAIN ns : i < j => ns[p[i]] <= ns[p[j]]
  /\ \A i, j \in DOMAIN ns : i < j => p[i] # p[j]

\* sort.Slice
Sorted(ns) ==
  LET p == CHOOSE p \in [DOMAIN ns -> DOMAIN ns] : Sorts(ns, p)
  IN  [i \in DOMAIN ns |-> ns[p[i]]]

Median(ns) ==
  LET s == Sorted(ns)
      m == Len(ns) \div 2
  IN  IF Len(ns) % 2 = 0 THEN (s[m] + s[m + 1]) \div 2 ELSE s[m + 1]

\* Mutant: the higher of two values.
GasPickHigher(ns) ==
  IF Len(ns) = 2 THEN Ok(IF ns[1] > ns[2] THEN ns[1] ELSE ns[2])
                 ELSE Ok(Median(ns))

GasPick(ns) ==
  IF Len(ns) = 2 THEN Ok(IF ns[1] > ns[2] THEN ns[2] ELSE ns[1])
                 ELSE Ok(Median(ns))

\* At least half of the numbers are not above v, at least half not below:
\* less than half of the endpoints cannot move v beyond the others' range.
Central(ns, v) ==
  /\ 2 * Cardinality({i \in DOMAIN ns : ns[i] <= v}) >= Len(ns)
  /\ 2 * Cardinality({i \in DOMAIN ns : ns[i] >= v}) >= Len(ns)
  /\ Len(ns) = 2 => \A i \in 1..2 : v <= ns[i]

-----------------------------------------------------------------------------
(***************************************************************************)
(* blockNumberResolver: the highest number, then the lowest that is not    *)
(* more than MaxBlocksBehind below it.                                     *)
(***************************************************************************)
High(ns) == FoldLeft(LAMBDA h, n : IF h < n THEN n ELSE h, ns[1], ns)

\* Mutant: the bound is compared with <.
LowestNearStrict(ns, high) ==
  FoldLeft(LAMBDA b, n : IF high - n < MaxBlocksBehind /\ n < b THEN n ELSE b, high, ns)

LowestNear(ns, high) ==
  FoldLeft(LAMBDA b, n : IF high - n <= MaxBlocksBehind /\ n < b THEN n ELSE b, high, ns)

BlockPick(ns) == Ok(LowestNear(ns, High(ns)))

\* v is one of the numbers, near enough to all of them, and no lower number
\* is near enough to all of them.
LowestWithinLimit(ns, v) ==
  LET near == {n \in Range(ns) : \A m \in Range(ns) : m - n <= MaxBlocksBehind}
  IN  v \in near /\ \A n \in near : v <= n

-----------------------------------------------------------------------------
Pick(kind, min, resps) ==
  CASE kind = "default" -> DefaultPick(min, resps)
    [] kind = "gas" -> GasPick(resps)
    [] kind = "block" -> BlockPick(resps)

\* The three resolve methods begin alike; min is their minResponses.
resolve(kind, min, rs) ==
  LET resps == Responses(rs)
  IN  IF Len(resps) < min THEN Err
      ELSE IF Len(resps) = 0 THEN Panic
      ELSE IF Len(resps) = 1 THEN Ok(resps[1])
      ELSE Pick(kind, min, resps)
=============================================================================
