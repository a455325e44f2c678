----------------------------- MODULE Variables -----------------------------
(***************************************************************************)
(* The variable resolver of hcl/ext/variables.  A definition's expression  *)
(* is a literal, an operation on references to other variables, a map or   *)
(* a list.  The resolver keeps a tree with a node for every variable and,  *)
(* below definitions that contain references, for every element of a map   *)
(* or list.  The tree is a function from paths (sequences of keys, <<>> is *)
(* the root) to nodes.  Keys and list indexes are strings.                 *)
(***************************************************************************)
EXTENDS Integers, Sequences, FiniteSets, SequencesExt

-----------------------------------------------------------------------------
(***************************************************************************)
(* Expressions and cty values, and how hcl evaluates one (external).  A    *)
(* map with dyn has a key that contains some variable of the context.      *)
(***************************************************************************)
NoExpr == [k |-> "none"]
Nil == [k |-> "nil"]
Bad == [k |-> "bad"]
Num(n) == [k |-> "num", n |-> n]
Obj(f) == [k |-> "obj", f |-> f]
Tup(f) == [k |-> "tup", f |-> f]

Lit(n) == [k |-> "lit", n |-> n]
Ref(path) == [k |-> "sum", refs |-> <<path>>]
Plus(p, q) == [k |-> "sum", refs |-> <<p, q>>]
Map(f) == [k |-> "map", els |-> f, dyn |-> FALSE]
DynMap(f) == [k |-> "map", els |-> f, dyn |-> TRUE]
List(f) == [k |-> "list", els |-> f]

IsCons(e) == e.k \in {"map", "list"}

\* Expression.Variables: the references to "var" in an expression.
RECURSIVE Refs(_)
Refs(e) ==
  CASE e.k = "sum" -> e.refs
    [] IsCons(e) -> FoldLeft(LAMBDA q, key : q \o Refs(e.els[key]), <<>>, SetToSeq(DOMAIN e.els))
    [] OTHER -> <<>>

\* The attributes or elements of a value along a path.
Index(v, path) ==
  FoldLeft(LAMBDA w, key : IF w.k \in {"obj", "tup"} /\ key \in DOMAIN w.f THEN w.f[key] ELSE Bad,
           v, path)

\* What an operation makes of the values it refers to.
Combined(vals) ==
  IF Len(vals) = 1 THEN vals[1]
  ELSE IF \A i \in DOMAIN vals : vals[i].k = "num"
       THEN Num(FoldLeft(LAMBDA n, x : n + x.n, 0, vals)) ELSE Bad

\* Expression.Value, with v as the value of "var".
RECURSIVE Value(_, _)
Value(e, v) ==
  LET els == [key \in DOMAIN e.els |-> Value(e.els[key], v)]
  IN  CASE e.k = "lit" -> Num(e.n)
        [] e.k = "sum" -> Combined([i \in DOMAIN e.refs |-> Index(v, e.refs[i])])
        [] IsCons(e) ->
             IF \E key \in DOMAIN els : els[key] = Bad THEN Bad
             ELSE IF e.k = "map" THEN Obj(els) ELSE Tup(els)

-----------------------------------------------------------------------------
(***************************************************************************)
(* The tree of variables.                                                  *)
(***************************************************************************)
Node(e, size) == [expression |-> e, resolved |-> Nil, visited |-> FALSE, size |-> size]
Blank == Node(NoExpr, 0)
Root == [p \in {<<>>} |-> Blank]

IsLeaf(t, p) == \A q \in DOMAIN t : q # p => ~IsPrefix(p, q)
Children(t, p) == {q \in DOMAIN t : Len(q) = Len(p) + 1 /\ IsPrefix(p, q)}
Below(t, p) == {q \in DOMAIN t : q # p /\ IsPrefix(p, q)}

\* variables.path, when the node at path is then set to v.
SetPath(t, path, v) ==
  [q \in DOMAIN t \cup {SubSeq(path, 1, i) : i \in 0..Len(path)} |->
     CASE q = path -> v
       [] q # path /\ q \in DOMAIN t -> t[q]
       [] OTHER -> Blank]

\* Mutant: one more key than the tree has is taken off.
closestAbove(t, path) ==
  LET n == CHOOSE i \in 0..Len(path) :
             /\ SubSeq(path, 1, i) \in DOMAIN t
             /\ \A j \in (i + 1)..Len(path) : SubSeq(path, 1, j) \notin DOMAIN t
  IN  IF n > 1 THEN SubSeq(path, 1, n - 1) ELSE SubSeq(path, 1, n)

\* variables.closest: the longest prefix of the path that is in the tree.
closest(t, path) ==
  CHOOSE q \in DOMAIN t :
    /\ IsPrefix(q, path)
    /\ \A r \in DOMAIN t : IsPrefix(r, path) => Len(r) =< Len(q)

hasSelfReference(v) == v.expression # NoExpr /\ Refs(v.expression) # <<>>

\* variables.toValue of the node at p.
RECURSIVE toValue(_, _)
toValue(t, p) ==
  LET e == t[p].expression
      vals == [key \in {Last(q) : q \in Children(t, p)} |-> toValue(t, Append(p, key))]
  IN  CASE t[p].resolved # Nil -> t[p].resolved
        [] t[p].resolved = Nil /\ e.k = "list" -> Tup(vals)
        [] t[p].resolved = Nil /\ (e.k = "map" \/ (e = NoExpr /\ ~IsLeaf(t, p))) -> Obj(vals)
        [] OTHER -> Nil

\* Mutant: the number of the children is not looked at.
CompleteAny(t, p) == \A q \in Children(t, p) : t[q].resolved # Nil

\* As many children as the expression has elements, all of them resolved.
Complete(t, p) ==
  /\ t[p].size = Cardinality(Children(t, p))
  /\ \A q \in Children(t, p) : t[q].resolved # Nil

\* variables.optimize: children first; a complete node with resolved
\* children takes their values and drops them.
RECURSIVE optimize(_, _)
optimize(t, p) ==
  LET u == FoldLeft(optimize, t, SetToSeq(Children(t, p)))
      value == toValue(u, p)
  IN  CASE t[p].resolved # Nil \/ (t[p].expression = NoExpr /\ IsLeaf(t, p)) -> t
        [] Complete(u, p) -> [q \in DOMAIN u \ Below(u, p) |->
                          IF q = p THEN [u[p] EXCEPT !.resolved = value] ELSE u[q]]
        [] OTHER -> u

-----------------------------------------------------------------------------
(***************************************************************************)
(* Results are a tree and an outcome: "none", "circular", "value" (an      *)
(* expression has no value), "key" (a key with a variable), or "panic".    *)
(***************************************************************************)
Result(t, err) == [t |-> t, err |-> err]

\* A step for every element until one fails.
Each(op(_, _), t, q) ==
  FoldLeft(LAMBDA r, x : IF r.err = "none" THEN op(r.t, x) ELSE r, Result(t, "none"), q)

(***************************************************************************)
(* variableResolver.add with its traverse: the node, and below it the      *)
(* elements if the expression contains references.  Nodes an earlier       *)
(* definition of the same variable has left in the tree stay there.        *)
(***************************************************************************)
RECURSIVE add(_, _, _)
add(t, path, e) ==
  LET u == SetPath(t, path, Node(e, IF IsCons(e) THEN Cardinality(DOMAIN e.els) ELSE -1))
      Sub(w, key) == add(w, Append(path, key), e.els[key])
  IN  CASE ~hasSelfReference(u[path]) \/ ~IsCons(e) -> Result(u, "none")
        [] hasSelfReference(u[path]) /\ e.k = "map" /\ e.dyn -> Result(u, "key")
        [] OTHER -> Each(Sub, u, SetToSeq(DOMAIN e.els))

\* How many leaves traverse visits.
RECURSIVE Leaves(_)
Leaves(e) == IF IsCons(e)
             THEN FoldLeft(LAMBDA n, key : n + Leaves(e.els[key]), 0, SetToSeq(DOMAIN e.els))
             ELSE 1

\* varRefFiltered.toValue: only what is referenced, with its resolved values.
Filtered(t, refs) ==
  toValue(FoldLeft(LAMBDA w, path : SetPath(w, closest(t, path), t[closest(t, path)]), Root, refs),
          <<>>)

SetResolved(t, p, value) ==
  IF value = Bad THEN Result(t, "value")
  ELSE Result([t EXCEPT ![p].resolved = value], "none")

(***************************************************************************)
(* resolveSingle with resolveWithoutSelfReference and                      *)
(* resolveWithSelfReference.  The latter evaluates the whole expression    *)
(* once for every leaf of it.  A node without expression (the root, if no  *)
(* variable has the first key of the path) is dereferenced: panic.         *)
(***************************************************************************)
RECURSIVE resolveSingle(_, _)
resolveSingle(t, path) ==
  LET p == closest(t, path)
      u == optimize([t EXCEPT ![p].visited = TRUE], p)
      e == u[p].expression
      Evaluate(w, leaf) ==
        LET r == Each(resolveSingle, w, Refs(e))
        IN  IF r.err # "none" THEN r
            ELSE SetResolved(r.t, p, Value(e, Filtered(r.t, Refs(e))))
  IN  CASE t[p].resolved # Nil -> Result(t, "none")
        [] t[p].resolved = Nil /\ t[p].expression = NoExpr -> Result(t, "panic")
        [] t[p].resolved = Nil /\ t[p].expression # NoExpr /\ t[p].visited -> Result(t, "circular")
        [] OTHER -> IF hasSelfReference(u[p])
                    THEN Each(Evaluate, u, [i \in 1..Leaves(e) |-> i])
                    ELSE SetResolved(u, p, Value(e, Nil))
=============================================================================
