------------------------------- MODULE Config -------------------------------
(***************************************************************************)
(* A configuration is loaded: Include merges the files (hcl/ext/include),  *)
(* then Variables collects the definitions of all "variables" blocks and   *)
(* resolves them (hcl/ext/variables).  The blocks of a merged body come in *)
(* the order of its files, so a variable that is defined again takes the   *)
(* later definition: the included file wins over the including one.        *)
(***************************************************************************)
EXTENDS Include, Variables

VARIABLES
  phase,     \* "include", "populate", "resolve" or "done"
  todo,      \* the attributes that populateResolver has yet to add
  tree,      \* resolver.variables
  top,       \* the variables that resolveAll has yet to resolve
  err,       \* the outcome: "none" or what went wrong
  value,     \* ctx.Variables["var"]
  defs,      \* history: all attributes, in the order in which they are added
  built      \* history: the tree when populateResolver is done

vars == <<includeVars, phase, todo, tree, top, err, value, defs, built>>

Init ==
  /\ IncludeInit
  /\ phase = "include"
  /\ todo = <<>>
  /\ tree = Root
  /\ top = <<>>
  /\ err = "none"
  /\ value = Nil
  /\ defs = <<>>
  /\ built = Root

sortAttributes(attrs) == SelectSeq(Order, LAMBDA name : name \in DOMAIN attrs)

\* The attributes of one "variables" block.
Attributes(path) ==
  [i \in DOMAIN sortAttributes(fs[path].variables) |->
     LET name == sortAttributes(fs[path].variables)[i]
     IN  [name |-> name, expr |-> fs[path].variables[name]]]

RunInclude ==
  /\ phase = "include"
  /\ IncludeNext
  /\ UNCHANGED <<phase, todo, tree, top, err, value, defs, built>>

\* Include is done; decodeVariablesBlock on the merged body.
decodeVariablesBlock ==
  /\ phase = "include"
  /\ calls = <<>>
  /\ err' = diags
  /\ phase' = IF diags = "none" THEN "populate" ELSE "done"
  /\ todo' = FoldLeft(LAMBDA q, path : q \o Attributes(path), <<>>, bodies)
  /\ defs' = todo'
  /\ UNCHANGED <<includeVars, tree, top, value, built>>

\* populateResolver: one attribute.  resolveAll takes the variables in the
\* order in which they were added first.
Populate ==
  /\ phase = "populate"
  /\ todo # <<>>
  /\ LET attr == Head(todo)
         r == add(tree, <<attr.name>>, attr.expr)
     IN  /\ tree' = r.t
         /\ err' = r.err
         /\ phase' = IF r.err = "none" THEN phase ELSE "done"
         /\ top' = IF attr.name \in ToSet(top) THEN top ELSE Append(top, attr.name)
  /\ todo' = Tail(todo)
  /\ UNCHANGED <<includeVars, value, defs, built>>

Populated ==
  /\ phase = "populate"
  /\ todo = <<>>
  /\ phase' = "resolve"
  /\ built' = tree
  /\ UNCHANGED <<includeVars, todo, tree, top, err, value, defs>>

\* resolveAll: one variable.
ResolveNext ==
  /\ phase = "resolve"
  /\ top # <<>>
  /\ LET r == resolveSingle(tree, <<Head(top)>>)
     IN  /\ tree' = r.t
         /\ err' = r.err
         /\ phase' = IF r.err = "none" THEN phase ELSE "done"
  /\ top' = Tail(top)
  /\ UNCHANGED <<includeVars, todo, value, defs, built>>

\* resolveAllVariables: the context gets the resolved variables.
Finish ==
  /\ phase = "resolve"
  /\ top = <<>>
  /\ value' = toValue(tree, <<>>)
  /\ phase' = "done"
  /\ UNCHANGED <<includeVars, todo, tree, top, err, defs, built>>

Next == RunInclude \/ decodeVariablesBlock \/ Populate \/ Populated \/ ResolveNext \/ Finish

Spec == Init /\ [][Next]_vars

-----------------------------------------------------------------------------
Names == {defs[i].name : i \in DOMAIN defs}

\* The definition that counts: the last one.
Definition(name) ==
  defs[CHOOSE i \in DOMAIN defs : /\ defs[i].name = name
                                  /\ \A j \in DOMAIN defs : defs[j].name = name => j =< i].expr

\* The part of an expression at a path, as far as maps and lists go.
Part(e, path) == FoldLeft(LAMBDA x, key : IF IsCons(x) /\ key \in DOMAIN x.els THEN x.els[key] ELSE NoExpr,
                          e, path)

\* No node is left over from a definition that was overridden.
NoLeftover ==
  \A p \in DOMAIN built \ {<<>>} : built[p].expression = Part(Definition(p[1]), Tail(p))

(***************************************************************************)
(* When loading succeeds, the variables solve their own equations: each    *)
(* has the value its last definition has when "var" is the final object.   *)
(* The resolver never sees that object; it evaluates against partial ones. *)
(* Elements left over from overridden definitions can break this.          *)
(***************************************************************************)
Consistent ==
  phase = "done" /\ err = "none" /\ NoLeftover /\ Names # {} =>
    /\ value.k = "obj"
    /\ DOMAIN value.f = Names
    /\ \A name \in Names : value.f[name] = Value(Definition(name), value)

\* What the node at p needs: for every reference in it the node that is
\* nearest to what the reference names.
Needs(p) ==
  {SubSeq(path, 1, Max({n \in 0..Len(path) : SubSeq(path, 1, n) \in DOMAIN built})) :
     path \in ToSet(Refs(built[p].expression))}

\* The nodes from which a cycle of needs can be reached: as often as there are
\* nodes, those are taken away that need none of the rest.
Doomed ==
  FoldLeft(LAMBDA core, i : {q \in core : Needs(q) \cap core # {}},
           DOMAIN built, [i \in 1..Cardinality(DOMAIN built) |-> i])

\* References to a variable that is not defined.
Undefined == {p \in DOMAIN built : <<>> \in Needs(p)}

\* The value of an expression, element by element, if nothing is circular.
RECURSIVE Denotation(_)
Denotation(e) ==
  LET Named(path) ==
        LET def == Definition(path[1])
            n == Max({i \in 1..Len(path) : Part(def, SubSeq(path, 2, i)) # NoExpr})
        IN  Index(Denotation(Part(def, SubSeq(path, 2, n))), SubSeq(path, n + 1, Len(path)))
      els == [key \in DOMAIN e.els |-> Denotation(e.els[key])]
  IN  CASE e.k = "sum" -> Combined([i \in DOMAIN e.refs |-> Named(e.refs[i])])
        [] IsCons(e) -> IF \E key \in DOMAIN els : els[key] = Bad THEN Bad
                        ELSE IF e.k = "map" THEN Obj(els) ELSE Tup(els)
        [] OTHER -> Value(e, Nil)

(***************************************************************************)
(* "Circular reference detected" is reported only if a variable depends on *)
(* itself, element by element, and success only if none does; a reference  *)
(* to one element of a map that refers to another element is not circular. *)
(* A reference to an undefined variable is never passed over (it panics).  *)
(* An expression is said to have no value only if one really has none.     *)
(***************************************************************************)
OutcomeExact ==
  phase = "done" =>
    /\ err = "circular" => \E name \in Names : <<name>> \in Doomed
    /\ err = "panic" => Undefined # {}
    /\ err = "none" => \A name \in Names : <<name>> \notin Doomed \cup Undefined
    /\ err = "value" /\ NoLeftover /\ (\A name \in Names : <<name>> \notin Doomed) /\ Undefined = {}
         => \E name \in Names : Denotation(Definition(name)) = Bad
=============================================================================
