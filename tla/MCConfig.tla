------------------------------ MODULE MCConfig ------------------------------
(***************************************************************************)
(* The configurations with which Config is checked.                        *)
(***************************************************************************)
EXTENDS Config

MCMain == <<"main">>
MCOrder == <<"a", "b", "d", "main", "x", "y", "z">>
MCFileNames == ToSet(MCOrder) \cup {"*"}

AB(e, f) == Map([a |-> e, b |-> f])

\* Definitions: values, references to variables, elements and nothing, maps
\* and lists with and without references, also to themselves.
Exprs ==
  {Lit(1), AB(Lit(2), Lit(3)), Ref(<<"x">>), Ref(<<"z">>), Ref(<<"x", "a">>), Ref(<<"z", "b">>),
   Ref(<<"u">>), Plus(<<"y">>, <<"x", "b">>), AB(Lit(4), Ref(<<"x", "a">>)), AB(Ref(<<"z">>), Lit(5)),
   AB(AB(Lit(6), Ref(<<"y">>)), Ref(<<"x", "a", "a">>)), AB(AB(Lit(7), Lit(8)), Ref(<<"z">>)), DynMap([a |-> Ref(<<"z">>)]),
   List(("0" :> Lit(7)) @@ ("1" :> Ref(<<"y", "0">>)))}

Overrides == {<<>>, [x |-> Lit(8)], [x |-> AB(Lit(8), Lit(9))], [x |-> AB(Lit(8), Ref(<<"z">>))]}

\* A main file with three variables and a file that overrides one.
Definitions ==
  {(MCMain :> [include |-> <<<<"a">>>>, variables |-> [x |-> e, y |-> f, z |-> g]])
     @@ (<<"a">> :> [include |-> NoAttr, variables |-> o]) :
     e \in Exprs, f \in Exprs, g \in Exprs, o \in Overrides}

File(patterns) == [include |-> patterns, variables |-> <<>>]

\* Files that include each other, with patterns, directories and gaps, lists
\* that do not decode and patterns that are malformed.
Patterns == {NoAttr, BadAttr, <<>>, <<<<"a">>>>, <<<<"d", "b">>>>, <<<<"*">>>>,
             <<<<"d", "*">>, <<"a">>>>, <<<<"b">>, <<"a">>>>, <<<<"a">>, <<"*[">>>>,
             <<<<"d">>>>, <<<<"d", "*[">>>>}
Files ==
  {(MCMain :> File(p)) @@ (<<"a">> :> File(q)) @@ (<<"d", "b">> :> File(r)) :
     p \in Patterns, q \in Patterns, r \in Patterns}

\* Two files and no directory.
Flat ==
  {(MCMain :> File(p)) @@ (<<"a">> :> File(q)) : p \in Patterns, q \in Patterns}

MCFileSystems == Definitions \cup Files \cup Flat
=============================================================================
