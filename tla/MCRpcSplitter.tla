---------------------------- MODULE MCRpcSplitter ----------------------------
(***************************************************************************)
(* The instances of RpcSplitter that TLC checks: what endpoints answer in  *)
(* each; the configurations give the other constants.                      *)
(***************************************************************************)
EXTENDS RpcSplitter

\* With MaxBlocksBehind = 2: two numbers at the limit, and one beyond it.
ResolverValues == {-1, 1, 2}

\* With MaxBlocksBehind = 1: a tag, a block just within reach of it, one
\* beyond.
TagValues == {-1, 0, 3}
=============================================================================
