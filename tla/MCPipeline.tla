----------------------------- MODULE MCPipeline -----------------------------
(***************************************************************************)
(* The instances of Pipeline that TLC checks; the configurations give the  *)
(* constants.                                                              *)
(***************************************************************************)
EXTENDS Pipeline
=============================================================================
