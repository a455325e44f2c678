----------------------------- MODULE MCReloader -----------------------------
(***************************************************************************)
(* The instances of Reloader that TLC checks; the configurations give the  *)
(* constants.                                                              *)
(***************************************************************************)
EXTENDS Reloader
=============================================================================
