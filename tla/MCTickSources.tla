---------------------------- MODULE MCTickSources ----------------------------
(***************************************************************************)
(* The instance of TickSources that TLC checks; the configuration gives    *)
(* the constants.                                                          *)
(***************************************************************************)
EXTENDS TickSources
=============================================================================
