---------------------------- MODULE MCSupervisor ----------------------------
(***************************************************************************)
(* The instances of Supervisor that TLC checks; the configurations give    *)
(* the constants.  No symmetry: the runs check liveness.                   *)
(***************************************************************************)
EXTENDS Supervisor
=============================================================================
