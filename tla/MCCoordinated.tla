---------------------------- MODULE MCCoordinated ----------------------------
(***************************************************************************)
(* Constants of Coordinated for TLC.                                       *)
(***************************************************************************)
EXTENDS Coordinated

CONSTANTS p0, p1
=============================================================================
