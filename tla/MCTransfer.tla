----------------------------- MODULE MCTransfer -----------------------------
(***************************************************************************)
(* Constants of Transfer for TLC.                                          *)
(***************************************************************************)
EXTENDS Transfer

CONSTANTS t1, t2
=============================================================================
