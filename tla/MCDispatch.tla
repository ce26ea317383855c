----------------------------- MODULE MCDispatch -----------------------------
(***************************************************************************)
(* Constants of Dispatch for TLC.                                          *)
(***************************************************************************)
EXTENDS Dispatch, TLC

CONSTANTS w1, k1, k2

KeySymmetry == Permutations({k1, k2})
=============================================================================
