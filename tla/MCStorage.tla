----------------------------- MODULE MCStorage -----------------------------
(***************************************************************************)
(* Constants of Storage for TLC.                                           *)
(***************************************************************************)
EXTENDS Storage, TLC

CONSTANTS o1, o2, o3

OpSymmetry == Permutations({o1, o2, o3})
=============================================================================
