------------------------------ MODULE MCUpdate ------------------------------
(***************************************************************************)
(* Constants of Update for TLC: each package has its own stamp, or all     *)
(* packages share one, as distinct payloads may (activation.rs:180).       *)
(***************************************************************************)
EXTENDS Update, TLC

CONSTANTS p0, p1, u1, u2, k1, k2

StampOf(p) == p
SharedStamp(p) == "stamp"
UpdaterSymmetry == Permutations({u1, u2})
=============================================================================
