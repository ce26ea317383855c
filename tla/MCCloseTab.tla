---------------------------- MODULE MCCloseTab ----------------------------
(***************************************************************************)
(* Constants of CloseTab for TLC.                                          *)
(***************************************************************************)
EXTENDS CloseTab

CONSTANTS server, tool
=============================================================================
