----------------------------- MODULE MCGoHandle -----------------------------
(* A small instance of GoHandle for TLC.                                   *)
EXTENDS GoHandle

CONSTANTS g1, g2, g3

MCProcs == {g1, g2, g3}
=============================================================================
