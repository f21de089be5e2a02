---------------------------- MODULE MCEmReceive ----------------------------
(* An instance of EmReceive for TLC. *)
EXTENDS EmReceive

CONSTANTS p1, p2
=============================================================================
