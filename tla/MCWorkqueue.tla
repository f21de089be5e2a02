---------------------------- MODULE MCWorkqueue ----------------------------
(* Instances of Workqueue for TLC. *)
EXTENDS Workqueue, TLC

MCSymmetry == Permutations(Jobs)
=============================================================================
