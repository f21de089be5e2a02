----------------------------- MODULE MCDisplay -----------------------------
(* Instances of Display for TLC. *)
EXTENDS Display

CONSTANTS w1, w2, s1

MCSizes == {<<1, 2>>, <<2, 1>>, <<2, 2>>}

MCTwoWindows == <<w1, s1, w2>>
=============================================================================
