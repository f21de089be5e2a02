---------------------------- MODULE MCEmTransmit ----------------------------
(* An instance of EmTransmit for TLC: a ring of six and bursts of three. *)
EXTENDS EmTransmit
=============================================================================
