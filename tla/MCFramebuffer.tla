--------------------------- MODULE MCFramebuffer ---------------------------
(* Instances of Framebuffer for TLC. *)
EXTENDS Framebuffer, TLC

\* Any two sizes up to 3 x 3: grown, shrunk, and wider but lower.
MCSizes3 == (1 .. 3) \X (1 .. 3)

MCSizes2 == (1 .. 2) \X (1 .. 2)

MCSymmetry == Permutations(Blocks)
=============================================================================
