------------------------------ MODULE MCLlist ------------------------------
EXTENDS Llist, TLC

CONSTANTS a, b, x, y, z

MCSymmetry == Permutations({a, b}) \union Permutations({x, y, z})
=============================================================================
