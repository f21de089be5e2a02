------------------------------- MODULE MCWire -------------------------------
EXTENDS Wire

\* Two of the eight values a rand() of three bits returns.
MCRandom == {3, 6}
=============================================================================
