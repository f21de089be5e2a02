--------------------------- MODULE DescriptorRing ---------------------------
(***************************************************************************)
(* Indices of a ring of descriptors, as the receive and the transmit       *)
(* functions of the em driver step through it.                             *)
(***************************************************************************)
EXTENDS Naturals, Sequences

CONSTANT RingSize   \* nb_rx_desc, nb_tx_desc

Slots == 0 .. RingSize - 1

\* Broken variants of definitions have names that begin with Bad.  No
\* specification uses them; they show that the properties can fail.
BadOnward(i, k) == IF i + k <= RingSize THEN i + k ELSE i + k - RingSize

\* The place k further on: an index that reaches the end starts again at 0.
Onward(i, k) == IF i + k < RingSize THEN i + k ELSE i + k - RingSize

\* How far it is from i to j.
Way(i, j) == IF i <= j THEN j - i ELSE j + RingSize - i

\* What f holds from i up to, but not including, j.
Between(f, i, j) == [k \in 1 .. Way(i, j) |-> f[Onward(i, k - 1)]]
=============================================================================
