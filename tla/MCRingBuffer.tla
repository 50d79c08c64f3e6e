---------------------------- MODULE MCRingBuffer ----------------------------
(***************************************************************************)
(* RingBuffer for TLC: two producers, two tailers, a ring that wraps and   *)
(* channels that fill within the entries allowed. Producers and tailers    *)
(* are interchangeable, which the run makes use of.                        *)
(***************************************************************************)
EXTENDS RingBuffer, TLC

CONSTANTS p1, p2, s1, s2

MCProducers == {p1, p2}
MCSubscribers == {s1, s2}
Symmetry == Permutations(MCProducers) \cup Permutations(MCSubscribers)
=============================================================================
