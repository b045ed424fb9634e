-------------------------- MODULE MCNetworkRecord --------------------------
(* Two sticks, two networks, a margin of two frames.                       *)
EXTENDS NetworkRecord, TLC

CONSTANTS a1, a2, n1, n2

MCCoord == {a1, a2}
MCNetwork == {n1, n2}

Symmetry == Permutations(MCCoord) \cup Permutations(MCNetwork)
=============================================================================
