---------------------------- MODULE MCFileStore ----------------------------
(* Two records, two contents.  Four inodes bound the writes whose directory *)
(* fsync failed and that a power loss may undo: with one file in place and *)
(* one being written, two more.                                            *)
EXTENDS FileStore, TLC

CONSTANTS p1, p2, v1, v2, i1, i2, i3, i4, w1

TwoPaths == {p1, p2}
TwoValues == {v1, v2}
Inodes == {i1, i2, i3, i4}
OneWriter == {w1}

Symmetry == Permutations(TwoPaths) \cup Permutations(TwoValues) \cup Permutations(Inodes)
=============================================================================
