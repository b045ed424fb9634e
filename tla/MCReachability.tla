--------------------------- MODULE MCReachability ---------------------------
(* A device judged by its silence, and one judged, and probed, at will.    *)
EXTENDS Reachability, TLC

CONSTANTS d1, d2

MCDevice == {d1, d2}
MCBySilence == {d1}
=============================================================================
