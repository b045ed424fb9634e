----------------------------- MODULE MCRequests -----------------------------
(* Two calls that compete for the two ledgers; a device and the coordinator. *)
EXTENDS Requests

CONSTANTS c1, c2, d1, coord, basic

MCCall == {c1, c2}
MCDevice == {d1, coord}
MCCluster == {basic}
=============================================================================
