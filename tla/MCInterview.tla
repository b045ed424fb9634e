---------------------------- MODULE MCInterview ----------------------------
(* One device with up to two endpoints, two interviews of it that overlap, *)
(* and a request channel with room for one.                                *)
EXTENDS Interview, TLC

CONSTANTS d1, e1, e2, j1, j2

MCDevice == {d1}
MCEndpoint == {e1, e2}
MCJob == {j1, j2}
=============================================================================
