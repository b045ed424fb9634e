---------------------------- MODULE MCEmberLink ----------------------------
(* Seven callbacks, the second of no interest, over channels with room for *)
(* two: five fill the channels and the pump, and a sixth waits.            *)
EXTENDS EmberLink, TLC

MCUnhandled == {2}
=============================================================================
