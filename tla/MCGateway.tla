----------------------------- MODULE MCGateway -----------------------------
(* One device with two readings, one filter of each kind, one message.     *)
EXTENDS Gateway

CONSTANTS d1, a, b, q1

MCDevice == {d1}
MCCap == {a, b}
MCValue == {0, 1}
MCChanges == {[x \in {a} |-> 0], [x \in {a} |-> 1], [x \in {b} |-> 1]}
MCFilters == <<"set", "request">>
MCRequest == {q1}
=============================================================================
