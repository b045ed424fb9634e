--------------------------- MODULE MCDeviceTable ---------------------------
(* Two devices and the coordinator, two short addresses beside 0x0000.     *)
EXTENDS DeviceTable, TLC

CONSTANTS d1, d2, coord, n0, n1, n2

MCDevice == {d1, d2, coord}
MCNwk == {n0, n1, n2}

\* What the Ember adapter reports: joins and leaves carry the permanent
\* address.  Its frames never do; another adapter's may.
EmberAlwaysIeee == {"join", "left"}

\* The two devices and the two free addresses are interchangeable.
Symmetry == Permutations({d1, d2}) \cup Permutations({n1, n2})
=============================================================================
