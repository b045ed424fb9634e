CONSTANTS
  d1 = d1
  d2 = d2
  coord = coord
  n0 = n0
  n1 = n1
  n2 = n2
  None = None
  Device <- MCDevice
  Nwk <- MCNwk
  Coordinator = coord
  CoordinatorNwk = n0
  AlwaysIeee <- EmberAlwaysIeee
  MaxInbox = 2
SPECIFICATION Spec
SYMMETRY Symmetry
INVARIANTS
  OwnAddressResolves
