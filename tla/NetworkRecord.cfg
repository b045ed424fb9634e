CONSTANTS
  a1 = a1
  a2 = a2
  n1 = n1
  n2 = n2
  None = None
  Coord <- MCCoord
  Network <- MCNetwork
  Margin = 2
  MaxCounter = 12
  PerTick = 3
SPECIFICATION Spec
SYMMETRY Symmetry
INVARIANTS
  TypeOK
  PersistedIsOnDisk
  LagBounded
PROPERTIES
  StoredCounterNeverFalls
  RecordKeepsItsCoordinator
