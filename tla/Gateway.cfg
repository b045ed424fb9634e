CONSTANTS
  d1 = d1
  a = a
  b = b
  q1 = q1
  None = None
  Device <- MCDevice
  Cap <- MCCap
  Value <- MCValue
  Changes <- MCChanges
  Filters <- MCFilters
  Request <- MCRequest
  FeedSize = 2
  QueueSize = 3
  MaxEvents = 3
  MaxDrops = 1
SPECIFICATION FairSpec
CHECK_DEADLOCK FALSE
INVARIANTS
  PayloadsAreComplete
PROPERTIES
  GoneIsShown
  StopEndsIt
  RequestsAreAnswered
