CONSTANTS
  c1 = c1
  c2 = c2
  d1 = d1
  coord = coord
  basic = basic
  None = None
  Call <- MCCall
  Device <- MCDevice
  Coordinator = coord
  Cluster <- MCCluster
  Basic = basic
  SeqMod = 2
  QueueSize = 2
  MaxOthers = 1
SPECIFICATION FairSpec
CHECK_DEADLOCK FALSE
INVARIANTS
  TypeOK
  NobodyWaitsOnAStoppedRuntime
  AnswersAreOwn
  StoppedOnlyWhenStopped
PROPERTIES
  Answers
  EveryCallSettles
  LedgerDrains
