CONSTANTS
  d1 = d1
  d2 = d2
  None = None
  Device <- MCDevice
  BySilence <- MCBySilence
  Limit = 2
  MaxClockSteps = 1
  MaxFailures = 1
  MaxInbox = 1
SPECIFICATION FairSpec
INVARIANTS
  TypeOK
  ToldTheVerdict
  JudgedByItsTraffic
  WatchedInTime
PROPERTIES
  SilenceIsNoticed
