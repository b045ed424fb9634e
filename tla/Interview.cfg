CONSTANTS
  d1 = d1
  e1 = e1
  e2 = e2
  j1 = j1
  j2 = j2
  None = None
  Device <- MCDevice
  Endpoint <- MCEndpoint
  Job <- MCJob
  QueueSize = 1
SPECIFICATION FairSpec
INVARIANT
  TypeOK
PROPERTIES
  EndpointsComeWhole
  MarksAreEnded
  InterviewSettles
