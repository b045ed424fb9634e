CONSTANTS
  MaxCallbacks = 7
  Unhandled <- MCUnhandled
  CallbackRoom = 2
  EventRoom = 2
SPECIFICATION LinkFairSpec
CHECK_DEADLOCK FALSE
INVARIANTS
  InOrder
PROPERTIES
  RuntimeProceeds
  EventsArrive
  PortCloses
