CONSTANTS
  MaxCallbacks = 7
  Unhandled <- MCUnhandled
  CallbackRoom = 2
  EventRoom = 2
SPECIFICATION LinkSpec
CHECK_DEADLOCK FALSE
INVARIANTS
  NeverStuck
