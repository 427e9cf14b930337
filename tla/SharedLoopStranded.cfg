SPECIFICATION Spec
CONSTANTS
  Threads <- IoThread
  MaxCalls = 2
PROPERTIES
  EveryCallEnds
CHECK_DEADLOCK FALSE
