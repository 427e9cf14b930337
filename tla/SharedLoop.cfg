SPECIFICATION Spec
CONSTANTS
  Threads <- AllThreads
  MaxCalls = 3
INVARIANTS
  EachClosureAtMostOnce
  ReturnMeansComplete
  NoNullFdEvent
PROPERTIES
  EveryUserCallEnds
  UserCodeResumes
CHECK_DEADLOCK FALSE
