SPECIFICATION Spec
CONSTANTS
  r1 = r1
  r2 = r2
  r3 = r3
  Requests <- ThreeRequests
  Flaw <- OneUnknown
  Parts = 3
  SendBuffer = 4
PROPERTIES
  FailureIsAnswered
CHECK_DEADLOCK FALSE
