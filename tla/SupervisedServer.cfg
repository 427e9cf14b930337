SPECIFICATION SupervisedSpec
CONSTANTS
  r1 = r1
  r2 = r2
  r3 = r3
  Requests <- ThreeRequests
  Flaw <- OneUnserialised
  Parts = 3
  SendBuffer = 4
  RestartCount = 2
INVARIANTS
  OutputIntact
  OneServer
PROPERTIES
  EndsOneWay
  ServiceComesBack
CHECK_DEADLOCK FALSE
