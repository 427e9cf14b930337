SPECIFICATION Spec
CONSTANTS
  NumWorkers = 2
  NumConns = 2
  NumFds = 2
  Outcomes <- AllOutcomes
INVARIANTS
  FdEventIsOurs
  NoStrayClose
  NothingOutlivesServer
PROPERTIES
  RequestIsRead
  ShutdownCompletes
