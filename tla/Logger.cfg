SPECIFICATION Spec
CONSTANTS
  u1 = u1
  Users <- OneUser
  Victims <- UserOrLoop
  None = None
  MaxCalls <- FewCalls
INVARIANTS
  LinesInOrder
PROPERTIES
  LineIsPrinted
  SignalEndsProcess
CHECK_DEADLOCK FALSE
