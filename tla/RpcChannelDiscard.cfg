SPECIFICATION Spec
CONSTANTS
  t1 = t1
  t2 = t2
  Cancellers <- OneCanceller
  ImmediateConnect = FALSE
  MaxFrames = 1
INVARIANTS
  ResponseBeforeCloseIsKept
