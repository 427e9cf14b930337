SPECIFICATION Spec
CONSTANTS
  t1 = t1
  t2 = t2
  Cancellers <- TwoCancellers
  ImmediateConnect = TRUE
  MaxFrames = 2
INVARIANTS
  TypeOK
  ClosureAtMostOnce
  QuietAtClosure
  OutcomeJustified
  NoLostCancel
PROPERTIES
  OutcomeIsFinal
  CallCompletes
  CancelIsNotified
  KeepsPromise
