SPECIFICATION Spec
CONSTANTS
  short = short
  long = long
  beat = beat
  Events <- ThreeEvents
  Interval <- Intervals
  Repeated <- OnlyBeat
  Slack = 3
  MaxTasks = 3
INVARIANTS
  FirstIsCovered
  CancelledIsNotArmed
PROPERTIES
  EventFires
