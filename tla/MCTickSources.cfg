SPECIFICATION Spec
CONSTANTS
  Callers = {p1, p2}
  Starts = 2
  HalfSeconds = {1, 7}
  MaxSleep = 2
  Durations = 2
  MaxLag = 1
  MaxAdjust = 1
  p1 = p1
  p2 = p2
PROPERTIES
  SenderKeepsContext
  NotEarly
  CancelEnds
  TicksFlow
CHECK_DEADLOCK FALSE
