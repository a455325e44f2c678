SPECIFICATION PipeSpec
CONSTANTS
  Inputs = {i1, i2}
  Outputs = {o1, o2}
  WithContext = {o1}
  Closers = {c1}
  MaxValues = 2
  MaxMerged = 2
  i1 = i1
  i2 = i2
  o1 = o1
  o2 = o2
  c1 = c1
INVARIANTS
  InStep
  ClosedAfterAll
  MergedOnce
PROPERTIES
  CancelClosesOutput
  EndToEnd
CHECK_DEADLOCK FALSE
