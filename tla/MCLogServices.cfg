SPECIFICATION Spec
CONSTANTS
  s1 = s1
  s2 = s2
  d = d
  Servers <- MCServers
  Inputs <- MCInputs
  Chains <- MCChains
  Dummy = d
  Requests = {r1}
  Closers = {c1}
  MaxValues = 1
  MaxMerged = 2
INVARIANTS
  CleanClose
PROPERTIES
  ImplementsService
  CancelCloses
  WaitedErrorArrives
CHECK_DEADLOCK FALSE
