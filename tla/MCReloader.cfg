SPECIFICATION FairSpec
CONSTANTS
  Services = {s1, s2}
  Dummy = Dummy
  Factory = Factory
  NoErr = NoErr
  MaxSends = 2
  s1 = s1
  s2 = s2
INVARIANTS
  LeavesBehind
PROPERTIES
  CancelStops
  FactoryErrorHeard
  ImplementsService
CHECK_DEADLOCK FALSE
