SPECIFICATION FairSpec
CONSTANTS
  Services = {s1, s2}
  SysMons = {m1}
  NoErr = NoErr
  MaxSends = 2
  MaxArgs = 2
  s1 = s1
  s2 = s2
  m1 = m1
INVARIANTS
  FirstError
PROPERTIES
  RunningOrNone
  ImplementsService
CHECK_DEADLOCK FALSE
