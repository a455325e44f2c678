SPECIFICATION FairSpec
CONSTANTS
  Second = 2
  secondsInMinute = 2
  minutesInHour = 2
  hoursInDay = 4
  daysInWeek = 3
  MonthDays <- MCMonthDays
  LeapYears = {2}
  Years = 2
  Zones <- MCZones
  Specs <- MCSpecs
  Respecs <- Again
  MaxParses = 2
  Froms <- MCFroms
INVARIANTS
  SpecMeansText
  RoundTrip
  NothingSkipped
PROPERTIES
  ReturnsUnlessStuck
CHECK_DEADLOCK FALSE
