SPECIFICATION Spec
CONSTANTS
  Second = 2
  secondsInMinute = 2
  minutesInHour = 2
  hoursInDay = 4
  daysInWeek = 3
  MonthDays <- MCMonthDays
  LeapYears = {2}
  Years = 2
  Zones <- MCZones
  Specs <- Full
  Respecs <- Again
  MaxParses = 1
  Froms <- MCFroms
INVARIANTS
  NextIsNext
CHECK_DEADLOCK FALSE
