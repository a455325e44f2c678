------------------------------ MODULE Calendar ------------------------------
(***************************************************************************)
(* What timeutil/scheduler.go uses of Go's package time: instants, their   *)
(* local date and clock, and time.Date with its normalisation.  The sizes  *)
(* are parameters, so that a calendar with short days and months can be    *)
(* checked; time.Time's own values are given as examples.  Instants are    *)
(* counted from a midnight of the zone's standard time.  A zone has one    *)
(* summer, which may begin or end at midnight.                             *)
(***************************************************************************)
EXTENDS Integers, Sequences, FiniteSets, FiniteSetsExt

CONSTANTS
  Second,            \* units of an instant per second (10^9)
  secondsInMinute,   \* 60
  minutesInHour,     \* 60
  hoursInDay,        \* 24
  daysInWeek,        \* 7
  MonthDays,         \* <<31, 28, 31, ...>>
  LeapYears,         \* years whose second month has a day more
  Years,             \* bound: the years 1..Years are searched for a tick
  Zones              \* records: "ahead" of UTC, standard time, negative west of it;
                     \* the instants "forward" and "back" at which summer begins and ends

Minute == secondsInMinute * Second
Hour == minutesInHour * Minute
Day == hoursInDay * Hour
monthsInYear == Len(MonthDays)
maxDaysInMonth == Max({MonthDays[m] : m \in 1..monthsInYear})

DaysIn(y, m) == MonthDays[m] + IF m = 2 /\ y \in LeapYears THEN 1 ELSE 0

\* The years with a table: one more than are searched, since a step may land in it.
AllMonths == (1..(Years + 2)) \X (1..monthsInYear)

Length(c) == DaysIn(c[1], c[2])

\* Days before the first of month m of year y.
DaysBefore == [ym \in AllMonths |->
  MapThenSumSet(Length, {c \in AllMonths : c[1] < ym[1] \/ (c[1] = ym[1] /\ c[2] < ym[2])})]

\* The instants that are looked at, and the first one beyond them.
Limit == DaysBefore[<<Years + 1, 1>>] * Day
Instants == 0..(DaysBefore[<<Years + 2, 1>>] * Day - 1)

Offset(z, t) == IF z.forward <= t /\ t < z.back THEN Hour ELSE 0

LocalFields(z, t) ==
  LET w == t + Offset(z, t)
      n == w \div Day
      c == CHOOSE c \in AllMonths : /\ DaysBefore[c] <= n
                                    /\ n < DaysBefore[c] + Length(c)
  IN  [year |-> c[1], month |-> c[2], day |-> n - DaysBefore[c] + 1,
       weekday |-> n % daysInWeek,
       hour |-> (w \div Hour) % hoursInDay,
       minute |-> (w \div Minute) % minutesInHour,
       second |-> (w \div Second) % secondsInMinute,
       nano |-> w % Second]

\* at.Date(), at.Clock(), at.Weekday() and at.Nanosecond().
Local == [z \in Zones |-> [t \in Instants |-> LocalFields(z, t)]]

(***************************************************************************)
(* time.Date(y, m, d, 0, 0, 0, 0, z): m may be a month past the year, d    *)
(* a day past the month.  The offset is looked up as if the local time w   *)
(* were UTC, then again for the instant that gives.  If the clock skips w, *)
(* the result is after it in a zone ahead of UTC, and before it, on the    *)
(* day before, in a zone behind.                                           *)
(***************************************************************************)
Date(z, y, m, d) ==
  LET c == IF m > monthsInYear THEN <<y + 1, m - monthsInYear>> ELSE <<y, m>>
      w == (DaysBefore[c] + d - 1) * Day
  IN  w - Offset(z, w - Offset(z, w + z.ahead))
=============================================================================
