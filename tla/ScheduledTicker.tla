--------------------------- MODULE ScheduledTicker ---------------------------
(***************************************************************************)
(* The ScheduledTicker of timeutil/scheduler.go: a schedule is parsed, and *)
(* Next is called, with one action for each branch of its loop.            *)
(***************************************************************************)
EXTENDS ScheduleText

CONSTANT Froms   \* arguments of Next

VARIABLES
  pc,       \* of Next
  from,     \* its argument
  loc,      \* the Location of the argument
  at        \* its local variable of this name

vars == <<spec, text, result, pc, from, loc, at>>

seconds == spec[1]
minutes == spec[2]
hours == spec[3]
days == spec[4]
months == spec[5]
weekdays == spec[6]

ASSUME CalendarAssumption == Froms \subseteq 0..(Limit - 1)

TypeOK ==
  /\ spec \in [Fields -> SUBSET Nat] /\ \A f \in Fields : spec[f] \subseteq Valid[f]
  /\ text \in Seq(Specs \cup Respecs) /\ Len(text) <= MaxParses
  /\ result \in {"none", "ok", "err"}
  /\ pc \in {"idle", "loop", "done"}
  /\ from \in Instants /\ at \in Instants /\ loc \in Zones

-----------------------------------------------------------------------------
\* A text is parsed while Next is not running.
Decode ==
  /\ pc = "idle"
  /\ ParseNext
  /\ UNCHANGED <<pc, from, loc, at>>

-----------------------------------------------------------------------------
Here == Local[loc]

matchSecond(t) == seconds = {} \/ Here[t].second \in seconds
matchMinute(t) == minutes = {} \/ Here[t].minute \in minutes
matchHour(t) == hours = {} \/ Here[t].hour \in hours
matchDay(t) == days = {} \/ Here[t].day \in days
matchMonth(t) == months = {} \/ Here[t].month \in months
matchWeekday(t) == weekdays = {} \/ Here[t].weekday \in weekdays

\* The first number of list after v, or of the next round of length n.  An
\* empty list has every number.
Following(list, v, n) ==
  LET later == {x \in list : x > v}
  IN  CASE list = {} -> v + 1
        [] later # {} -> Min(later)
        [] OTHER -> n + Min(list)

nextMonth(t) ==
  LET l == Here[t]
      m == Following(months, l.month, monthsInYear)
  IN  IF months = {} \/ m > monthsInYear
      THEN Date(loc, l.year + 1, IF months = {} THEN 1 ELSE Min(months), 1)
      ELSE Date(loc, l.year, m, 1)

\* Mutant: v >= d in the loop over the days.
nextDayOrSame(t) ==
  LET l == Here[t]
  IN  IF days # {} /\ \A d \in days : d < l.day
      THEN Date(loc, l.year, l.month + 1, Min(days))
      ELSE Date(loc, l.year, l.month, Following(days, IF days = {} THEN l.day ELSE l.day - 1, 0))

nextDay(t) ==
  LET l == Here[t]
  IN  IF days # {} /\ \A d \in days : d <= l.day
      THEN Date(loc, l.year, l.month + 1, Min(days))
      ELSE Date(loc, l.year, l.month, Following(days, l.day, 0))

\* Since the start of the hour, the minute and the second.
HourOff(t) == Here[t].minute * Minute + Here[t].second * Second + Here[t].nano
MinuteOff(t) == Here[t].second * Second + Here[t].nano

\* Mutant: the time since the start of the hour is not taken off.
nextHourWithoutOff(t) ==
  LET h == Here[t].hour
  IN  t + (Following(hours, h, hoursInDay) - h) * Hour

nextHour(t) ==
  LET h == Here[t].hour
  IN  t + (Following(hours, h, hoursInDay) - h) * Hour - HourOff(t)

nextMinute(t) ==
  LET m == Here[t].minute
  IN  t + (Following(minutes, m, minutesInHour) - m) * Minute - MinuteOff(t)

nextSecond(t) ==
  LET s == Here[t].second
  IN  t + (Following(seconds, s, secondsInMinute) - s) * Second - Here[t].nano

\* Next(at) is called.
Call(t) ==
  /\ pc = "idle"
  /\ pc' = "loop"
  /\ from' = t
  /\ at' = nextSecond(t)
  /\ UNCHANGED <<spec, text, result, loc>>

\* The loop has no bound of its own; the model ends its search at Limit.
Looping == pc = "loop" /\ at < Limit

Advance(t) ==
  /\ at' = t
  /\ UNCHANGED <<spec, text, result, pc, from, loc>>

MatchesDate(t) == matchMonth(t) /\ matchWeekday(t) /\ matchDay(t)

MonthStep == Looping /\ ~matchMonth(at) /\ Advance(nextMonth(at))

DayStep == Looping /\ matchMonth(at) /\ ~MatchesDate(at) /\ Advance(nextDay(at))

HourStep == Looping /\ MatchesDate(at) /\ ~matchHour(at) /\ Advance(nextHour(at))

MinuteStep ==
  /\ Looping /\ MatchesDate(at) /\ matchHour(at) /\ ~matchMinute(at)
  /\ Advance(nextMinute(at))

SecondStep ==
  /\ Looping /\ MatchesDate(at) /\ matchHour(at) /\ matchMinute(at) /\ ~matchSecond(at)
  /\ Advance(nextSecond(at))

Return ==
  /\ Looping /\ MatchesDate(at) /\ matchHour(at) /\ matchMinute(at) /\ matchSecond(at)
  /\ pc' = "done"
  /\ UNCHANGED <<spec, text, result, from, loc, at>>

-----------------------------------------------------------------------------
Init ==
  /\ ParseInit
  /\ pc = "idle"
  /\ from = 0
  /\ loc \in Zones
  /\ at = 0

Turn == MonthStep \/ DayStep \/ HourStep \/ MinuteStep \/ SecondStep \/ Return

Next ==
  \/ Decode
  \/ \E t \in Froms : Call(t)
  \/ Turn

Spec == Init /\ [][Next]_vars

\* The goroutine that runs Next is scheduled.
FairSpec == Spec /\ WF_vars(Turn)

-----------------------------------------------------------------------------
\* The reference definition: the ticks of the schedule.
Ticks(t) ==
  /\ Here[t].nano = 0
  /\ matchMonth(t) /\ matchDay(t) /\ matchWeekday(t)
  /\ matchHour(t) /\ matchMinute(t) /\ matchSecond(t)

\* time.Date moves a listed day that the month of nextDay's argument does not
\* have into the next month, past the first days of it.
Overrun(t) ==
  LET l == Here[t]
      n == IF l.month = 1 THEN DaysIn(l.year - 1, monthsInYear)
                          ELSE DaysIn(l.year, l.month - 1)
  IN  \E d \in days : d > n /\ l.day < d - n

\* nextHour counts hours of the clock as hours of time: if summer begins in
\* between, it goes past the ticks of the hour it looks for.
SummerBegins(t) ==
  /\ from < loc.forward /\ loc.forward <= t /\ t < loc.forward + Day
  /\ \A u \in loc.forward..t : Ticks(u) => t - u < Hour

(***************************************************************************)
(* "Next returns the next tick time after the given time"                  *)
(* (scheduler.go:51): no tick lies between the argument and the result.    *)
(* There are two exceptions, and no others: the days after a month that is *)
(* too short for a listed day, and the day on which summer time begins.    *)
(* If the search runs into the end of the calendar, nothing was there.     *)
(***************************************************************************)
NothingSkipped ==
  pc = "done" \/ (pc = "loop" /\ at >= Limit) =>
    \A t \in (from + 1)..(at - 1) : Ticks(t) => Overrun(t) \/ SummerBegins(t)

(***************************************************************************)
(* The same without exceptions: what the comments promise.                 *)
(***************************************************************************)
NextIsNext ==
  pc = "done" => \A t \in (from + 1)..(at - 1) : ~Ticks(t)

(***************************************************************************)
(* Next returns if there is a tick ahead: its loop, which has no bound,    *)
(* never stays where it is or goes back to where it was.                   *)
(***************************************************************************)
NextReturns == (pc = "loop") ~> (pc = "done" \/ at >= Limit)

\* In the last hour of a day that does not match, in a zone behind UTC whose
\* clock skips the midnight that follows: time.Date leads back to that hour.
Stuck ==
  /\ loc.ahead < 0
  /\ (at + Hour) % Day = 0
  /\ at + Hour = loc.forward
  /\ ~MatchesDate(at)

(***************************************************************************)
(* What NextReturns says, but for a midnight that the clock skips in a     *)
(* zone behind UTC: only there, and only before a day that does not match, *)
(* Next does not return.                                                   *)
(***************************************************************************)
ReturnsUnlessStuck == (pc = "loop") ~> (pc = "done" \/ at >= Limit \/ Stuck)
=============================================================================
