-------------------------- MODULE MCScheduledTicker --------------------------
(***************************************************************************)
(* A calendar with years of three months of 4, 2 and 4 days (3 in the      *)
(* middle of the second year), weeks of 3 days, days of 4 hours, hours of  *)
(* 2 minutes, minutes of 2 seconds, seconds of 2 units.  East of UTC,      *)
(* summer begins on the third day of the first year at 1:00 and ends on    *)
(* the eighth at 2:00.  West of it, it begins with the second month, at    *)
(* midnight, and ends on the eighth day at 1:00, which is midnight again.  *)
(***************************************************************************)
EXTENDS ScheduledTicker

MCMonthDays == <<4, 2, 4>>
East == [ahead |-> Hour, forward |-> 2 * Day + Hour, back |-> 7 * Day + Hour]
West == [ahead |-> -Hour, forward |-> 4 * Day, back |-> 7 * Day]
MCZones == {East, West}

Star == {<<>>}

\* All six parts, each with an asterisk, one number or several.
Full ==
  {<<s, mi, h, d, mo, w>> :
     s \in Star \cup {<<1>>}, mi \in Star \cup {<<0>>},
     h \in Star \cup {<<0>>, <<3>>, <<2, 1>>},
     d \in Star \cup {<<1>>, <<4, 1>>, <<3, 2>>},
     mo \in Star \cup {<<2>>, <<3, 1>>},
     w \in Star \cup {<<1>>}}

\* Omitted parts, every value of a field, repeated values, values out of range.
Odd ==
  {<<>>, <<<<>>>>, <<<<1>>, <<0>>>>, <<<<0, 1>>, <<>>, <<3, 2, 1, 0, 1>>>>, <<<<1, 1>>>>,
   <<<<0>>, <<2>>, <<1>>>>, <<<<1>>, <<0, 1>>, <<4>>>>, <<<<>>, <<>>, <<>>, <<0>>>>,
   <<<<>>, <<>>, <<>>, <<2>>, <<4>>, <<1>>>>, <<<<>>, <<>>, <<>>, <<>>, <<>>, <<>>, <<>>>>}

Again ==
  {<<<<1>>, <<0>>>>, <<<<1>>, <<0, 1>>, <<4>>>>, <<<<>>, <<>>, <<>>, <<2>>, <<3>>, <<1>>>>}

MCSpecs == Full \cup Odd

\* At the ends of days and of months, and the changes of the clock.
MCFroms ==
  {n * Day - 1 : n \in 1..10}
    \cup UNION {{z.forward - 1, z.back - 1, z.back + Hour} : z \in MCZones}
    \cup {Hour + Minute + 1, 5 * Day, 5 * Day + 2 * Hour + Minute}
=============================================================================
