---------------------------- MODULE ScheduleText ----------------------------
(***************************************************************************)
(* The texts of a ScheduledTicker of timeutil/scheduler.go: parsing of a   *)
(* schedule, also into a ticker that already has one, and String.          *)
(*                                                                         *)
(* A field of a ticker is sorted and without duplicates, hence a set; the  *)
(* empty set is the nil slice, which means every value.  The text of a     *)
(* schedule is a sequence of parts, a part a sequence of numbers; <<>> is  *)
(* an asterisk.  Text that is no number of the field is a number outside   *)
(* its range.                                                              *)
(***************************************************************************)
EXTENDS Calendar, SequencesExt

CONSTANTS
  Specs,      \* texts parsed into a new ticker
  Respecs,    \* texts parsed into a ticker that was parsed into before
  MaxParses   \* bound on the number of texts parsed

VARIABLES
  spec,     \* seconds, minutes, hours, days, months, weekdays
  text,     \* the texts parsed so far
  result    \* of the last one

parsed == <<spec, text, result>>

Fields == 1..6

Valid == <<0..(secondsInMinute - 1), 0..(minutesInHour - 1), 0..(hoursInDay - 1),
           1..maxDaysInMonth, 1..monthsInYear, 0..(daysInWeek - 1)>>

ASSUME SizeAssumption ==
  /\ \A n \in {Second, daysInWeek, maxDaysInMonth} : n \in Nat \ {0}
  /\ \A n \in {secondsInMinute, minutesInHour, hoursInDay, monthsInYear} : n \in Nat \ {0, 1}

ASSUME TextAssumption == Specs \cup Respecs \subseteq Seq(Seq(Int))

Blank == [f \in Fields |-> {}]

-----------------------------------------------------------------------------
\* parsePart fails if a number of the part is not of the field.
Fails(f, part) == ~(ToSet(part) \subseteq Valid[f])

\* parsePart: trim, split, convert, sort, remove duplicates.
parsePart(f, part) == IF Fails(f, part) THEN {} ELSE ToSet(part)

ParseFails(raw) == Len(raw) \notin Fields \/ \E f \in 1..Len(raw) : Fails(f, raw[f])

\* Mutant: the numbers are counted before duplicates are removed.
parseCountsDuplicates(s, raw) ==
  IF ParseFails(raw) THEN s
  ELSE [f \in Fields |-> IF f > Len(raw) THEN s[f]
                         ELSE IF Len(raw[f]) = Cardinality(Valid[f]) THEN {}
                         ELSE ToSet(raw[f])]

\* The parts are parsed from left to right into the fields of s up to the
\* first that fails, whose field becomes nil.  Fields without a part are left
\* as they are.  Without an error, a field that has all values becomes nil.
parse(s, raw) ==
  IF Len(raw) \notin Fields THEN s
  ELSE LET last == Min({f \in 1..Len(raw) : Fails(f, raw[f])} \cup {Len(raw)})
           t == [f \in Fields |-> IF f <= last THEN parsePart(f, raw[f]) ELSE s[f]]
       IN  IF ParseFails(raw) THEN t
           ELSE [f \in Fields |-> IF Cardinality(t[f]) = Cardinality(Valid[f])
                                  THEN {} ELSE t[f]]

\* writeNums, writeMonths and writeWeekdays: the numbers in order, "*" for none.
write(list) == CHOOSE q \in [1..Cardinality(list) -> list] :
  ToSet(q) = list /\ \A i, j \in DOMAIN q : i < j => q[i] < q[j]

\* Mutant: trailing asterisks are left out, as the format allows.
StringShort(s) ==
  LET n == Max({f \in Fields : s[f] # {}} \cup {1})
  IN  [f \in 1..n |-> write(s[f])]

\* String, MarshalText and MarshalJSON: always six parts.
String(s) == [f \in Fields |-> write(s[f])]

-----------------------------------------------------------------------------
\* NewScheduledTicker for the first text, UnmarshalText or UnmarshalJSON.
Unmarshal(raw) ==
  /\ Len(text) < MaxParses
  /\ text' = Append(text, raw)
  /\ spec' = parse(spec, raw)
  /\ result' = IF ParseFails(raw) THEN "err" ELSE "ok"

ParseInit ==
  /\ spec = Blank
  /\ text = <<>>
  /\ result = "none"

ParseNext == \E raw \in IF text = <<>> THEN Specs ELSE Respecs : Unmarshal(raw)

ParseSpec == ParseInit /\ [][ParseNext]_parsed

-----------------------------------------------------------------------------
(***************************************************************************)
(* What the text of a schedule says a field may be: "trailing asterisks    *)
(* can be omitted" (scheduler.go:266).  After a parse without error the    *)
(* ticker ticks at these values.  For a ticker that was parsed into before *)
(* this holds only of the parts that are there: an omitted part leaves the *)
(* old field.                                                              *)
(***************************************************************************)
Said(raw, f) == IF f > Len(raw) \/ raw[f] = <<>> THEN Valid[f] ELSE ToSet(raw[f])

SpecMeansText ==
  result = "ok" =>
    \A f \in Fields :
      f <= Len(Last(text)) \/ Len(text) = 1 =>
        Said(Last(text), f) = IF spec[f] = {} THEN Valid[f] ELSE spec[f]

(***************************************************************************)
(* What String and the Marshal methods write is parsed to the same         *)
(* schedule, whatever ticker it is parsed into.                            *)
(***************************************************************************)
RoundTrip ==
  result = "ok" =>
    \A raw \in Respecs : parse(parse(Blank, raw), String(spec)) = spec
=============================================================================
