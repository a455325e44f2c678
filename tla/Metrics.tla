------------------------------ MODULE Metrics ------------------------------
(***************************************************************************)
(* The logger of log/metrics/log.go: every log call that matches a metric  *)
(* adds a point to the window of the metric's name, and the HTTP handler   *)
(* reports one number and one time per name.  A window is an array with a  *)
(* slot per minute, used in a ring.  collect and handle hold one mutex, so *)
(* each is one step; the clock moves between them, and between the two     *)
(* readings of the clock that collect takes for one point.  The logger is  *)
(* one in a chain (log/chain/log.go); the others call back functions of    *)
(* the application (log/callback/log.go), write with Logrus (log/logrus)   *)
(* or do nothing (log/null).                                               *)
(***************************************************************************)
EXTENDS Integers, Sequences, FiniteSets, SequencesExt

CONSTANTS
  Configs,     \* the possible values of cfg.Metrics
  Calls,       \* the log calls of the application: level, msg and fields
  Chain,       \* the chained loggers: typ ("metrics", "callback", "logrus", or "entry"
               \* for Logrus without access to its level, "null") and level
  NaN,         \* the float64 that is not a number
  Minute,      \* how many units of time a minute has
  Begin,       \* the time at which the program starts; time.Time{} is 0
  MaxTime,     \* bound: the last moment
  MaxCalls,    \* bound: how many log calls are made
  MaxDelay     \* bound: how far the clock moves within collect

\* The metrics logger in the chain.
Self == CHOOSE i \in DOMAIN Chain : Chain[i].typ = "metrics"

ASSUME ChainAssumption ==
  /\ DOMAIN Chain \subseteq Nat
  /\ \E i \in DOMAIN Chain : Chain[i].typ = "metrics"

ASSUME TimeAssumption ==
  /\ Minute \in Nat \ {0}
  /\ Begin \in Nat
  /\ MaxDelay \in Nat
  /\ MaxCalls \in Nat
  /\ \A metrics \in Configs : metrics \in Seq({metrics[i] : i \in DOMAIN metrics})
  /\ \A metrics \in Configs : \A i \in DOMAIN metrics :
       /\ metrics[i].window \in Nat
       /\ metrics[i].window * Minute < Begin
       /\ Cardinality(metrics[i].fields) <= 1

VARIABLES
  metrics,       \* c.metrics
  metricPoints,  \* c.metricPoints
  now,           \* the clock
  calls,         \* how many log calls were made
  panicked,      \* whether the last log call panicked
  heard,         \* how many entries each logger has written or called back
  points,        \* history: per name, the points that were added
  broken         \* history: how many calls, Panic apart, collect made panic

vars == <<metrics, metricPoints, now, calls, panicked, heard, points, broken>>

-----------------------------------------------------------------------------
(***************************************************************************)
(* Fields of a log entry, as reflection sees them: numbers, texts, maps,   *)
(* slices, and the invalid reflect.Value.                                  *)
(***************************************************************************)
Num(n) == [n |-> n, kind |-> "num"]
Text(s) == [s |-> s, kind |-> "text"]
MapOf(f) == [kind |-> "map", els |-> f]
Slice(q) == [kind |-> "slice", els |-> q]
Invalid == [kind |-> "invalid"]
Panics == [kind |-> "panics"]

\* WithField, WithFields, WithError, WithAdvice: a copy with more fields.
WithFields(f, g) == [k \in DOMAIN f \cup DOMAIN g |-> IF k \in DOMAIN g THEN g[k] ELSE f[k]]

\* strconv.Atoi and strconv.ParseFloat on the texts that occur.
Atoi == [s \in {"0", "1"} |-> IF s = "0" THEN 0 ELSE 1]
ParseFloat == [s \in {"2", "NaN"} |-> IF s = "2" THEN 2 ELSE NaN]

\* One element of the path; value.Index panics behind the end of a slice.
Step(v, elem) ==
  CASE v.kind = "map" /\ elem \in DOMAIN v.els -> v.els[elem]
    [] v.kind = "slice" /\ elem \in DOMAIN Atoi ->
         IF Atoi[elem] < Len(v.els) THEN v.els[Atoi[elem] + 1] ELSE Panics
    [] v.kind = "panics" -> v
    [] OTHER -> Invalid

byPath(fields, path) == FoldLeft(Step, fields, path)

toFloat(v) ==
  CASE v.kind = "num" -> [ok |-> TRUE, n |-> v.n]
    [] v.kind = "text" /\ v.s \in DOMAIN ParseFloat -> [ok |-> TRUE, n |-> ParseFloat[v.s]]
    [] OTHER -> [ok |-> FALSE, n |-> 0]

\* Whatever is valid has a text; maps and slices have their JSON.
toString(v) ==
  CASE v.kind = "num" -> [ok |-> TRUE, s |-> ToString(v.n)]
    [] v.kind = "text" -> [ok |-> TRUE, s |-> v.s]
    [] v.kind \in {"map", "slice"} -> [ok |-> TRUE, s |-> "json"]
    [] OTHER -> [ok |-> FALSE, s |-> ""]

\* metric.fields: at most one path, and the texts its regexp matches (with
\* more of them the order of Go's map decides which one is looked at first).
match(metric, msg, fields) ==
  /\ \A m \in metric.fields :
       LET field == toString(byPath(fields, m.path))
       IN  field.ok /\ field.s \in m.texts
  /\ msg \in metric.msgs

(***************************************************************************)
(* A parsed name is a sequence of literals and variables; a variable that  *)
(* no field has is replaced by its default, or makes the name invalid.     *)
(***************************************************************************)
Resolve(part, fields) ==
  LET v == toString(byPath(fields, part.path))
  IN  CASE part.typ = "lit" -> [ok |-> TRUE, s |-> part.text]
        [] part.typ = "var" /\ v.ok -> v
        [] OTHER -> [ok |-> part.hasDefault, s |-> part.text]

replaceVars(name, fields) ==
  LET texts == [i \in DOMAIN name |-> Resolve(name[i], fields)]
  IN  [ok |-> \A i \in DOMAIN name : texts[i].ok,
       mk |-> [i \in DOMAIN name |-> texts[i].s]]

-----------------------------------------------------------------------------
\* Aggregate.aggregate on float64: no comparison with NaN holds.
aggregate(o, a, b) ==
  CASE o = "Sum" /\ NaN \in {a, b} -> NaN
    [] o = "Sum" /\ NaN \notin {a, b} -> a + b
    [] o = "Ignore" -> a
    [] o = "Max" /\ NaN \notin {a, b} -> IF a > b THEN a ELSE b
    [] o = "Min" /\ NaN \notin {a, b} -> IF a < b THEN a ELSE b
    [] OTHER -> b

Zero == [value |-> 0, time |-> 0]

\* The slot of a time: Unix() / 60 % windowLengthMin.
Slot(time, window) == ((time \div Minute) % window) + 1

\* The beginning of the window that ends at a time.
From(t, window) == t - window * Minute

\* Mutant: the window is one minute, whatever its length.
StaleAfterMinute(time, t, window) == time < t - Minute

\* Mutant: what is in a slot stays.
StaleNever(time, t, window) == FALSE

\* time.Before(t) with t the beginning of the window.
Stale(time, t, window) == time < From(t, window)

\* Mutant: the time of a slot is that of its first point.
Earlier(a, b) == IF a < b THEN a ELSE b

Later(a, b) == IF a < b THEN b ELSE a

\* metricAggregated.add at time t: a slot whose time has left the window is
\* replaced, any other one takes the point in, whatever minute it is from.
add(m, t, mp) ==
  LET old == IF m.values = <<>> THEN [s \in 1..m.window |-> Zero] ELSE m.values
      s == Slot(mp.time, m.window)
      new == IF Stale(old[s].time, t, m.window) THEN mp
             ELSE [value |-> aggregate(m.agg, old[s].value, mp.value),
                   time |-> Later(old[s].time, mp.time)]
  IN  CASE m.window = 0 -> [m EXCEPT !.values = <<mp>>]
        [] m.window > 0 /\ Stale(mp.time, t, m.window) -> [m EXCEPT !.values = old]
        [] OTHER -> [m EXCEPT !.values = [old EXCEPT ![s] = new]]

\* get takes the slot v into mp, unless v has left the window.
Take(m, t, v, mp) ==
  CASE Stale(v.time, t, m.window) -> mp
    [] mp.time = 0 /\ ~Stale(v.time, t, m.window) -> v
    [] OTHER -> [value |-> aggregate(m.agg, mp.value, v.value), time |-> Later(mp.time, v.time)]

\* metricAggregated.get at time t: from the last slot to the first.
get(m, t) ==
  CASE m.values = <<>> -> Zero
    [] m.window = 0 -> m.values[1]
    [] OTHER -> FoldRight(LAMBDA v, mp : Take(m, t, v, mp), m.values, Zero)

-----------------------------------------------------------------------------
\* What a Go map becomes when the element of a key is set.
Put(f, key, elem) == [k \in DOMAIN f \cup {key} |-> IF k = key THEN elem ELSE f[k]]

(***************************************************************************)
(* collect for one metric.  s.clock is read for the point, and again after *)
(* a delay for add.  The first metric that uses a name decides how the     *)
(* points under this name are aggregated.  A panic leaves the loop.        *)
(***************************************************************************)
CollectOne(s, metric, msg, fields, delay) ==
  LET name == replaceVars(metric.name, fields)
      v == IF metric.value = <<>> THEN [ok |-> TRUE, n |-> 1]
           ELSE toFloat(byPath(fields, metric.value))
      mp == [value |-> IF metric.double /\ v.n # NaN THEN 2 * v.n ELSE v.n, time |-> s.clock]
      matches == match(metric, msg, fields)
      panics == \/ \E m \in metric.fields : byPath(fields, m.path) = Panics
                \/ /\ matches
                   /\ \E i \in DOMAIN metric.name : byPath(fields, metric.name[i].path) = Panics
                \/ matches /\ name.ok /\ byPath(fields, metric.value) = Panics
      mk == name.mk
      m == IF mk \in DOMAIN s.mps THEN s.mps[mk]
           ELSE [values |-> <<>>, agg |-> metric.agg, window |-> metric.window]
  IN  CASE s.panicked -> s
        [] ~s.panicked /\ panics -> [s EXCEPT !.panicked = TRUE]
        [] ~s.panicked /\ matches /\ name.ok /\ v.ok ->
             [s EXCEPT !.clock = @ + delay,
                       !.mps = Put(@, mk, add(m, s.clock + delay, mp)),
                       !.hist = Put(@, mk, Append(IF mk \in DOMAIN @ THEN @[mk] ELSE <<>>, mp))]
        [] OTHER -> s

-----------------------------------------------------------------------------
Rank == [Panic |-> 0, Error |-> 1, Warn |-> 2, Info |-> 3, Debug |-> 4]

\* ParseLevel, with which the application reads a level.
ParseLevel ==
  [panic |-> "Panic", error |-> "Error", err |-> "Error", warning |-> "Warn", warn |-> "Warn",
   info |-> "Info", debug |-> "Debug"]

\* Logrus has two levels more; New finds the nearest.
LogrusRank ==
  [PanicLevel |-> 0, FatalLevel |-> 0, ErrorLevel |-> 1, WarnLevel |-> 2, InfoLevel |-> 3,
   DebugLevel |-> 4, TraceLevel |-> 5]

LogrusLevel ==
  [PanicLevel |-> "Panic", FatalLevel |-> "Panic", ErrorLevel |-> "Error", WarnLevel |-> "Warn",
   InfoLevel |-> "Info", DebugLevel |-> "Debug", TraceLevel |-> "Debug"]

\* Levels that ParseLevel and logrus.ParseLevel know, and the levels of calls.
ASSUME LevelAssumption ==
  /\ \A i \in DOMAIN Chain :
       \/ Chain[i].typ \in {"metrics", "callback"} /\ Chain[i].level \in DOMAIN ParseLevel
       \/ Chain[i].typ \in {"logrus", "entry"} /\ Chain[i].level \in DOMAIN LogrusRank
       \/ Chain[i].typ = "null"
  /\ \A call \in Calls : call.level \in DOMAIN Rank

\* Level of the i-th logger of the chain.
LevelOf == [i \in DOMAIN Chain |->
  CASE Chain[i].typ \in {"metrics", "callback"} -> ParseLevel[Chain[i].level]
    [] Chain[i].typ = "logrus" -> LogrusLevel[Chain[i].level]
    [] Chain[i].typ = "entry" -> "Debug"
    [] Chain[i].typ = "null" -> "Panic"]

\* Level of the chain: the highest one.
Level == CHOOSE level \in DOMAIN Rank :
  /\ \A i \in DOMAIN Chain : Rank[level] >= Rank[LevelOf[i]]
  /\ \E i \in DOMAIN Chain : level = LevelOf[i]

\* log.IsLevel, which callers ask before they log something expensive.
IsLevel(level) == Rank[Level] >= Rank[level]

\* Debug, Info, Warn, Error and Panic of the metrics logger; the last two have
\* the same threshold.
Collects(level) == Rank[LevelOf[Self]] >= Rank[IF level = "Panic" THEN "Error" ELSE level]

\* The same of a callback logger, which has none for Panic.
CallsBack(i, level) == level = "Panic" \/ Rank[LevelOf[i]] >= Rank[level]

\* A Logrus logger passes everything on; Logrus itself looks at its level.
Writes(i, level) == LogrusRank[Chain[i].level] >= Rank[level]

Hears(i, level) ==
  \/ Chain[i].typ = "callback" /\ CallsBack(i, level)
  \/ Chain[i].typ \in {"logrus", "entry"} /\ Writes(i, level)

\* Mutant: a panic of one logger is not recovered before the next one.
ReachedUnlessPanic(i, level, panics) == IF level = "Panic" THEN i = 1 ELSE i =< Self \/ ~panics

\* The chain calls one logger after the other; it recovers from the panics of
\* its loggers only in Panic, where all of them panic.
Reached(i, level, panics) == level = "Panic" \/ i =< Self \/ ~panics

\* WithField, WithFields, WithError and WithAdvice of the chain.
Fields(call) == MapOf(WithFields(call.base, call.extra))

\* Numbers that are logged are integers here, or NaN.
ASSUME ValueAssumption ==
  /\ NaN \notin Int
  /\ \A config \in Configs : \A i \in DOMAIN config : \A call \in Calls :
       toFloat(byPath(Fields(call), config[i].value)).n \in Int \cup {NaN}

\* What collect starts from.
Start == [mps |-> metricPoints, hist |-> points, clock |-> now, panicked |-> FALSE]

\* collect, metric by metric.
collect(call, delays) ==
  FoldLeftDomain(LAMBDA s, i : CollectOne(s, metrics[i], call.msg, Fields(call), delays[i]),
                 Start, metrics)

Log(call, delays) ==
  /\ calls < MaxCalls
  /\ calls' = calls + 1
  /\ LET s == IF Collects(call.level) THEN collect(call, delays) ELSE Start
     IN  /\ metricPoints' = s.mps
         /\ points' = s.hist
         /\ now' = s.clock
         /\ panicked' = (s.panicked \/ call.level = "Panic")
         /\ heard' = [i \in DOMAIN Chain |->
              IF Hears(i, call.level) /\ Reached(i, call.level, s.panicked)
              THEN heard[i] + 1 ELSE heard[i]]
         /\ broken' = IF s.panicked /\ call.level # "Panic" THEN broken + 1 ELSE broken
  /\ UNCHANGED metrics

Pass ==
  /\ now < MaxTime
  /\ now' = now + 1
  /\ UNCHANGED <<metrics, metricPoints, calls, panicked, heard, points, broken>>

\* handle: what is reported of each name, now.
Reported(mk) == get(metricPoints[mk], now)

\* One value that JSON cannot express fails the whole page.
PageFails == \E mk \in DOMAIN metricPoints : Reported(mk).value = NaN

\* New: no point yet.
Init ==
  /\ metrics \in Configs
  /\ metricPoints = <<>>
  /\ now \in Begin .. (Begin + Minute - 1)
  /\ calls = 0
  /\ panicked = FALSE
  /\ heard = [i \in DOMAIN Chain |-> 0]
  /\ points = <<>>
  /\ broken = 0

Next ==
  \/ Pass
  \/ \E call \in Calls : \E delays \in [DOMAIN metrics -> 0..MaxDelay] : Log(call, delays)

Spec == Init /\ [][Next]_vars

-----------------------------------------------------------------------------
\* The sum of the points of ps whose indexes are in S.
SumOf(ps, S) == FoldLeftDomain(LAMBDA n, i : IF i \in S THEN n + ps[i].value ELSE n, 0, ps)

Total(mk, S) == SumOf(points[mk], S)

\* The points of a name that are in its window now.
InWindow(mk) ==
  LET window == metricPoints[mk].window
  IN  {i \in DOMAIN points[mk] : points[mk][i].time >= From(now, window)}

\* The points after the last silence that was longer than the window.
SinceSilence(mk) ==
  LET time(i) == IF i > Len(points[mk]) THEN now ELSE points[mk][i].time
      window == metricPoints[mk].window
  IN  {i \in DOMAIN points[mk] : \A j \in i .. Len(points[mk]) :
         time(j) >= From(time(j + 1), window)}

Numbers(mk) == \A i \in DOMAIN points[mk] : points[mk][i].value # NaN

NoneNegative(mk) == Numbers(mk) /\ \A i \in DOMAIN points[mk] : points[mk][i].value >= 0

(***************************************************************************)
(* Nothing that was logged within the window is left out of a sum, a       *)
(* maximum or a minimum, whichever slots were overwritten meanwhile.  A    *)
(* sum may also count what was logged before (see SumForgets), so that it  *)
(* is this large only if nothing negative was logged.                      *)
(***************************************************************************)
Covers ==
  \A mk \in DOMAIN metricPoints :
    LET m == metricPoints[mk]
        value == Reported(mk).value
    IN  m.window > 0 /\ Numbers(mk) /\ InWindow(mk) # {} =>
          /\ m.agg = "Sum" /\ NoneNegative(mk) => value >= Total(mk, InWindow(mk))
          /\ m.agg = "Max" => \A i \in InWindow(mk) : value >= points[mk][i].value
          /\ m.agg = "Min" => \A i \in InWindow(mk) : value =< points[mk][i].value

(***************************************************************************)
(* Neither a sum nor the page remembers what was logged before a silence   *)
(* longer than the window: the sum does not count it, and a NaN, which     *)
(* fails the page of all metrics, no longer does so (with the window 0,    *)
(* once another point has replaced it).  Without such a silence a sum may  *)
(* never forget (see SumForgets).                                          *)
(***************************************************************************)
SilenceForgets ==
  /\ \A mk \in DOMAIN metricPoints :
       metricPoints[mk].agg = "Sum" /\ metricPoints[mk].window > 0 /\ NoneNegative(mk) =>
         Reported(mk).value =< Total(mk, SinceSilence(mk))
  /\ PageFails => \E mk \in DOMAIN metricPoints :
       \E i \in (IF metricPoints[mk].window = 0 THEN {Len(points[mk])} ELSE SinceSilence(mk)) :
         points[mk][i].value = NaN

(***************************************************************************)
(* The time reported is that of the latest point in the window, and        *)
(* time.Time{} if there is none.  The value is that of the latest point if *)
(* the window is 0, or if values are replaced in a window of one slot.     *)
(***************************************************************************)
LatestReported ==
  \A mk \in DOMAIN metricPoints :
    LET m == metricPoints[mk]
        last == points[mk][Len(points[mk])]
    IN  /\ InWindow(mk) = {} /\ m.window > 0 => Reported(mk).time = 0
        /\ InWindow(mk) # {} \/ m.window = 0 => Reported(mk).time = last.time
        /\ \/ m.window = 0
           \/ m.window = 1 /\ m.agg = "Replace" /\ InWindow(mk) # {}
           => Reported(mk).value = last.value

(***************************************************************************)
(* The loggers of a chain hear what their levels promise: two of the same  *)
(* level hear the same, whatever writes their entries, and whoever asks    *)
(* IsLevel of the chain before logging keeps no entry from any of them.    *)
(* The only calls that a logger behind the metrics logger misses are       *)
(* those, other than Panic, in which collect has panicked on an index of a *)
(* slice.                                                                  *)
(***************************************************************************)
ChainTellsAll ==
  /\ \A i \in DOMAIN Chain, level \in DOMAIN Rank : Hears(i, level) => IsLevel(level)
  /\ \A i, j \in {i \in DOMAIN Chain : Chain[i].typ \in {"callback", "logrus"}} :
       i < j /\ LevelOf[i] = LevelOf[j]
       => /\ heard[j] =< heard[i]
          /\ heard[i] - heard[j] =< (IF i < Self /\ Self < j THEN broken ELSE 0)

(***************************************************************************)
(* "WindowLengthMin is the length of the window in minutes" (log.go:73):   *)
(* a sum does not even count what was logged two windows ago.              *)
(***************************************************************************)
SumForgets ==
  \A mk \in DOMAIN metricPoints :
    LET m == metricPoints[mk]
        recent == {i \in DOMAIN points[mk] : points[mk][i].time >= From(now, 2 * m.window)}
    IN  m.agg = "Sum" /\ m.window > 0 /\ NoneNegative(mk) =>
          Reported(mk).value =< Total(mk, recent)
=============================================================================
