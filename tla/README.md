# Formal models of go-utils

TLA+ models of the concurrent core of `chronicleprotocol/go-utils` and of its algorithms
on texts, times and configurations, the TLC
configurations that check them on small instances, and TLAPS proofs of their main
safety properties for every value of the constants. `PROJECT.json` lists the
components, runs, theorems and hazards, and maps every definition to the lines it
models; this file explains them. Paths of the Go code are relative to `src/`.

## 1. The system

The repository is a library of packages that services of one organisation share.

| component | state it keeps | operations | hard parts |
|---|---|---|---|
| `supervisor.Service` | started or not, the channel of `Wait` | `Start`, `Wait` | a contract kept by many implementations |
| `supervisor.Supervisor` | list of services, context, `waitCh` | `Watch`, `Start`, `Wait`, goroutine `serviceMonitor` | services fail, stop and send in any order; `Start` fails half way |
| `supervisor.Reloader` | current service, two cancel functions, accumulated error, mutex | `Start`, `Wait`, goroutines `serviceFactoryRoutine`, `serviceReloaderRoutine` | replacing a service while the factory, the service and the context change |
| `rpcsplitter` server | callers, timeouts, resolvers | one method per RPC call, `taggedBlockToNumber`, `call` | a goroutine per endpoint, two timeouts, late answers |
| `rpcsplitter` resolvers | requirements | `resolve` of three resolvers | ties, thresholds, order of answers |
| `chanutil.FanIn` | wait group, closed flag | `Input`, `Wait`, `Close`, `AutoClose` | closing a channel others send on |
| `chanutil.FanOut` | map of outputs, mutex | `Output`, `OutputContext`, `Close` | outputs come and go during a send under the lock |
| `timeutil.Scheduler`, `Ticker`, `VarTicker` | context, tick channel, mutex | `Start`, `Tick`, `TickAt`, a goroutine | closing against manual ticks; restart; a clock that is set |
| `timeutil.ScheduledTicker` | six lists of values | parsing, `String`, `Next` | calendar arithmetic, summer time, reuse |
| `httpserver` | server, listener, context, map of handlers | `Start`, `Wait`, `SetHandler`, goroutines `serve`, `shutdownHandler` | a serve error against the shutdown and its timeout; requests still running |
| `log/metrics` | per name a ring of slots, one per minute; its HTTP server | five log methods, the page, `Start`, `Wait` | slots used again as time goes on, NaN, panics of reflection |
| `log/chain` | the loggers, a `FanIn`, a dummy channel | five log methods, `Level`, `Start`, `Wait` | one logger panics; a later one fails to start |
| `log/callback`, `log/logrus`, `log/null` | a level | five log methods | levels of two scales |
| `scoring`, `retry` | scores; attempts | decay, retry loops | timeouts, last attempt |
| `bn` | numbers | arithmetic, conversions | rounding, sign, precision |
| `hcl/ext/include` | the merged body | `Include` | files that include each other, up to a depth |
| `hcl/ext/variables` | tree of variables, context | `Variables` with its resolver | cycles element by element, redefinition, partial values |
| `hcl` | - | mapping of bodies to structs and back | reflection |
| `interpolate` | position, buffers | `Parse`, `ParsePercent` | escapes, variables that are not closed |
| helpers (`errutil`, `sliceutil`, `maputil`, `env`, ...) | none | pure functions | - |

How they interact: an application passes services to a `Supervisor`, whose `Start`
starts them under one context and whose monitor receives from all their `Wait`
channels. A `Reloader` is a service that runs services; the HTTP server, the metrics
logger and the RPC proxy's server are services too. `log/chain` merges the `Wait`
channels of its loggers with a `FanIn`, and every log call goes through its loggers one
after the other. A metrics logger names its metrics with `interpolate`. A configuration
is first included and then its variables are resolved. The RPC proxy asks all endpoints each question
and gives their answers to a resolver.

What makes each part correct, and where it can go wrong, is the list of hazards in
`PROJECT.json`: each names the line where it bites and the properties that would catch
it.

## 2. Modules

| module | models | EXTENDS / INSTANCE |
|---|---|---|
| `ServiceContract` | the `Service` interface, as an abstract specification | |
| `Supervisor` | `supervisor/supervisor.go` | implements `ServiceContract` |
| `Reloader` | `supervisor/reloader.go` | implements `ServiceContract` |
| `RpcResolvers` | `rpcsplitter/resolver.go`, pure functions | |
| `RpcSplitter` | one request to `rpcsplitter/server.go` | extends `RpcResolvers` |
| `FanIn`, `FanOut` | `chanutil/chainutil.go` | |
| `Pipeline` | a `FanIn` whose output is the input of a `FanOut` | extends `FanIn`, instantiates `FanOut` |
| `Calendar` | what the code uses of Go's package `time` (external) | |
| `ScheduleText` | parsing and `String` of a schedule in `timeutil/scheduler.go` | extends `Calendar` |
| `ScheduledTicker` | a ticker with its schedule: parsing and `Next` | extends `ScheduleText` |
| `TickSources` | `Scheduler`, `IntervalTicker`, `ManualTicker`, `timeutil/ticker.go` | |
| `Include` | `hcl/ext/include/include.go`, one turn of its loops per step | |
| `Variables` | the resolver of `hcl/ext/variables/variables.go`, pure functions | |
| `Config` | a configuration is included and its variables are resolved | extends `Include`, `Variables` |
| `Interpolate` | the parser of `interpolate/interpolate.go` | |
| `Metrics` | `log/metrics/log.go` in a chain with loggers of the other kinds | |
| `HttpServer` | `httpserver/httpserver.go` | |
| `LogServices` | `Start` and `Wait` of `log/chain` over metrics loggers | extends `HttpServer`, `FanIn`; implements `ServiceContract` |
| `MC...` | the instances TLC checks | extends its specification |
| `FoldLemmas` | lemmas on loops, folds, least numbers and ascending lists | TLAPS and its library |
| `...Proofs` | theorems: `ChannelProofs` on `chanutil` and `LogServices`, `TimeutilProofs` on both modules of `timeutil`, `TextProofs` on `Interpolate` and `Include` | extends its specification and TLAPS; `ChannelProofs` extends `Pipeline` and `LogServices`; `TimeutilProofs` extends `TickSources` and `ScheduleText`, instantiates `ScheduledTicker` |

Definitions that begin with the comment `Mutant:` are not part of a specification.
Each is a plausible mistake in the definition that follows it (a dropped guard, a
missing wait, a wrong comparison) and must make one property fail; they show that the
properties can tell such a mistake from the code.

### Conventions

- An unbuffered channel has no state but "open" or "closed": a send is a step of both
  sides, and a sender waits in a state of its own until somebody receives.
- A mutex that is held over several steps is a variable or a program counter value
  that guards the others; one held within a step needs nothing.
- A panic in a goroutine ends the process: no further step is possible. A panic in the
  caller of an operation (a second `Watch`, `Input` on a closed fan-in) changes nothing
  and is no step.
- Errors are identified with the component they come from; texts and log calls are left
  out. What the application, a service, a factory, an endpoint, a consumer or a context
  may do is part of the specification, as freely as the interface allows.

### Supervisor

`services` is the list `Watch` builds; `svc`, `msg` and `sends` are the services, which
start, send values (errors or nil) on their channel without necessarily closing it, and
stop. `Start` is one step per service (`StartOne`, `StartFails`), because the services
started before already run. `serviceMonitor` is `MonSelect` (`reflect.Select`),
`MonError`, `MonStopped`, `MonLeave`, `MonReport`, `MonClose`; `errlog` and `out` record
the errors it received and the ones the application received. `Watch` adds a sysmon,
whose code is not in the repository: it is started and then runs until its context is
done or stops at once (external). While a sysmon runs, `Wait` stays open even if all
services of the application have stopped; `RunningOrNone` therefore counts sysmons.

### Reloader

`factory` and `rel` are the two goroutines. A service sends values on its channel, errors
or nil, and works on until it closes the channel (`svc`, `msg`, `sends`); both goroutines
of the code receive from it only once and take whatever comes for its end (`ReceiveError`,
`ReceiveNil`, `SelectStopped`, `ReloadAwait`). A service that sends again is left waiting. The body of
`reloadService` is four steps,
since the factory may fail, the service may send or end and the context may be cancelled
between any two. `mu` is held by the deferred function while it sends on `waitCh`. `Exit`
panics when `factoryCancel` is still nil.

### RpcSplitter

`method` is one of the 18 RPC methods, given by the resolver it uses and the number of
block arguments it resolves first. `todo` are these arguments, `args` the resolved ones.
A call consists of `pend` goroutines that wait for their endpoint, the buffered channel
`ch`, the answers `rs` collected so far and the graceful timer; endpoints are
interchangeable, so they are counted. A call that has returned leaves its goroutines in
`late`. An answer is an integer or an error; integers stand for any comparable response. A
block number is negative if it is a tag, and since `types.Number` parses negative numbers
and `taggedBlockToNumber` converts what it gets without a check, an endpoint can answer
one. `basis` keeps what the endpoints heard have answered.
The resolvers are computed as the code does, loop by loop; `Prevails`, `Central` and
`LowestWithinLimit` say what they promise without mentioning an order. With no answers
required and none valid, a resolver panics and the recovered `call` returns the zero
result, which the properties name as a case of its own.

### FanIn, FanOut, Pipeline

`routine` is the goroutine of each input, `closer` whoever calls `Wait` and then `Close`
(the goroutine of `AutoClose`, or the application). `late` records that `Input` was called
after a closer had passed `Wait`. In `FanOut`, `fan = "send"` is the time during which
`fanOutRoutine` holds `fo.mu`. The order in which one round serves the outputs is
arbitrary; a consumer that has quit is not served. `Pipeline` joins both by one channel:
a value is handed over in one step, and closing `fi.out` ends the loop of
`fanOutRoutine`.

### ScheduleText, ScheduledTicker

`spec` are the six lists; sorted lists without duplicates are sets, nil is the empty set.
A text is a sequence of parts, so that omitted parts, repeated and unordered values, all
values of a field and values out of range are distinguished; suffixes and the names of
months and weekdays are not. `Next` is a small state machine with one action per branch
of the loop and `at` as its variable. The operators `next...` and `match...` are the
functions of the same name; `Ticks` is the reference definition. `Calendar` has the sizes
of days, months and weeks as constants, leap years, and zones with one summer, `ahead` of
UTC or behind it; `Local`
and `Date` stand for `time.Time` and `time.Date`, with its normalisation. Where the clock
skips a midnight, `time.Date` of it is an hour later ahead of UTC, but 23:00 of the day
before behind UTC. `loc` is the zone of the argument of `Next`.

### TickSources

`kind` is chosen in the initial state: a `Scheduler` with an interval or a manual ticker,
a `Ticker` or a `VarTicker` (`size` 0: without duration). `ctx` is the field, `done` the
contexts that are done; the k-th successful `Start` has context and goroutine k. `pc` are
concurrent calls of `TickAt`, which hold `mu` while they send; `starter` waits for `mu`
in a state of its own, because a waiting writer keeps readers out. The goroutine of a
`Scheduler` is `IntervalNext`/`ManualNext`, `Loop`, `SleepOver`, `SleepCancelled` and
`Receive`, that of the tickers `First`, `WaitFired`, `WaitCancelled`, `Reset`, `Stop` and
`Receive`. `tt` is the field `t` of a `Ticker`, which the next `Start` overwrites. Time is
relative to the next tick, so that the state space is finite without an end of time;
`Adjust` sets the wall clock, `Pass` lets time pass for clock and timers. A time given to
`ManualTicker.TickAt` may have a monotonic reading (`mono`), since only the argument of `Next`
gets `.In`; then `time.Until` measures by the monotonic clock, `left` does not notice an
adjustment and `unseen` says how far the wall clock is off. Intervals and durations are
not negative, and those of tickers positive: `time.NewTicker` would panic
in the goroutine otherwise (`timeutil/ticker.go:94`, `:197`), which is not modelled.

### Include, Variables, Config

A file has patterns of its `include` attribute, or none (`NoAttr`), or one that does not
decode (`BadAttr`), and a block of variables; a file
system maps paths to files, so that a file may be missing. Directories are the proper
prefixes of paths; `Glob` finds them, too, as `fs.Glob` does, and reading one fails, as it does for
a file that does not parse or is missing. A pattern that `path.Match` refuses has the name
`*[`; `fs.Glob` refuses it before it looks for files. `calls` is the stack of calls of
`Include`: each keeps its directory, the patterns and the paths of the current pattern that
are left. A turn of the loop over patterns (`NextPattern`, `PatternFails`), one of the loop over
paths (`ParseFails`, `AttrFails`, `DepthFails`, `IncludeBody` for a body without the attribute, `IncludeFile` for one with
it, which is a new call) and a return are steps. That the depth is tested after the
attribute, and a file parsed before its own includes, decides which error is reported. The
caller, who has parsed `Main`, is the first call of the stack; `levels` is a history
variable that says from which depth each merged file comes. An expression is a literal, an
operation on references, a map or a list; how `hcl` evaluates one is external (`Value`,
`Refs`). The tree of `variables` is a function from paths to nodes, with `resolved`,
`visited` and the number of elements; `add`, `closest`, `optimize`, `toValue` and
`resolveSingle` are the functions of the same name, with their panics. `Config` runs the
steps of `Include`, then adds one attribute or resolves one variable per step, in the
order of the code. The reference definitions know neither tree nor order: `Level` for
includes, `Doomed` for cycles and `Denotation` for values.

### Interpolate

The input is a sequence of characters, `pos`, the three buffers and `out` are the fields of
the parser, `begin` and `def` the local variables of `parseVariable`. `loop` says which of
the loops of `parse`, `parseVariable` and `parseDefault` runs, and one turn of it is one
step. `Meanings` says, position by position and without any buffer, what a text means.

### Metrics

`metricPoints` holds per name the slots, the aggregation and the length of the window. One
log call goes through all loggers of the chain and through all metrics (`Log`, `collect`,
and `CollectOne` for each), since `collect` holds a mutex; the clock is read twice per point and may move in between, also
into another minute. `Reported` is what `handle` shows. Fields are numbers, texts, maps
and slices, as reflection sees them; NaN is a value of its own. `points` keeps all that
was added, as the reference. Loggers of the chain are metrics, callback, Logrus (with and
without access to its level) and null; `heard` counts what each has passed on.

### HttpServer, LogServices

`serve` and `shut` are the two goroutines of a server, `closing` says that `Shutdown` was
called, `err` what came of it. What `net/http` does is external: it accepts, hands a
request to a goroutine, `Shutdown` waits until all are idle or its context is done. `serve`
offers its error only once; if `shutdownHandler` has not yet reached its `select`, the
error is dropped. `SetHandler` writes a map that a request may be reading; the runtime may
then end the process (`crashed`). `LogServices` runs the body of the chain's `Start` step
by step over such servers and feeds the module `FanIn`: a send on a server's wait channel
and the reception by the fan-in are one step.

## 3. Runs

Passing runs:

| run | shows | instance |
|---|---|---|
| `supervisor` | `Wait` carries exactly the first error (`FirstError`); an error or a cancelled context brings all services down, and when all have stopped it is closed (`RunningOrNone`); it implements the contract, so that `Wait` is closed only behind the services | two services, a sysmon, up to two values per service |
| `reloader` | a service that still works behind its successor, or when `Wait` is closed, was cancelled and has handed over a value, or the factory has closed its channel (`LeavesBehind`); cancelling, also in the middle of a reload, and an error of the factory unless `reloadService` is still at the old service stop everything else (`CancelStops`, `FactoryErrorHeard`: only such a service goes on); it implements the contract | the dummy and two services of up to two values |
| `rpc_resolvers` | what the three resolvers return for every order and subset of answers (`MostCommonWins`, `GasIsCentral`, `BlockIsLowestNear`); a majority cannot be overturned by missing endpoints (`MajorityIsFinal`) | five endpoints; none, two or three answers required |
| `rpc_tags` | requests with up to two tagged blocks, hence three calls on one context, all return and leave no goroutine (`RequestReturns`, `NoSenderBlocks`) and pass no tag of the client on; a tag sent is a number an endpoint answered, and no answer heard is further ahead of it than allowed (`NoTagReachesEndpoints`) | two endpoints that may answer negative numbers, zero or one answer required |
| `chanutil` | nothing lost, repeated or reordered (`MergedOnce`, `InStep`); nobody sends on a closed channel unless an input is added late (`ClosedAfterAll`); closing and cancelling reach the other end unless a consumer quits (`CancelClosesOutput`, `EndToEnd`) | two inputs with up to two values each, three in all, two outputs, one with a context, one closer |
| `schedule` | a parsed text means what it says, as far as it says it (`SpecMeansText`); what `String` writes is read back, into any ticker (`RoundTrip`); `Next` passes over no tick, with two exceptions (`NothingSkipped`), and returns, unless it has to step over a midnight that the clock skips in a zone behind UTC (`ReturnsUnlessStuck`) | years of 4 + 2 + 4 days with a leap year, days of 4 hours of 2 minutes of 2 seconds of 2 units, a zone ahead of UTC and one behind it, 384 schedules with six parts and 10 odd ones, three texts to parse again, 17 arguments |
| `tick_sources` | the context stays while `TickAt` sends (`SenderKeepsContext`); a `Scheduler` is early by the wall clock only if that was set back in the last sleep, or if the time has a monotonic reading, and by the monotonic clock never (`NotEarly`); cancelled goroutines end (`CancelEnds`), others tick (`TicksFlow`), with the exceptions stated there | two callers of `TickAt`, two starts, an interval of 3 and one of half a second, longest sleep 2, up to two durations, the clock set once |
| `config` | `Include` merges exactly the files within the depth or fails, with the error that is there: a path that is no file, a directory included, a list that does not decode, a malformed pattern, too many levels, also on cycles (`IncludeExact`); resolved variables solve their definitions (`Consistent`); each outcome has its cause (`OutcomeExact`) | all triples of 14 definitions with four overrides, 1331 systems of three files, one in a directory, and 121 of two, with eleven lists of patterns, depths 0 and 2 |
| `interpolate` | the parser finds what a text means (`ParseMeansText`) and ends (`Terminates`) | all texts of up to seven of the characters `$ { } - \` |
| `metrics` | what was logged within the window is covered (`Covers`); a silence of more than a window forgets all, NaN included (`SilenceForgets`); both of sums without negative values; the time reported is that of the last point (`LatestReported`); the chain keeps entries from nobody who should hear them (`ChainTellsAll`) | minutes of two units, windows of 0 to 2 minutes, three log calls of eight, delays of up to one unit, seven loggers |
| `log_services` | the chain closes its channel only after cancellation and behind answered requests, unless a server reports otherwise (`CleanClose`); cancelling closes it (`CancelCloses`); an error somebody waits for arrives (`WaitedErrorArrives`); it implements the contract | chains of no, one and two servers, one request for each |

Why the bounds are enough. Two services give every order of two failures, and the
monitor treats all services alike; two values let a service send a nil or an error and
go on, under the supervisor and under the reloader. Two services after the dummy give a
reload of a real service by another. Five
answers give ties, a majority of three, two missing answers that could overturn a smaller
one, an odd and an even number of valid answers, and with -1, 1 and 2 and a limit of 2 a
negative block number, one exactly at the limit, one within and one beyond. Two endpoints and up to
three calls let every call leave a late goroutine. Two inputs with up
to two values interleave and take a second turn, which is what losing, repeating or reordering
takes; two outputs let an output join, leave or block while the other is served. The small calendar has what matters of
the real one: a month that lacks two listed days, one that a leap year makes longer,
months and weeks that do not fit, both changes of the clock, in the middle of a day ahead
of UTC and at midnight of the first of a month behind UTC; arguments lie at the ends of
all days and at the changes. An interval of 3 with sleeps of at most 2 takes a long and
a short sleep. Three variables give cycles of one, two and three, through elements of maps
and lists two levels deep; three files, one in a directory, give cycles of includes and
chains longer than the depth. Seven characters hold a variable with an escape and a
default (`${\}-$}`) and two variables side by side. A run of up to six units of time is
three minutes: every slot of a window of two minutes can be used again, and a silence
longer than the window fits in. Two servers let the second fail to start while the first
runs. The theorems below show that the safety results they state do not depend on these
numbers. Deadlock is not checked: all these systems may come to rest.

One run expects a violation, of a comment in the code (the quotes are in `PROJECT.json`):

| run | what happens |
|---|---|
| `schedule_next` | `Next` misses a tick: on the day the clock goes forward, since `nextHour` takes hours of the clock for hours of time; on March 1 with days 1 and 30, since `nextDay` lands on March 2 |

### Disagreements without a run

These properties are defined in the modules and state what a comment says. They are part
of no configuration; each is violated when it takes the place of the properties in the
one named.

| property | configuration | comment | what happens |
|---|---|---|---|
| `Supervisor!FailedStartStopsAll` | `MCSupervisor.cfg` | "This ensures that all services are running or none" (`supervisor/supervisor.go:57`) | `Start` fails at a later service; nobody receives from the ones already started, and one that has an error to send never stops |
| `Reloader!CancelCloses` | `MCReloader.cfg` | "When the service is stopped, the channel will be closed" (`supervisor/supervisor.go:42`) | the context is cancelled before the factory goroutine has run: the deferred function calls a nil `factoryCancel` (`supervisor/reloader.go:160`) |
| `Reloader!FactoryErrorStops` | `MCReloader.cfg` | "The service is stopped [...] when the factory function returns an error" (`supervisor/reloader.go:56`) | the factory fails during a reload: the error cancels the old service, the new one runs on |
| `Reloader!AtMostOneActive` | `MCReloader.cfg` | "Cancel the service context to stop the service and wait for it to stop" (`supervisor/reloader.go:118`) | the old service sends nil and works on; the new one is started beside it |
| `RpcSplitter!GracefulReturn` | `MCRpcSplitterTags.cfg` | "if gracefulTimeout exceeds and there are enough responses [...] the response returned" (`rpcsplitter/server.go:560`) | the timer fires before there are enough answers and is never armed again: `call` waits for all endpoints |
| `RpcSplitter!OnlyNumbersAreSent` | `MCRpcSplitterTags.cfg` | "This is necessary because different RPC endpoints may convert tags to different block numbers" (`rpcsplitter/server.go:470`) | an endpoint answers `-0x2`; converted without a check, it is the tag `latest` again, which is sent to all |
| `ScheduledTicker!NextReturns` | `MCScheduledTicker.cfg` | "Next returns the next tick time after the given time" (`timeutil/scheduler.go:51`) | behind UTC, summer begins at 00:00: from a day that does not match, `nextDay` and `nextMonth` lead back to 23:00 of that day, for ever |
| `TickSources!InSync` | `MCTickSources.cfg` | "to ensure that the ticker is in sync with the wall clock" (`timeutil/scheduler.go:128`) | a manual tick whose time keeps its monotonic reading is early by the wall clock, although that was set back before the last sleep |
| `Include!GlobFindsFiles` | `MCConfig.cfg` | "Find all files matching the glob pattern" (`hcl/ext/include/include.go:58`) | `*` finds directories, too; reading one fails, and with it `Include` |
| `Metrics!SumForgets` | `MCMetrics.cfg` | "WindowLengthMin is the length of the window in minutes" (`log/metrics/log.go:73`) | a slot that gets a point at least once per window is never emptied: its sum keeps growing, beyond what two windows hold |
| `LogServices!ErrorArrives` | `MCLogServices.cfg` | "If an error occurs, an error will be sent to the channel before closing it" (`supervisor/supervisor.go:42`) | `Serve` fails before `shutdownHandler` has reached its `select`: the `default` of `serve` drops the error |

Further disagreements and surprises met while modelling:

- Services. After a failed `Start` of a supervisor `Wait` is closed while services still
  run. A comment says that a second `Start` panics; it returns an error. A reloader
  receives from a service only once, and a service that sends again, after it was replaced
  or when the reloader has ended, waits for ever. One whose
  factory closes its channel does not wait for its service, against the comment in
  `serviceReloaderRoutine` (this is why `LeavesBehind` and the mapping of `busy`
  exempt that case). When a second server of a chain fails to start, the first one runs
  until the context is done and its `shutdownHandler` then waits for a receiver for ever.
  A metrics logger sets its handler after it has started its server: a request in between
  gets 404, or reads the map that is being written.
- RPC proxy. The comment on `BlockNumber` promises the most common response, the resolver
  gives the lowest recent one. With `minResponses` 0 and only errors the resolver panics,
  and the recovered `call` returns success with a zero result. `NewServer` tests
  `callers == nil`, which never holds. A block number that does not fit into 64 bits is cut
  off and may be written as a tag, too; the model has integers only. `GetLogs` resolves `latest` twice, and the two
  answers may differ.
- Channels and ticks. The comment on `FanIn.Close` asks only that the inputs are closed,
  but a goroutine may still hold the last value. A consumer of a `FanOut` that stops
  reading blocks every other output, `Close` and `closeRoutine` for ever. An `Input`
  between the `Wait` and the `Close` of `AutoClose` is accepted and the output is closed
  under it. `TickAt` panics with a send on a closed channel if the context is cancelled
  while it sends. The channel of a `Scheduler` is not closed on cancellation while the
  goroutine waits for its consumer or for a `ManualTicker`. A `Ticker` that is started
  again at once may have its new `time.Ticker` stopped by the old goroutine. An interval
  written as `0.5` becomes 0. A text with omitted parts, unmarshalled into a used
  `ScheduledTicker`, keeps the old values of these parts.
- Metrics and logging. The comments write variables in names as `${path}`; the code parses
  `%{path}`. The first metric of a name decides the aggregation and the window of all. A
  window with several slots and `Replace` reports the value of the lowest slot. One NaN fails
  the page of all metrics. An index beyond the end of a slice panics in the log call, and
  the loggers behind hear nothing. A metrics logger at the level `Panic` collects no
  `Panic` entries. A callback gets the level of its logger, not that of the entry. A Logrus
  logger made of an `Entry` reports the level `Debug`, whatever it writes.
- Configuration. A reference to an undefined variable panics. The included file wins over
  the including one, and elements of the definition it overrides stay in the tree, where a
  reference still finds their old values; `Consistent` exempts that case.

### Fairness

Every liveness property is checked under weak fairness of steps the code cannot avoid.
Goroutines are scheduled (monitor, reloader, factory error handling, calls, fan-in and
fan-out routines, both goroutines of a server, the parser's loop, the loop of `Next`). The application
receives from `Wait`, as its callers do. A service whose context is done stops; nothing
obliges it otherwise. Timers fire, and a call to an endpoint returns once its context is
done; an endpoint owes no answer before. `http.Server.Shutdown` returns at the latest
when its timeout ends; a request is never obliged to end. Consumers of a `FanOut` or a
tick source that have not quit read. A `select` chooses at random, so a context that is
done is noticed even if a timer is ready again and again (the only strong fairness).
Nobody owes a cancellation, a value, a service from the factory or the closing of an
input.

## 4. Proofs

| theorem | statement | from |
|---|---|---|
| `SupervisorProofs!OnlyFirstError`, `WaitAfterAll`, `TypeCorrect` | `FirstError`; `ClosedMeansStopped`; the type | `IInv` = type, control, pruning of the list, reporting |
| `SupervisorProofs!Refinement`, `ReloaderProofs!Refinement`, `ChannelProofs!Refinement` | all three implement `ServiceContract` | the same invariants, step by step |
| `ReloaderProofs!LeftBehind`, `TypeCorrect` | `LeavesBehind`; the type | `IInv` = type, control, only the current service works without having spoken, the routine has no way out before it has |
| `RpcSplitterProofs!SendersNeverBlock` | no goroutine waits for room in the channel | answers received, in the channel and awaited never exceed the endpoints |
| `RpcSplitterProofs!TagsAreResolved` | `NoTagReachesEndpoints` | an argument that is a tag again is what the block resolver made of endpoints' answers: one of them, and the lowest that is near enough to all |
| `RpcSplitterProofs!DefaultIsMostCommon`, `MajorityCannotBeOverturned`, `GasValueIsCentral`, `BlockNumberIsLowestNear` | what the resolvers promise: the properties of run `rpc_resolvers` | what each resolver computes, for any answers, and `Concluded`: the result of a request that is over is what its resolver made of the answers it had |
| `ChannelProofs!NoSendOnClosed`, `MergesAll`, `OutputsInStep`, `TypeCorrect` | the invariants of run `chanutil`; the type | who passed `Wait` found all goroutines ended; rounds serve open outputs; `joined` plus received equals seen |
| `TimeutilProofs!SendersKeep`, `NeverEarly`, `OwnContext`, `TypeCorrect` | the safety properties of run `tick_sources`; `LoopHasContext`; the type | at most the current goroutine is in its loop; the last sleep reaches the tick unless the clock was set back, or goes by the monotonic clock |
| `TimeutilProofs!ScheduleIsAsWritten`, `StringIsParsedBack`, `TickerIsParsed` | `SpecMeansText` and `RoundTrip` of the parser; a whole ticker implements the parser, hence both hold of it | `Meant` = fields hold values of the field only, and after a parse without error none has all of them |
| `MetricsProofs!ChainKeepsItsPromise` | `ChainTellsAll` | `Counted`: counters, and the bound on the difference between two loggers of the same level; what `Level` and `IsLevel` compute |
| `MetricsProofs!LatestIsReported`, `PointsAreRecorded` | `LatestReported`; its invariant | `Recording`: points are in order, the latest is in its slot unless the window passed it, no slot has a later time, and `Slots`: which points each slot holds |
| `MetricsProofs!WindowIsCovered`, `SilenceIsForgotten` | `Covers`; `SilenceForgets` | `Holds`, the part of `Slots` about one window: the value of a slot comes from known points of its minute of the ring, its time is that of the latest of them, no silence longer than the window lies between them, and every point in the window is in its slot |
| `TextProofs!TextIsParsed`, `ParserInvariant`, `ParserTypes` | `ParseMeansText`; its invariant; the type | `Parsing`: what each buffer holds at each position, that nothing passed so far begins a closed variable or closes the open one, and that the parts found so far followed by the meaning of the rest are the meaning of the text |
| `TextProofs!IncludeIsExact`, `IncludeInvariant`, `IncludeTypes` | `IncludeExact`; its invariant; the type | `Nested`: a call has only files of its level pending, `Placed`: a merged file is of its level and not too deep, `Whole`: what a merged file includes is merged after it or pending, `Justified`: an error has its reason: a path that is no file, a malformed pattern, an attribute that does not decode, a depth |
| `ChannelProofs!ClosesClean` | `CleanClose` | `IInv` = type, which servers `Start` has reached, what both goroutines of a server know, what the fan-in has merged |

All hold for every value of the constants under the named ASSUMEs, which only say that
names are distinct, bounds are natural, what endpoints answer are integers, texts are lists of characters, the files of a
file system and the patterns in them are paths, levels are ones that
`ParseLevel` or Logrus knows, a window is shorter than the time since the zero time, and
logged numbers are integers or NaN (the sum of two `float64` may be rounded). Why the invariants need strengthening:
`ClosedMeansStopped` of the supervisor speaks of services, but the monitor decides by
its pruned list; `Pruning` ties a missing entry to a closed channel, and `FirstError`
needs that the local `err` is the first of the log. `LeavesBehind` speaks of services that are no longer current, and of the closed channel:
`OneCurrent` says that a service has been cancelled and has handed over a value, or has
stopped, before `reloadService` replaces it, `Waits` the same of the routine's way out. A
value that is being sent does not count as handed over, which is why `Control` counts it.
`NoSenderBlocks` needs the count of all goroutines of a call.
`ClosedAfterAll` needs that the closers between `Wait` and `Close` have seen every
goroutine end, and `InStep` the exact position of each output in the stream.
`NotEarly` needs that during the last sleep the tick is never further away than the
timer, by the monotonic clock whatever is done to the other, and that no second goroutine moves it, which is `LoopHasContext`. `CleanClose`
speaks of servers, but `AutoClose` only waits for the goroutines of the fan-in: `Merging`
ties a fan-in goroutine that has ended to a wait channel that was closed, `Serving` a
closed wait channel to a server that has stopped, with idle requests if it reported nil,
and `Started` says that every server that was started has become an input by then.

The results of the resolvers and of `get` and `collect` are loops over data. The provers
cannot instantiate an induction rule, so induction is done with sets: `UpTo` of
`FoldLemmas` says that a set which contains 0 and with k - 1 also k contains every number
(by the least number that it lacks). Library folds are a CHOOSE of a function that
satisfies its recursion; to know anything of the fold, such a function must be shown to
exist (`FoldExists`, `AccumulatesExists` for a given step, and lemmas of the same shape
where the step is an operator of the module). Then the fold satisfies its recursion and
`UpTo` carries what is wanted through it: that the list of distinct answers counts each
one, that an ascending permutation exists and the median has half of the answers on
either side, that the slots taken so far have the latest time and the sum of their points.

Why `LatestReported` needs more than itself: `get` looks at slots, and a slot's time says
nothing of the points unless no slot is later than the last point and the last point is in
its slot. The last point may be missing from its slot: when the clock moves by more than
the window within `collect`, `add` drops it; then it is out of the window for ever.
`Covers` and `SilenceForgets` compare sums over slots with sums over points, so the
invariant must name the points of every slot: some function `P` from slots to sets of
points fits (`Holds`). `add` leaves it, replaces a set by the new point, or adds the point
to a set; `get` then reports of the union of the sets whose slots are in the window. All
points in the window are in that union, and all in the union are after the last silence:
a slot is only added to while its latest point is in the window. A sum is monotone only
without negative values, which both properties therefore exclude; the instance has some.
`ChainTellsAll` is preserved whatever `collect` makes of a call, once two loggers of one
level are shown to hear the same levels and to be reached together but for a panic of the
metrics logger between them.

`ParseMeansText` compares a parser that looks at one character after the other with a
definition that looks at all of them: a character is escaped if it follows an odd number
of backslashes, a variable ends at the least unescaped brace. `EscapedNext` shows that the
former decides the latter. `Plain` and `Meanings` are recursive functions, the one looks
back by one character, the other ahead by a variable; they satisfy their equations because
a solution exists (`AccumulatesExists`, `DescendsExists`). The invariant cannot say what the
text up to `pos` means, since that depends on a closing brace further on. It says that from
the position `b` where the buffer of literals begins up to `pos` no variable begins that is
ever closed, so that the meaning of the rest still starts at `b`. When a variable is not
closed, `pos` goes back, but the loop has seen the rest of the text by then: no unescaped
brace is in it, and the first two characters join the buffer. A buffer of a variable is
only known as long as text is left, because a backslash at the very end is dropped there.

`IncludeExact` speaks of the end, when all calls have returned. A pattern is only expanded in
its turn, so that an error found is the error of a path or pattern that is reached, but
which of several is found depends on the order; the property says of each error that its
cause is there, and of success that none is. A malformed pattern stands for itself among the paths reached,
and is no path of the file system (`MalformedNames`). What makes it true before is
that nothing is forgotten: every file that a merged one includes, and `Main`, is merged at
its level or pending in the call of that level (`Whole`), and a call only returns when it
has nothing pending. At the end the files of level n are therefore merged at level n, by
induction on n (`LevelsMerged`, with `UpTo`); so each was parsed and none is too deep. The
history variable `levels` is needed here: a file may be reached at several levels, and be
allowed at one and too deep at another. `Level` is a recursive function, which satisfies
its equation by `AccumulatesExists` (`LevelStep`). The theorem is about `IncludeSpec`; every
step of `Config` is a step of `IncludeNext` or leaves `includeVars` unchanged.

Only model-checked:

- all liveness properties (fairness and ENABLED are out of the provers' reach);
- `NothingSkipped` of the `ScheduledTicker`: calendar arithmetic with
  division by parameters, and a table of days defined by sums;
- `Consistent` and `OutcomeExact`: `Variables` has recursive operators, as the resolver and
  the expressions it works on are recursive.

## 5. Not modelled, and the plan

Not modelled for good: JSON and HTTP encodings (`rpcsplitter/transport.go` and the wire
types), the HTTP middleware, the reflective mapping of `hcl` (`decode.go`, `mapper.go`,
`writer.go`), the formatters of `log/logrus`, small pure helpers, reading of files and
the environment, test doubles. They convert data and keep no state. Of `httpserver`, the
registration of middleware (`Use`), several paths and `NullServer` are left out.

Left of the plan, in this order:

1. `scoring` (a decay goroutine on a `Ticker`) and `retry` (timeouts and the last attempt).
2. Fixed point division and rounding of `bn` against a reference definition.
3. Two composed reloaders: the deferred function sends with `r.mu` held
   (`supervisor/reloader.go:163`), and the outer one asks for the name of the inner one.
4. Proofs: every turn of `ScheduledTicker.Next` moves forward where no midnight is skipped.
