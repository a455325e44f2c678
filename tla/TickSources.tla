----------------------------- MODULE TickSources -----------------------------
(***************************************************************************)
(* The three tick sources of package timeutil: Scheduler (scheduler.go)    *)
(* with an IntervalTicker or a ManualTicker, Ticker and VarTicker          *)
(* (ticker.go).  They share their shape: Start under mu sets ctx and       *)
(* starts a goroutine that sends ticks on the unbuffered channel c; TickAt *)
(* sends on c with mu held; there is one consumer.  They differ in the     *)
(* lock of TickAt, in what happens when the context is done, and in what a *)
(* second Start finds.                                                     *)
(*                                                                         *)
(* The k-th successful Start has the context k and the goroutine k.  Time  *)
(* is relative: left is how far the next tick of a Scheduler lies ahead,   *)
(* timer what its sleep has still to go.  A time that keeps its monotonic  *)
(* reading is ahead of the monotonic clock, any other of the wall clock.   *)
(***************************************************************************)
EXTENDS Integers, FiniteSets

CONSTANTS
  Callers,       \* goroutines that call TickAt
  Starts,        \* bound on the calls of Start
  HalfSeconds,   \* the intervals as written in a configuration, in half seconds
  MaxSleep,      \* scheduleMaxSleepTime
  Durations,     \* the number of durations of a VarTicker, at most
  MaxLag,        \* bound on how far a late Scheduler is behind
  MaxAdjust      \* bound on the number of times the wall clock is set

Ks == 1..Starts

ASSUME TickAssumption ==
  /\ Starts \in Nat /\ Durations \in Nat
  /\ MaxSleep \in Nat \ {0} /\ MaxLag \in Nat /\ MaxAdjust \in Nat
  /\ HalfSeconds \subseteq Nat

VARIABLES
  kind,      \* "interval", "manual": Scheduler; "ticker"; "var"
  size,      \* the interval of an IntervalTicker, the number of durations of a ticker
  ctx,       \* the field ctx, 0 if nil
  done,      \* the contexts that are done
  gen,       \* the number of goroutines started
  starter,   \* whoever calls Start: "idle", "lock", "panic"
  pc,        \* the calls of TickAt: "idle", "sending", "panic", "crash"
  g,         \* the goroutines
  closed,    \* whether c is closed
  reading,   \* whether the consumer reads from c
  tt,        \* whose time.Ticker is in the field t of a Ticker
  armed,     \* the time.Ticker or time.Timer of k is running
  fired,     \* there is a value in its channel
  phase,     \* len(d) in the goroutine of a VarTicker
  left, timer, long,
  mono,      \* the next tick has a monotonic reading
  unseen,    \* how far the wall clock was set back since, if it has
  setBack,   \* the wall clock was set back since left was last looked at
  adjusts

life == <<ctx, done, gen, starter, pc, closed, reading>>
tickers == <<tt, armed, fired, phase>>
clock == <<left, timer, long, mono, unseen, setBack, adjusts>>
vars == <<kind, size, life, g, tickers, clock>>

IsScheduler == kind \in {"interval", "manual"}

Labels == {"none", "first", "next", "loop", "sleep", "wait", "send", "lock", "stop", "ended"}

TypeOK ==
  /\ kind \in {"interval", "manual", "ticker", "var"}
  /\ size \in Nat
  /\ ctx \in 0..Starts /\ gen \in 0..Starts /\ tt \in 0..Starts
  /\ done \subseteq Ks
  /\ starter \in {"idle", "lock", "panic"}
  /\ pc \in [Callers -> {"idle", "sending", "panic", "crash"}]
  /\ g \in [Ks -> Labels]
  /\ closed \in BOOLEAN /\ reading \in BOOLEAN
  /\ armed \in [Ks -> BOOLEAN] /\ fired \in [Ks -> BOOLEAN]
  /\ phase \in [Ks -> Nat]
  /\ left \in Int /\ timer \in Nat /\ long \in BOOLEAN
  /\ mono \in BOOLEAN /\ unseen \in Int
  /\ setBack \in BOOLEAN /\ adjusts \in 0..MaxAdjust

-----------------------------------------------------------------------------
\* IntervalTicker.UnmarshalText: time.Duration(num) drops the fraction.
UnmarshalText(half) == half \div 2

Init ==
  /\ \/ kind = "interval" /\ size \in {UnmarshalText(h) : h \in HalfSeconds}
     \/ kind = "manual" /\ size = 0
     \/ kind = "ticker" /\ size \in {0, 1}
     \/ kind = "var" /\ size \in 0..Durations
  /\ ctx = 0 /\ done = {} /\ gen = 0 /\ starter = "idle"
  /\ pc = [p \in Callers |-> "idle"]
  /\ g = [k \in Ks |-> "none"]
  /\ closed = FALSE /\ reading = TRUE
  /\ tt = 0
  /\ armed = [k \in Ks |-> FALSE] /\ fired = [k \in Ks |-> FALSE]
  /\ phase = [k \in Ks |-> 0]
  /\ left = 0 /\ timer = 0 /\ long = FALSE
  /\ mono = FALSE /\ unseen = 0 /\ setBack = FALSE /\ adjusts = 0

\* The calls of TickAt that hold mu.  Start and the reset of ctx need it alone.
Holders == {p \in Callers : pc[p] = "sending"}

\* A writer that waits keeps new readers out.
WriterWaits == starter = "lock" \/ \E k \in Ks : g[k] = "lock"

\* Start(ctx) reaches mu.Lock.
CallStart ==
  /\ starter = "idle" /\ gen < Starts
  /\ starter' = "lock"
  /\ UNCHANGED <<kind, size, ctx, done, gen, pc, closed, reading, g, tickers, clock>>

\* Start with mu; it panics if ctx is set.
Start ==
  /\ starter = "lock" /\ Holders = {}
  /\ IF ctx # 0
     THEN starter' = "panic" /\ UNCHANGED <<ctx, gen, g>>
     ELSE /\ starter' = "idle"
          /\ gen' = gen + 1
          /\ ctx' = gen + 1
          /\ g' = [g EXCEPT ![gen + 1] = "first"]
  /\ UNCHANGED <<kind, size, done, pc, closed, reading, tickers, clock>>

Cancel(k) ==
  /\ k <= gen /\ k \notin done
  /\ done' = done \cup {k}
  /\ UNCHANGED <<kind, size, ctx, gen, starter, pc, closed, reading, g, tickers, clock>>

\* Tick and TickAt up to the send; a VarTicker takes the lock alone.
TickAt(p) ==
  /\ pc[p] = "idle"
  /\ IF kind = "var" THEN Holders = {} ELSE ~WriterWaits
  /\ pc' = [pc EXCEPT ![p] = IF ctx = 0 \/ ctx \in done THEN "panic" ELSE "sending"]
  /\ UNCHANGED <<kind, size, ctx, done, gen, starter, closed, reading, g, tickers, clock>>

\* The consumer reads what TickAt sends.
ReceiveTickAt(p) ==
  /\ pc[p] = "sending" /\ reading /\ ~closed
  /\ pc' = [pc EXCEPT ![p] = "idle"]
  /\ UNCHANGED <<kind, size, ctx, done, gen, starter, closed, reading, g, tickers, clock>>

\* c is closed while TickAt sends.  The caller may recover from this panic.
SendOnClosed(p) ==
  /\ pc[p] = "sending" /\ closed
  /\ pc' = [pc EXCEPT ![p] = "crash"]
  /\ UNCHANGED <<kind, size, ctx, done, gen, starter, closed, reading, g, tickers, clock>>

\* The consumer leaves its loop.
Quit ==
  /\ reading
  /\ reading' = FALSE
  /\ UNCHANGED <<kind, size, ctx, done, gen, starter, pc, closed, g, tickers, clock>>

-----------------------------------------------------------------------------
(* Scheduler.scheduler *)

Goto(k, l) == g' = [g EXCEPT ![k] = l]

\* n := s.n.Next(...) of an IntervalTicker, first from now, then from n.  In
\* drops the monotonic reading of both.
IntervalNext(k) ==
  /\ kind = "interval" /\ g[k] \in {"first", "next"}
  /\ left' = (IF g[k] = "first" THEN 0 ELSE left) + size
  /\ Goto(k, "loop")
  /\ UNCHANGED <<kind, size, life, tickers, timer, long, mono, unseen, setBack, adjusts>>

\* ManualTicker.Next meets ManualTicker.Tick, or TickAt with a later time.  The
\* time is taken as it is: one made from time.Now has a monotonic reading.
ManualNext(k) ==
  /\ kind = "manual" /\ g[k] \in {"first", "next"}
  /\ left' \in {0, MaxSleep + 1}
  /\ mono' \in BOOLEAN
  /\ unseen' = 0
  /\ Goto(k, "loop")
  /\ UNCHANGED <<kind, size, life, tickers, timer, long, setBack, adjusts>>

\* defer close(s.c).
CloseChannel(k) ==
  /\ Goto(k, "ended")
  /\ closed' = TRUE
  /\ UNCHANGED <<ctx, done, gen, starter, pc, reading>>

\* Mutant: sleep does not look at the context if there is nothing to sleep.
LoopUnchecked(k) ==
  /\ g[k] = "loop"
  /\ setBack' = FALSE
  /\ IF left <= 0
     THEN Goto(k, "send") /\ UNCHANGED <<life, timer, long>>
     ELSE /\ long' = (left >= MaxSleep)
          /\ timer' = IF long' THEN MaxSleep ELSE left
          /\ Goto(k, "sleep")
          /\ UNCHANGED life
  /\ UNCHANGED <<kind, size, tickers, left, mono, unseen, adjusts>>

\* d := time.Until(n), the choice of the sleep, and sleep up to its select.
Loop(k) ==
  /\ g[k] = "loop"
  /\ setBack' = FALSE
  /\ IF left <= 0
     THEN /\ IF ctx \in done THEN CloseChannel(k) ELSE Goto(k, "send") /\ UNCHANGED life
          /\ UNCHANGED <<timer, long>>
     ELSE /\ long' = (left >= MaxSleep)
          /\ timer' = IF long' THEN MaxSleep ELSE left
          /\ Goto(k, "sleep")
          /\ UNCHANGED life
  /\ UNCHANGED <<kind, size, tickers, left, mono, unseen, adjusts>>

\* case <-ctx.Done() of sleep.
SleepCancelled(k) ==
  /\ g[k] = "sleep" /\ ctx \in done
  /\ CloseChannel(k)
  /\ UNCHANGED <<kind, size, tickers, clock>>

\* Mutant: the tick is sent after the longest sleep, too.
SleepOverOnce(k) ==
  /\ g[k] = "sleep" /\ timer = 0
  /\ Goto(k, "send")
  /\ UNCHANGED <<kind, size, life, tickers, clock>>

\* case <-t.C of sleep.
SleepOver(k) ==
  /\ g[k] = "sleep" /\ timer = 0
  /\ Goto(k, IF long THEN "loop" ELSE "send")
  /\ UNCHANGED <<kind, size, life, tickers, clock>>

\* A unit of time passes.
Pass ==
  /\ IsScheduler
  /\ timer > 0 \/ left > -MaxLag
  /\ timer' = IF timer > 0 THEN timer - 1 ELSE 0
  /\ left' = IF left > -MaxLag THEN left - 1 ELSE left
  /\ UNCHANGED <<kind, size, life, g, tickers, long, mono, unseen, setBack, adjusts>>

\* The wall clock is set back or forward.  Timers do not notice, nor does
\* time.Until of a time with a monotonic reading.
Adjust(by) ==
  /\ IsScheduler /\ adjusts < MaxAdjust
  /\ left' = IF mono THEN left ELSE left + by
  /\ unseen' = IF mono THEN unseen + by ELSE unseen
  /\ setBack' = (setBack \/ by > 0)
  /\ adjusts' = adjusts + 1
  /\ UNCHANGED <<kind, size, life, g, tickers, timer, long, mono>>

-----------------------------------------------------------------------------
(* Ticker.ticker and VarTicker.ticker *)

\* Nothing to do without a duration; otherwise the timer or ticker is made.
First(k) ==
  /\ ~IsScheduler /\ g[k] = "first"
  /\ IF size = 0
     THEN Goto(k, "ended") /\ UNCHANGED tickers
     ELSE /\ Goto(k, "wait")
          /\ tt' = IF kind = "ticker" THEN k ELSE tt
          /\ armed' = [armed EXCEPT ![k] = TRUE]
          /\ phase' = [phase EXCEPT ![k] = size]
          /\ UNCHANGED fired
  /\ UNCHANGED <<kind, size, life, clock>>

\* A time.Ticker keeps one value and goes on, a time.Timer fires once.
Fire(k) ==
  /\ armed[k] /\ ~fired[k]
  /\ fired' = [fired EXCEPT ![k] = TRUE]
  /\ armed' = [armed EXCEPT ![k] = phase[k] = 1]
  /\ UNCHANGED <<kind, size, life, g, tt, phase, clock>>

\* The goroutine of a Ticker reads the field t in every turn.
Mine(k) == IF kind = "ticker" THEN tt ELSE k

WaitFired(k) ==
  /\ g[k] = "wait" /\ fired[Mine(k)]
  /\ fired' = [fired EXCEPT ![Mine(k)] = FALSE]
  /\ Goto(k, "send")
  /\ UNCHANGED <<kind, size, life, tt, armed, phase, clock>>

WaitCancelled(k) ==
  /\ g[k] = "wait" /\ ctx \in done
  /\ Goto(k, "lock")
  /\ UNCHANGED <<kind, size, life, tickers, clock>>

\* Mutant: ctx is reset without the lock.
ResetUnlocked(k) ==
  /\ g[k] = "lock"
  /\ ctx' = 0
  /\ Goto(k, IF kind = "ticker" THEN "stop" ELSE "ended")
  /\ armed' = IF kind = "ticker" THEN armed ELSE [armed EXCEPT ![k] = FALSE]
  /\ UNCHANGED <<kind, size, done, gen, starter, pc, closed, reading, tt, fired, phase,
                 clock>>

\* t.ctx = nil under the lock.  A VarTicker then stops a timer of its own.
Reset(k) ==
  /\ g[k] = "lock" /\ Holders = {}
  /\ ctx' = 0
  /\ Goto(k, IF kind = "ticker" THEN "stop" ELSE "ended")
  /\ armed' = IF kind = "ticker" THEN armed ELSE [armed EXCEPT ![k] = FALSE]
  /\ UNCHANGED <<kind, size, done, gen, starter, pc, closed, reading, tt, fired, phase,
                 clock>>

\* t.t.Stop() of a Ticker, after the lock: whatever is in t now.
Stop(k) ==
  /\ g[k] = "stop"
  /\ armed' = [armed EXCEPT ![tt] = FALSE]
  /\ Goto(k, "ended")
  /\ UNCHANGED <<kind, size, life, tt, fired, phase, clock>>

-----------------------------------------------------------------------------
\* Mutant: the timer is not reset for the next duration.
AfterSendNoReset(k) ==
  /\ Goto(k, IF IsScheduler THEN "next" ELSE "wait")
  /\ phase' = [phase EXCEPT ![k] = IF @ > 1 THEN @ - 1 ELSE @]
  /\ UNCHANGED armed

\* After s.c <- n or t.c <- tm: the next turn.  A VarTicker that has more
\* than one duration left goes on to the next, and resets the timer or makes
\* the ticker for it.
AfterSend(k) ==
  /\ Goto(k, IF IsScheduler THEN "next" ELSE "wait")
  /\ phase' = [phase EXCEPT ![k] = IF @ > 1 THEN @ - 1 ELSE @]
  /\ armed' = IF phase[k] > 1 THEN [armed EXCEPT ![k] = TRUE] ELSE armed

\* The consumer reads what the goroutine sends.
Receive(k) ==
  /\ g[k] = "send" /\ reading
  /\ AfterSend(k)
  /\ UNCHANGED <<kind, size, life, tt, fired, clock>>

Goroutine(k) ==
  \/ IntervalNext(k) \/ Loop(k) \/ SleepCancelled(k) \/ SleepOver(k)
  \/ First(k) \/ WaitFired(k) \/ WaitCancelled(k) \/ Reset(k) \/ Stop(k)

Next ==
  \/ CallStart \/ Start \/ Quit \/ Pass
  \/ \E k \in Ks : Cancel(k) \/ Fire(k) \/ ManualNext(k) \/ Receive(k)
  \/ \E k \in Ks : Goroutine(k)
  \/ \E p \in Callers : TickAt(p) \/ ReceiveTickAt(p) \/ SendOnClosed(p)
  \/ \E by \in {-1, 1} : Adjust(by)

(***************************************************************************)
(* Goroutines are scheduled, time passes, timers fire, and a consumer that *)
(* has not quit reads.  A select chooses at random among what is ready, so *)
(* that a context that is done is noticed even if a timer fires again and  *)
(* again.  Nobody owes a Start, a cancellation or a manual tick.           *)
(***************************************************************************)
Fairness ==
  /\ WF_vars(Start) /\ WF_vars(Pass)
  /\ \A k \in Ks :
       /\ WF_vars(Goroutine(k)) /\ WF_vars(Receive(k)) /\ WF_vars(Fire(k))
       /\ SF_vars(SleepCancelled(k)) /\ SF_vars(WaitCancelled(k))
  /\ \A p \in Callers : WF_vars(ReceiveTickAt(p) \/ SendOnClosed(p))

Spec == Init /\ [][Next]_vars /\ Fairness

-----------------------------------------------------------------------------
Busy(k) == g[k] \notin {"none", "stop", "ended"}

(***************************************************************************)
(* A goroutine reads the field ctx without the lock in every turn.  It     *)
(* always finds the context it was started with: never nil, and never that *)
(* of a later Start.  Hence there is never more than one in its loop.      *)
(***************************************************************************)
LoopHasContext == \A k \in Ks : Busy(k) => ctx = k

(***************************************************************************)
(* While a TickAt that found the source started is sending, the context is *)
(* not taken away and the source is not started again.                     *)
(***************************************************************************)
SenderKeepsContext ==
  [][\A p \in Callers : pc[p] = "sending" /\ pc'[p] = "sending" => ctx' = ctx]_vars

\* The wall clock has not reached the next tick.
Early == left + unseen > 0

Ticks(k) == IsScheduler /\ g[k] # "send" /\ g'[k] = "send"

(***************************************************************************)
(* "the duration is recalculated ... to ensure that the ticker is in sync  *)
(* with the wall clock" (scheduler.go:128): however the clock was set      *)
(* during the long sleeps, a tick is early only if it was set back in the  *)
(* last one.  A manual tick with a monotonic reading is never early by the *)
(* monotonic clock, whatever happens to the other.                         *)
(***************************************************************************)
NotEarly ==
  [][\A k \in Ks : Ticks(k) => IF mono THEN left <= 0 ELSE ~Early \/ setBack]_vars

(***************************************************************************)
(* What that comment promises, for every next tick: it does not say that   *)
(* the wall clock is not looked at for some.                               *)
(***************************************************************************)
InSync ==
  [][\A k \in Ks : Ticks(k) => ~Early \/ setBack]_vars

(***************************************************************************)
(* "Channel is closed when the context is canceled" (scheduler.go:116),    *)
(* and a Ticker may be started again: a cancelled goroutine ends, unless   *)
(* the consumer has quit, on which the goroutine or, with the lock held, a *)
(* TickAt may be waiting, or a ManualTicker waits for its next tick.       *)
(***************************************************************************)
CancelEnds ==
  \A k \in Ks :
    k \in done ~> \/ g[k] = "ended" /\ (IsScheduler => closed)
                  \/ ~reading
                  \/ kind = "manual" /\ g[k] \in {"first", "next"}

(***************************************************************************)
(* A source that is started ticks again and again until it is cancelled or *)
(* its consumer quits.  The exception is a Ticker that was started again   *)
(* so soon that the goroutine of the last Start stops the new time.Ticker. *)
(***************************************************************************)
TicksFlow ==
  \A k \in Ks :
    g[k] \in {"sleep", "wait"} ~> \/ g[k] = "send" \/ k \in done \/ ~reading
                                  \/ kind = "ticker" /\ k > 1 /\ ~armed[k]
=============================================================================
