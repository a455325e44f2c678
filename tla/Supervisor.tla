----------------------------- MODULE Supervisor -----------------------------
(***************************************************************************)
(* The Supervisor of supervisor/supervisor.go.  Watch collects services,   *)
(* Start starts them one after the other under one cancellable context,    *)
(* and the goroutine serviceMonitor receives from all their Wait()         *)
(* channels until every one is closed.  The services run concurrently with *)
(* Start and with the monitor; all channels are unbuffered, so a service   *)
(* that has an error to report waits until somebody receives it.           *)
(***************************************************************************)
EXTENDS Naturals, Sequences, Functions

CONSTANTS
  Services,   \* the services an application passes to Watch
  SysMons,    \* the sysmon services Watch adds, one per call
  NoErr,      \* the nil error
  MaxSends,   \* bound: how many values one service sends on its channel
  MaxArgs     \* bound: how many services one call of Watch is given

ASSUME InstancesAssumption ==
  /\ Services \cap SysMons = {}
  /\ NoErr \notin Services \cup SysMons
  /\ MaxSends \in Nat
  /\ MaxArgs \in Nat

Instances == Services \cup SysMons

VARIABLES
  services,   \* s.services in the order of Watch, until Start has returned
  parent,     \* the context given to Start is done
  started,    \* s.ctx # nil
  cancelled,  \* s.ctxCancel was called
  start,      \* the caller of Start: "idle", "starting", "ok", "failed"
  next,       \* index in services of the next service to start
  svc,        \* state of each service
  msg,        \* the value a service is sending on its Wait() channel
  sends,      \* how many values a service has sent or is sending
  mon,        \* serviceMonitor: "off", "select", "handle", "report", "close", "done"
  live,       \* s.services as serviceMonitor prunes it
  got,        \* what reflect.Select returned: service, value, channel open
  err,        \* serviceMonitor's err
  waitCh,     \* s.waitCh: "open" or "closed"
  errlog,     \* history: the errors serviceMonitor received, in order
  out         \* history: the errors received from s.waitCh

svcVars == <<svc, msg, sends>>
monVars == <<mon, live, got, err, errlog>>
vars == <<services, parent, started, cancelled, start, next, svcVars, monVars,
          waitCh, out>>

SvcStates == {"new", "failed", "running", "sending", "closed"}

\* An error is identified with the service it comes from.
Msg == Instances \cup {NoErr}

TypeOK ==
  /\ services \in Seq(Instances)
  /\ parent \in BOOLEAN
  /\ started \in BOOLEAN
  /\ cancelled \in BOOLEAN
  /\ start \in {"idle", "starting", "ok", "failed"}
  /\ next \in Nat \ {0}
  /\ svc \in [Instances -> SvcStates]
  /\ msg \in [Instances -> Msg]
  /\ sends \in [Instances -> Nat]
  /\ mon \in {"off", "select", "handle", "report", "close", "done"}
  /\ live \subseteq Instances
  /\ got \in [n : Msg, v : Msg, ok : BOOLEAN]
  /\ err \in Msg
  /\ waitCh \in {"open", "closed"}
  /\ errlog \in Seq(Instances)
  /\ out \in Seq(Instances)

\* Mutant: Start builds on context.Background() instead of its argument.
CtxDoneDetached == cancelled

\* s.ctx is derived from the caller's context.
CtxDone == parent \/ cancelled

Init ==
  /\ services = <<>>
  /\ parent = FALSE
  /\ started = FALSE
  /\ cancelled = FALSE
  /\ start = "idle"
  /\ next = 1
  /\ svc = [s \in Instances |-> "new"]
  /\ msg = [s \in Instances |-> NoErr]
  /\ sends = [s \in Instances |-> 0]
  /\ mon = "off"
  /\ live = {}
  /\ got = [n |-> NoErr, v |-> NoErr, ok |-> FALSE]
  /\ err = NoErr
  /\ waitCh = "open"
  /\ errlog = <<>>
  /\ out = <<>>

-----------------------------------------------------------------------------
(***************************************************************************)
(* Watch(q, m): the services of q, not watched so far, then a new sysmon.  *)
(* Once started, Watch panics and changes nothing.                         *)
(***************************************************************************)
Watch(q, m) ==
  /\ ~started
  /\ m \notin Range(services)
  /\ Range(q) \cap Range(services) = {}
  /\ services' = services \o Append(q, m)
  /\ UNCHANGED <<parent, started, cancelled, start, next, svcVars, monVars,
                 waitCh, out>>

\* The argument lists of Watch: any services, none of them twice.
Arguments ==
  {q \in UNION {[1..n -> Services] : n \in 0..MaxArgs} : IsInjective(q)}

(***************************************************************************)
(* Start: a second call, or a nil context, returns an error and changes    *)
(* nothing.  The loop over s.services is one StartOne or StartFails per    *)
(* service, because services already started run meanwhile.                *)
(***************************************************************************)
Start ==
  /\ ~started
  /\ started' = TRUE
  /\ start' = "starting"
  /\ UNCHANGED <<services, parent, cancelled, next, svcVars, monVars, waitCh,
                 out>>

\* sysmon is external: it runs at the debug level and stops at once below.
Starts(s) == IF s \in SysMons THEN {"running", "closed"} ELSE {"running"}

StartOne ==
  /\ start = "starting"
  /\ next \in DOMAIN services
  /\ \E state \in Starts(services[next]) :
       svc' = [svc EXCEPT ![services[next]] = state]
  /\ next' = next + 1
  /\ UNCHANGED <<services, parent, started, cancelled, start, msg, sends,
                 monVars, waitCh, out>>

\* srv.Start returned an error: cancel, close(s.waitCh), return the error.
StartFails ==
  /\ start = "starting"
  /\ next \in DOMAIN services
  /\ services[next] \in Services
  /\ svc' = [svc EXCEPT ![services[next]] = "failed"]
  /\ cancelled' = TRUE
  /\ waitCh' = "closed"
  /\ start' = "failed"
  /\ UNCHANGED <<services, parent, started, next, msg, sends, monVars, out>>

\* The loop is over: go s.serviceMonitor(), return nil.
StartReturns ==
  /\ start = "starting"
  /\ next \notin DOMAIN services
  /\ start' = "ok"
  /\ mon' = "select"
  /\ live' = Range(services)
  /\ UNCHANGED <<services, parent, started, cancelled, next, svcVars, got, err,
                 errlog, waitCh, out>>

ParentCancel ==
  /\ ~parent
  /\ parent' = TRUE
  /\ UNCHANGED <<services, started, cancelled, start, next, svcVars, monVars,
                 waitCh, out>>

-----------------------------------------------------------------------------
(***************************************************************************)
(* The services, as the Service interface describes them: a running        *)
(* service may begin to send an error (or nil) on its channel, and it may  *)
(* stop, which closes the channel.                                         *)
(***************************************************************************)
SvcSend(s, v) ==
  /\ svc[s] = "running"
  /\ s \in Services
  /\ sends[s] < MaxSends
  /\ svc' = [svc EXCEPT ![s] = "sending"]
  /\ msg' = [msg EXCEPT ![s] = v]
  /\ sends' = [sends EXCEPT ![s] = @ + 1]
  /\ UNCHANGED <<services, parent, started, cancelled, start, next, monVars,
                 waitCh, out>>

\* A service may finish by itself; sysmon runs until its context is done.
SvcStop(s) ==
  /\ svc[s] = "running"
  /\ s \in Services \/ CtxDone
  /\ svc' = [svc EXCEPT ![s] = "closed"]
  /\ UNCHANGED <<services, parent, started, cancelled, start, next, msg, sends,
                 monVars, waitCh, out>>

-----------------------------------------------------------------------------
\* reflect.Select takes any service whose channel is ready.
MonSelect(s) ==
  /\ mon = "select"
  /\ s \in live
  /\ \/ /\ svc[s] = "sending"
        /\ got' = [n |-> s, v |-> msg[s], ok |-> TRUE]
        /\ svc' = [svc EXCEPT ![s] = "running"]
     \/ /\ svc[s] = "closed"
        /\ got' = [n |-> s, v |-> NoErr, ok |-> FALSE]
        /\ UNCHANGED svc
  /\ mon' = "handle"
  /\ UNCHANGED <<services, parent, started, cancelled, start, next, msg, sends,
                 live, err, errlog, waitCh, out>>

\* Mutant: every error replaces the one before.
MonErrorLast ==
  /\ mon = "handle"
  /\ got.v # NoErr
  /\ err' = got.v
  /\ errlog' = Append(errlog, got.v)
  /\ cancelled' = TRUE
  /\ mon' = "select"
  /\ UNCHANGED <<services, parent, started, start, next, svcVars, live, got,
                 waitCh, out>>

\* Mutant: the call of s.ctxCancel() is missing.
MonErrorNoCancel ==
  /\ mon = "handle"
  /\ got.v # NoErr
  /\ err' = IF err = NoErr THEN got.v ELSE err
  /\ errlog' = Append(errlog, got.v)
  /\ mon' = "select"
  /\ UNCHANGED <<services, parent, started, cancelled, start, next, svcVars,
                 live, got, waitCh, out>>

\* An error: remember the first one, cancel the context of all services.
MonError ==
  /\ mon = "handle"
  /\ got.v # NoErr
  /\ err' = IF err = NoErr THEN got.v ELSE err
  /\ errlog' = Append(errlog, got.v)
  /\ cancelled' = TRUE
  /\ mon' = "select"
  /\ UNCHANGED <<services, parent, started, start, next, svcVars, live, got,
                 waitCh, out>>

\* nil: the service is forgotten if its channel is closed.
MonStopped ==
  /\ mon = "handle"
  /\ got.v = NoErr
  /\ live' = IF got.ok THEN live ELSE live \ {got.n}
  /\ mon' = "select"
  /\ UNCHANGED <<services, parent, started, cancelled, start, next, svcVars,
                 got, err, errlog, waitCh, out>>

\* Mutant: the loop also ends at the first error.
MonLeaveEarly ==
  /\ mon = "select"
  /\ live = {} \/ err # NoErr
  /\ mon' = IF err = NoErr THEN "close" ELSE "report"
  /\ UNCHANGED <<services, parent, started, cancelled, start, next, svcVars,
                 live, got, err, errlog, waitCh, out>>

\* No service is left: send err if there is one, then close s.waitCh.
MonLeave ==
  /\ mon = "select"
  /\ live = {}
  /\ mon' = IF err = NoErr THEN "close" ELSE "report"
  /\ UNCHANGED <<services, parent, started, cancelled, start, next, svcVars,
                 live, got, err, errlog, waitCh, out>>

\* s.waitCh <- err meets the application's receive from Wait().
MonReport ==
  /\ mon = "report"
  /\ out' = Append(out, err)
  /\ mon' = "close"
  /\ UNCHANGED <<services, parent, started, cancelled, start, next, svcVars,
                 live, got, err, errlog, waitCh>>

MonClose ==
  /\ mon = "close"
  /\ waitCh' = "closed"
  /\ mon' = "done"
  /\ UNCHANGED <<services, parent, started, cancelled, start, next, svcVars,
                 live, got, err, errlog, out>>

-----------------------------------------------------------------------------
Monitor ==
  \/ \E s \in Instances : MonSelect(s)
  \/ MonError
  \/ MonStopped
  \/ MonLeave
  \/ MonReport
  \/ MonClose

Next ==
  \/ \E q \in Arguments, m \in SysMons : Watch(q, m)
  \/ Start
  \/ StartOne
  \/ StartFails
  \/ StartReturns
  \/ ParentCancel
  \/ \E s \in Instances : SvcSend(s, s) \/ SvcSend(s, NoErr)
  \/ \E s \in Instances : SvcStop(s)
  \/ Monitor

Spec == Init /\ [][Next]_vars

(***************************************************************************)
(* Goroutines are scheduled; the application receives from Wait(); a       *)
(* service whose context is done stops.  Nothing obliges a service to      *)
(* stop, or a context to be cancelled, otherwise.                          *)
(***************************************************************************)
Fairness ==
  /\ WF_vars(StartOne \/ StartFails \/ StartReturns)
  /\ WF_vars(Monitor)
  /\ \A s \in Instances : WF_vars(CtxDone /\ SvcStop(s))

FairSpec == Spec /\ Fairness

-----------------------------------------------------------------------------
Watched == Range(services)

Working(s) == svc[s] \in {"running", "sending"}

(***************************************************************************)
(* After a successful Start, the channel of Supervisor.Wait() is closed    *)
(* only when the channel of every watched service is closed, whatever the  *)
(* order in which serviceMonitor receives errors, nils and closings.       *)
(***************************************************************************)
ClosedMeansStopped ==
  waitCh = "closed" /\ start = "ok" => \A s \in Watched : svc[s] = "closed"

(***************************************************************************)
(* "If multiple service crash, only the first error is returned": the      *)
(* application receives exactly the first error serviceMonitor received,   *)
(* and receives nothing if there was none.                                 *)
(***************************************************************************)
FirstError ==
  /\ out # <<>> => errlog # <<>> /\ out = <<errlog[1]>>
  /\ mon = "done" /\ errlog # <<>> => out # <<>>

(***************************************************************************)
(* "If any of the managed services fail, all other services are stopped":  *)
(* once the supervisor runs, an error a service reports leads to a state   *)
(* in which every service has stopped, the application was given an error  *)
(* and Wait() is closed.  Cancelling the context passed to Start does the  *)
(* same but for the error, whenever the cancellation comes and whatever    *)
(* the services are sending.  Wait: "When all services are stopped, the    *)
(* channel will be closed", also when they stop by themselves; all means   *)
(* the sysmons that Watch adds, too, which may keep the channel open.      *)
(***************************************************************************)
RunningOrNone ==
  /\ \A s \in Services :
       (start = "ok" /\ svc[s] = "sending" /\ msg[s] # NoErr)
         ~> (waitCh = "closed" /\ out # <<>> /\ \A t \in Watched : ~Working(t))
  /\ (parent /\ start = "ok")
       ~> (waitCh = "closed" /\ \A t \in Watched : ~Working(t))
  /\ (start = "ok" /\ \A t \in Watched : svc[t] = "closed") ~> (waitCh = "closed")

(***************************************************************************)
(* The supervisor is itself a Service: errors are handed over before its   *)
(* channel is closed, and it is closed when none of the watched services   *)
(* works any more.                                                         *)
(***************************************************************************)
Phase ==
  CASE start \in {"idle", "starting"} -> "new"
    [] start = "ok" -> "running"
    [] start = "failed" -> "failed"

Contract == INSTANCE ServiceContract WITH
              phase <- Phase,
              busy <- \E s \in Instances : Working(s),
              handed <- Len(out)

ImplementsService == Contract!Spec

-----------------------------------------------------------------------------
(***************************************************************************)
(* What the comments of supervisor.go say and Start does not keep.         *)
(***************************************************************************)

\* Supervisor: "This ensures that all services are running or none": when
\* Start fails, the services started before are stopped in the end.
FailedStartStopsAll ==
  (start = "failed") ~> (\A s \in Watched : ~Working(s))
=============================================================================
