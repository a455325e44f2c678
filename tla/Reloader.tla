------------------------------ MODULE Reloader ------------------------------
(***************************************************************************)
(* The Reloader of supervisor/reloader.go: a Service that runs the latest  *)
(* service a factory function has sent it.  Start spawns two goroutines.   *)
(* serviceFactoryRoutine runs the factory and handles its error;           *)
(* serviceReloaderRoutine receives from the channel of the current service *)
(* and from the factory, and replaces one service by the next.  They share *)
(* r.mu, the cancel functions and serviceErr.  The factory and the         *)
(* services are the application's: a service may send several values on    *)
(* its channel, nil among them, and works on until it closes the channel.  *)
(* The reloader receives from a service only once: whatever arrives, it    *)
(* takes for the end of the service.                                       *)
(***************************************************************************)
EXTENDS Naturals, Sequences

CONSTANTS
  Services,   \* the services the factory can create, each sent at most once
  Dummy,      \* dummyService, current until the factory has sent one
  Factory,    \* stands for the error returned by the factory function
  NoErr,      \* the nil error
  MaxSends    \* bound: how many values one service sends on its channel

ASSUME NamesAssumption ==
  /\ Dummy \notin Services
  /\ Factory \notin Services \cup {Dummy}
  /\ NoErr \notin Services \cup {Dummy, Factory}
  /\ MaxSends \in Nat

All == Services \cup {Dummy}

\* An error is identified with the service, or the factory, it comes from.
Errors == All \cup {Factory}

VARIABLES
  start,          \* Start: "idle" or "running"
  parent,         \* r.ctx is done
  mu,             \* r.mu is held by the exiting serviceReloaderRoutine
  factory,        \* serviceFactoryRoutine: see FactoryStates
  factoryCancel,  \* r.factoryCancel: "unset", "live" or "called"
  sent,           \* the services the factory has sent or is sending
  offer,          \* the service in "serviceCh <- service" (or Dummy)
  chClosed,       \* r.factoryCh was closed
  rel,            \* serviceReloaderRoutine: see RelStates
  cur,            \* r.service
  pending,        \* reloadService's argument
  stopped,        \* the services whose serviceCancel was called
  svc,            \* state of each service
  msg,            \* the value a service is sending on its Wait() channel
  sends,          \* how many values a service has sent or is sending
  serviceErr,     \* r.serviceErr, as the set of the errors appended to it
  waitCh,         \* r.waitCh: "open" or "closed"
  out             \* history: what was received from r.waitCh

facVars == <<factory, sent, offer, chClosed>>
relVars == <<rel, cur, pending>>
svcVars == <<svc, msg, sends>>
vars == <<start, parent, mu, facVars, factoryCancel, relVars, stopped, svcVars,
          serviceErr, waitCh, out>>

FactoryStates == {"off", "init", "run", "sending", "failing", "done"}
RelStates == {"off", "select", "cancel", "await", "swap", "start", "exit",
              "report", "close", "done", "panicked"}
SvcStates == {"new", "failed", "running", "sending", "closed"}

TypeOK ==
  /\ start \in {"idle", "running"}
  /\ parent \in BOOLEAN
  /\ mu \in BOOLEAN
  /\ factory \in FactoryStates
  /\ factoryCancel \in {"unset", "live", "called"}
  /\ sent \subseteq Services
  /\ offer \in All
  /\ chClosed \in BOOLEAN
  /\ rel \in RelStates
  /\ cur \in All
  /\ pending \in All
  /\ stopped \subseteq All
  /\ svc \in [All -> SvcStates]
  /\ msg \in [All -> All \cup {NoErr}]
  /\ sends \in [All -> Nat]
  /\ serviceErr \subseteq Errors
  /\ waitCh \in {"open", "closed"}
  /\ out \in Seq((SUBSET Errors) \ {{}})

Init ==
  /\ start = "idle"
  /\ parent = FALSE
  /\ mu = FALSE
  /\ factory = "off"
  /\ factoryCancel = "unset"
  /\ sent = {}
  /\ offer = Dummy
  /\ chClosed = FALSE
  /\ rel = "off"
  /\ cur = Dummy
  /\ pending = Dummy
  /\ stopped = {}
  /\ svc = [s \in All |-> "new"]
  /\ msg = [s \in All |-> NoErr]
  /\ sends = [s \in All |-> 0]
  /\ serviceErr = {}
  /\ waitCh = "open"
  /\ out = <<>>

\* Mutant: reloadService derives the context from context.Background().
CtxDoneDetached(s) == s \in stopped

\* Every service context is derived from r.ctx.
CtxDone(s) == parent \/ s \in stopped

\* A panic in a goroutine ends the process.
Alive == rel # "panicked"

FactoryCtxDone == parent \/ factoryCancel = "called"

-----------------------------------------------------------------------------
\* A second call of Start, or a nil context, returns an error and changes
\* nothing.
Start ==
  /\ start = "idle"
  /\ start' = "running"
  /\ svc' = [svc EXCEPT ![Dummy] = "running"]
  /\ factory' = "init"
  /\ rel' = "select"
  /\ UNCHANGED <<parent, mu, factoryCancel, sent, offer, chClosed, cur, pending,
                 stopped, msg, sends, serviceErr, waitCh, out>>

ParentCancel ==
  /\ Alive
  /\ ~parent
  /\ parent' = TRUE
  /\ UNCHANGED <<start, mu, facVars, factoryCancel, relVars, stopped, svcVars,
                 serviceErr, waitCh, out>>

-----------------------------------------------------------------------------
(***************************************************************************)
(* serviceFactoryRoutine, and the steps the factory function may take.     *)
(***************************************************************************)
FactoryInit ==
  /\ Alive
  /\ factory = "init"
  /\ ~mu
  /\ factoryCancel' = "live"
  /\ factory' = "run"
  /\ UNCHANGED <<start, parent, mu, sent, offer, chClosed, relVars, stopped,
                 svcVars, serviceErr, waitCh, out>>

FactoryOffer(s) ==
  /\ Alive
  /\ factory = "run"
  /\ ~chClosed
  /\ s \notin sent
  /\ sent' = sent \cup {s}
  /\ offer' = s
  /\ factory' = "sending"
  /\ UNCHANGED <<start, parent, mu, factoryCancel, chClosed, relVars, stopped,
                 svcVars, serviceErr, waitCh, out>>

\* A factory that selects on its context gives up sending.
FactoryGiveUp ==
  /\ Alive
  /\ factory = "sending"
  /\ FactoryCtxDone
  /\ factory' = "run"
  /\ UNCHANGED <<start, parent, mu, factoryCancel, sent, offer, chClosed,
                 relVars, stopped, svcVars, serviceErr, waitCh, out>>

FactoryClose ==
  /\ Alive
  /\ factory = "run"
  /\ ~chClosed
  /\ chClosed' = TRUE
  /\ UNCHANGED <<start, parent, mu, factory, factoryCancel, sent, offer,
                 relVars, stopped, svcVars, serviceErr, waitCh, out>>

FactoryReturns ==
  /\ Alive
  /\ factory = "run"
  /\ factory' \in {"done", "failing"}
  /\ UNCHANGED <<start, parent, mu, factoryCancel, sent, offer, chClosed,
                 relVars, stopped, svcVars, serviceErr, waitCh, out>>

\* Mutant: the call of r.serviceCancel() is missing.
FactoryFailsNoCancel ==
  /\ Alive
  /\ factory = "failing"
  /\ ~mu
  /\ serviceErr' = serviceErr \cup {Factory}
  /\ factoryCancel' = "called"
  /\ factory' = "done"
  /\ UNCHANGED <<start, parent, mu, sent, offer, chClosed, relVars, stopped,
                 svcVars, waitCh, out>>

\* The factory returned an error.  r.serviceCancel belongs to the service
\* that is current now.
FactoryFails ==
  /\ Alive
  /\ factory = "failing"
  /\ ~mu
  /\ serviceErr' = serviceErr \cup {Factory}
  /\ factoryCancel' = "called"
  /\ stopped' = stopped \cup {cur}
  /\ factory' = "done"
  /\ UNCHANGED <<start, parent, mu, sent, offer, chClosed, relVars, svcVars, waitCh,
                 out>>

-----------------------------------------------------------------------------
(***************************************************************************)
(* The services, as the Service interface describes them: a running one    *)
(* may begin to send an error (or nil), and it may stop, which closes its  *)
(* channel.  Whoever receives leaves it running.                           *)
(***************************************************************************)
SvcSend(s, v) ==
  /\ Alive
  /\ s \in Services
  /\ svc[s] = "running"
  /\ sends[s] < MaxSends
  /\ svc' = [svc EXCEPT ![s] = "sending"]
  /\ msg' = [msg EXCEPT ![s] = v]
  /\ sends' = [sends EXCEPT ![s] = @ + 1]
  /\ UNCHANGED <<start, parent, mu, facVars, factoryCancel, relVars, stopped,
                 serviceErr, waitCh, out>>

\* A service may finish by itself; dummyService waits for its context.
SvcStop(s) ==
  /\ Alive
  /\ svc[s] = "running"
  /\ s \in Services \/ CtxDone(s)
  /\ svc' = [svc EXCEPT ![s] = "closed"]
  /\ UNCHANGED <<start, parent, mu, facVars, factoryCancel, relVars, stopped, msg,
                 sends, serviceErr, waitCh, out>>

-----------------------------------------------------------------------------
(***************************************************************************)
(* A receive from the channel of the current service: an error it sends,   *)
(* or nil, which it sends or which the closed channel yields.              *)
(***************************************************************************)
ReceiveError ==
  /\ svc[cur] = "sending"
  /\ msg[cur] # NoErr
  /\ svc' = [svc EXCEPT ![cur] = "running"]
  /\ serviceErr' = serviceErr \cup {msg[cur]}

ReceiveNil ==
  /\ \/ /\ svc[cur] = "sending"
        /\ msg[cur] = NoErr
        /\ svc' = [svc EXCEPT ![cur] = "running"]
     \/ /\ svc[cur] = "closed"
        /\ UNCHANGED svc
  /\ UNCHANGED serviceErr

\* err := <-r.serviceWaitCh, with an error: append it, return.
SelectError ==
  /\ rel = "select"
  /\ ReceiveError
  /\ rel' = "exit"
  /\ UNCHANGED <<start, parent, mu, facVars, factoryCancel, cur, pending,
                 stopped, msg, sends, waitCh, out>>

\* Mutant: the loop also returns when r.ctx is done.
SelectStoppedOrCancelled ==
  /\ rel = "select"
  /\ ReceiveNil \/ (parent /\ UNCHANGED <<svc, serviceErr>>)
  /\ rel' = "exit"
  /\ UNCHANGED <<start, parent, mu, facVars, factoryCancel, cur, pending,
                 stopped, msg, sends, waitCh, out>>

\* nil from the channel of the current service, closed or not: return.
SelectStopped ==
  /\ rel = "select"
  /\ ReceiveNil
  /\ rel' = "exit"
  /\ UNCHANGED <<start, parent, mu, facVars, factoryCancel, cur, pending,
                 stopped, msg, sends, waitCh, out>>

\* A service from the factory: the body of reloadService follows.
SelectService ==
  /\ rel = "select"
  /\ factory = "sending"
  /\ pending' = offer
  /\ factory' = "run"
  /\ rel' = "cancel"
  /\ UNCHANGED <<start, parent, mu, factoryCancel, sent, offer, chClosed, cur,
                 stopped, svcVars, serviceErr, waitCh, out>>

\* The factory closed its channel: return.
SelectClosed ==
  /\ rel = "select"
  /\ chClosed
  /\ rel' = "exit"
  /\ UNCHANGED <<start, parent, mu, facVars, factoryCancel, cur, pending,
                 stopped, svcVars, serviceErr, waitCh, out>>

(***************************************************************************)
(* reloadService: cancel the current service, wait for it, make the new    *)
(* one current, start it.  r.serviceCancel is never nil here.              *)
(***************************************************************************)
ReloadCancel ==
  /\ rel = "cancel"
  /\ stopped' = stopped \cup {cur}
  /\ rel' = "await"
  /\ UNCHANGED <<start, parent, mu, facVars, factoryCancel, cur, pending, svcVars,
                 serviceErr, waitCh, out>>

\* Mutant: the old service is cancelled but not waited for.
ReloadAwaitSkipped ==
  /\ rel = "await"
  /\ rel' = "swap"
  /\ UNCHANGED <<start, parent, mu, facVars, factoryCancel, cur, pending,
                 stopped, svcVars, serviceErr, waitCh, out>>

\* <-r.service.Wait(): nil, and the old service counts as stopped, or an
\* error, which ends the reloader.
ReloadAwait ==
  /\ rel = "await"
  /\ \/ ReceiveNil /\ rel' = "swap"
     \/ ReceiveError /\ rel' = "exit"
  /\ UNCHANGED <<start, parent, mu, facVars, factoryCancel, cur, pending,
                 stopped, msg, sends, waitCh, out>>

\* Under r.mu: a fresh context and the new service.
ReloadSwap ==
  /\ rel = "swap"
  /\ ~mu
  /\ cur' = pending
  /\ rel' = "start"
  /\ UNCHANGED <<start, parent, mu, facVars, factoryCancel, pending, stopped,
                 svcVars, serviceErr, waitCh, out>>

ReloadStart ==
  /\ rel = "start"
  /\ \/ /\ svc' = [svc EXCEPT ![cur] = "running"]
        /\ rel' = "select"
        /\ UNCHANGED serviceErr
     \/ /\ svc' = [svc EXCEPT ![cur] = "failed"]
        /\ serviceErr' = serviceErr \cup {cur}
        /\ rel' = "exit"
  /\ UNCHANGED <<start, parent, mu, facVars, factoryCancel, cur, pending,
                 stopped, msg, sends, waitCh, out>>

(***************************************************************************)
(* The deferred function: lock r.mu, cancel the factory and the service.   *)
(* r.factoryCancel is set by the other goroutine; while it is nil, calling *)
(* it panics, which ends the process.                                      *)
(***************************************************************************)
Exit ==
  /\ rel = "exit"
  /\ ~mu
  /\ IF factoryCancel = "unset"
     THEN /\ rel' = "panicked"
          /\ UNCHANGED <<mu, factoryCancel, stopped>>
     ELSE /\ mu' = TRUE
          /\ factoryCancel' = "called"
          /\ stopped' = stopped \cup {cur}
          /\ rel' = IF serviceErr = {} THEN "close" ELSE "report"
  /\ UNCHANGED <<start, parent, facVars, cur, pending, svcVars, serviceErr, waitCh,
                 out>>

\* r.waitCh <- r.serviceErr, still under r.mu, meets a receive from Wait().
ExitReport ==
  /\ rel = "report"
  /\ out' = Append(out, serviceErr)
  /\ rel' = "close"
  /\ UNCHANGED <<start, parent, mu, facVars, factoryCancel, cur, pending,
                 stopped, svcVars, serviceErr, waitCh>>

\* close(r.waitCh), unlock.
ExitClose ==
  /\ rel = "close"
  /\ waitCh' = "closed"
  /\ mu' = FALSE
  /\ rel' = "done"
  /\ UNCHANGED <<start, parent, facVars, factoryCancel, cur, pending, stopped,
                 svcVars, serviceErr, out>>

-----------------------------------------------------------------------------
ReloaderRoutine ==
  \/ SelectError
  \/ SelectStopped
  \/ SelectService
  \/ SelectClosed
  \/ ReloadCancel
  \/ ReloadAwait
  \/ ReloadSwap
  \/ ReloadStart
  \/ Exit
  \/ ExitReport
  \/ ExitClose

FactoryFunction ==
  \/ \E s \in Services : FactoryOffer(s)
  \/ FactoryGiveUp
  \/ FactoryClose
  \/ FactoryReturns

Next ==
  \/ Start
  \/ ParentCancel
  \/ FactoryInit
  \/ FactoryFunction
  \/ FactoryFails
  \/ \E s \in All : SvcSend(s, s) \/ SvcSend(s, NoErr)
  \/ \E s \in All : SvcStop(s)
  \/ ReloaderRoutine

Spec == Init /\ [][Next]_vars

(***************************************************************************)
(* Both goroutines are scheduled, Wait() is received from, and a service   *)
(* whose context is done stops.  The factory function owes nothing.        *)
(***************************************************************************)
Fairness ==
  /\ WF_vars(ReloaderRoutine)
  /\ WF_vars(FactoryInit)
  /\ WF_vars(FactoryFails)
  /\ \A s \in All : WF_vars(CtxDone(s) /\ SvcStop(s))

FairSpec == Spec /\ Fairness

-----------------------------------------------------------------------------
Active(s) == svc[s] \in {"running", "sending"}

\* How many values of a service have been received.
Received(s) == IF svc[s] = "sending" THEN sends[s] - 1 ELSE sends[s]

(***************************************************************************)
(* What the reloader may leave behind.  It replaces a service, or closes   *)
(* Wait(), while the service still works only if it has cancelled it and   *)
(* has received a value from it, which it took for its end; or, for the    *)
(* current service, if the factory has closed its channel.  A service that *)
(* sends nothing before it closes its channel has stopped before the next  *)
(* one starts, whatever the factory and the context do meanwhile.          *)
(***************************************************************************)
LeavesBehind ==
  \A s \in All :
    Active(s) /\ (s # cur \/ waitCh = "closed") =>
      /\ s \in stopped
      /\ Received(s) > 0 \/ (s = cur /\ chClosed)

\* No service works, but for those that wait to send to nobody: LeavesBehind
\* says which those may be.
Quiet == waitCh = "closed" /\ \A s \in All : svc[s] # "running"

(***************************************************************************)
(* When r.ctx is cancelled, also in the middle of a reload, the reloader   *)
(* closes Wait() and all services end, replaced ones included; only if the *)
(* factory goroutine has not yet stored its cancel function may the        *)
(* process end in a panic instead.                                         *)
(***************************************************************************)
CancelStops ==
  /\ (parent /\ start = "running") ~> (Quiet \/ rel = "panicked")
  /\ (parent /\ factoryCancel # "unset") ~> Quiet

(***************************************************************************)
(* An error returned by the factory stops the current service, also one    *)
(* that is just being started, and the reloader, unless it comes while     *)
(* reloadService is still at the old service (FactoryErrorStops).          *)
(***************************************************************************)
FactoryErrorHeard ==
  (factory = "failing" /\ rel \notin {"cancel", "await", "swap"}) ~> Quiet

(***************************************************************************)
(* The reloader is itself a Service: Wait() is closed when the wrapped     *)
(* service has stopped.  What the reloader owes its watcher is the service *)
(* it has not received a value from: it takes the first value for the end. *)
(* A factory that closes its channel gives up the wrapped service.         *)
(***************************************************************************)
Contract == INSTANCE ServiceContract WITH
              phase <- IF start = "idle" THEN "new" ELSE "running",
              busy <- ~chClosed /\ \E s \in Services : Active(s) /\ Received(s) = 0,
              handed <- Len(out)

ImplementsService == Contract!Spec

-----------------------------------------------------------------------------
(***************************************************************************)
(* What comments of reloader.go and supervisor.go say and the code does    *)
(* not always do.                                                          *)
(***************************************************************************)

\* reloadService: "Cancel the service context to stop the service and wait
\* for it to stop": two services of a reloader never work at a time.
AtMostOneActive ==
  \A s, t \in All : Active(s) /\ Active(t) => s = t

\* Service: "When the service is stopped, the channel will be closed": a
\* started reloader whose context is cancelled closes its channel.
CancelCloses ==
  (start = "running" /\ parent) ~> (waitCh = "closed")

\* ReloaderConfig: "The service is stopped [...] when the factory function
\* returns an error."
FactoryErrorStops ==
  (Factory \in serviceErr) ~> (waitCh = "closed")
=============================================================================
