---------------------------- MODULE LogServices ----------------------------
(***************************************************************************)
(* The chain logger of log/chain/log.go as a service.  The loggers in the  *)
(* chain that are services are metrics loggers (log/metrics/log.go), whose *)
(* Start and Wait are those of their HTTP servers.  The chain merges their *)
(* wait channels and a dummy channel with a FanIn into its own.            *)
(***************************************************************************)
EXTENDS HttpServer, FanIn

CONSTANTS
  Chains,    \* the sequences of metrics loggers that are chained
  Dummy      \* dummyCh

ASSUME ChainAssumption ==
  /\ Chains \subseteq Seq(Servers)
  /\ Inputs = Servers \cup {Dummy}
  /\ Dummy \notin Servers
  /\ MaxValues >= 1 /\ \A c \in Chains : Len(c) <= MaxMerged   \* no error is held back

VARIABLES
  loggers,   \* l.loggers, the services
  stage,     \* what Start is about to do: "start", "handler", "input",
             \* "dummy", "autoClose"; or it has returned: "running", "failed"
  at         \* the logger it does it to

chainVars == <<loggers, stage, at>>
vars == <<httpVars, fiVars, chainVars>>

Init ==
  /\ HttpInit
  /\ FIInit
  /\ loggers \in Chains
  /\ stage = (IF loggers = <<>> THEN "dummy" ELSE "start")
  /\ at = 1

\* The next logger; after the last one, Start goes on to the stage then.
NextLogger(again, then) ==
  /\ stage' = IF at < Len(loggers) THEN again ELSE then
  /\ at' = IF at < Len(loggers) THEN at + 1 ELSE 1
  /\ UNCHANGED loggers

Returned == stage \in {"running", "failed"}

-----------------------------------------------------------------------------
\* srv.Start of a metrics logger: it starts the HTTP server, and only then
\* sets the handler.
StartLogger ==
  /\ stage = "start"
  /\ Listen(loggers[at])
  /\ stage' = "handler"
  /\ UNCHANGED <<loggers, at, fiVars>>

\* The loggers that were started before are left running.
StartFails ==
  /\ stage = "start"
  /\ ListenFails(loggers[at])
  /\ stage' = "failed"
  /\ UNCHANGED <<loggers, at, fiVars>>

SetMetricsHandler ==
  /\ stage = "handler"
  /\ SetHandler(loggers[at])
  /\ NextLogger("start", "input")
  /\ UNCHANGED fiVars

\* fi.Input(s.Wait())
AddInput ==
  /\ stage = "input"
  /\ Input(loggers[at])
  /\ NextLogger("input", "dummy")
  /\ UNCHANGED httpVars

\* fi.Input(dummyCh)
AddDummy ==
  /\ stage = "dummy"
  /\ Input(Dummy)
  /\ stage' = "autoClose"
  /\ UNCHANGED <<loggers, at, httpVars>>

\* fi.AutoClose, go l.contextCancelHandler; Start returns nil.
AutoClose ==
  /\ stage = "autoClose"
  /\ \E c \in Closers : BeginWait(c)
  /\ stage' = "running"
  /\ UNCHANGED <<loggers, at, httpVars>>

-----------------------------------------------------------------------------
ContextCancelHandler ==
  /\ stage = "running"
  /\ ctxDone
  /\ CloseInput(Dummy)
  /\ UNCHANGED <<chainVars, httpVars>>

\* The fan-in receives what a server sends, and notices that it has closed.
ReceiveErr(s) == SendErr(s) /\ ReceiveFrom(s) /\ UNCHANGED chainVars
CloseServer(s) == CloseWait(s) /\ CloseInput(s) /\ UNCHANGED chainVars

\* A value reaches the watcher of the chain, who asks for Wait() after Start.
Watch(i) == stage = "running" /\ Deliver(i) /\ UNCHANGED <<chainVars, httpVars>>

FanInStep ==
  /\ \/ \E i \in Inputs : Done(i)
     \/ \E c \in Closers : Wait(c) \/ Close(c)
  /\ UNCHANGED <<chainVars, httpVars>>

\* Everything that does not depend on the world outside.
Step ==
  /\ ~crashed
  /\ \/ StartLogger \/ SetMetricsHandler \/ AddInput \/ AddDummy \/ AutoClose
     \/ ContextCancelHandler
     \/ \E s \in Servers : ReceiveErr(s) \/ CloseServer(s)
     \/ \E s \in Servers : ServerStep(s) /\ UNCHANGED <<chainVars, fiVars>>
     \/ \E i \in Inputs : Watch(i)
     \/ FanInStep

World ==
  /\ ~crashed
  /\ \/ StartFails
     \/ Cancel /\ UNCHANGED <<chainVars, fiVars>>
     \/ \E s \in Servers :
          (RequestStep(s) \/ ServeFails(s)) /\ UNCHANGED <<chainVars, fiVars>>

Next == Step \/ World

(***************************************************************************)
(* Every goroutine is scheduled, Shutdown returns at the latest when its   *)
(* context times out, and the watcher receives.  Nobody owes requests,     *)
(* answers or a cancellation.                                              *)
(***************************************************************************)
Fairness ==
  /\ WF_vars(~crashed /\ (StartLogger \/ SetMetricsHandler \/ AddInput \/ AddDummy \/ AutoClose))
  /\ WF_vars(~crashed /\ ContextCancelHandler)
  /\ WF_vars(~crashed /\ FanInStep)
  /\ \A i \in Inputs : WF_vars(~crashed /\ Watch(i))
  /\ \A s \in Servers :
       /\ WF_vars(~crashed /\ (ReceiveErr(s) \/ CloseServer(s)))
       /\ WF_vars(~crashed /\ (Serve(s) \/ ServeEnds(s) \/ HandOver(s) \/ Drop(s))
                  /\ UNCHANGED <<chainVars, fiVars>>)
       /\ WF_vars(~crashed /\ (Select(s) \/ Shutdown(s) \/ ShutdownReturns(s) \/ ShutdownTimesOut(s))
                  /\ UNCHANGED <<chainVars, fiVars>>)

Spec == Init /\ [][Next]_vars /\ Fairness

-----------------------------------------------------------------------------
(***************************************************************************)
(* The chain is a Service: it closes its channel only when no server in it *)
(* accepts requests any more, also when some were told nothing but nil.    *)
(***************************************************************************)
Contract == INSTANCE ServiceContract WITH
  phase <- IF Returned THEN stage ELSE "new",
  waitCh <- IF closed THEN "closed" ELSE "open",
  busy <- \E s \in Servers : Accepting(s),
  handed <- Len(merged)

ImplementsService == Contract!Spec

(***************************************************************************)
(* The chain closes its channel only after the context is done, even if    *)
(* every server in it has failed: the dummy channel keeps it open.  A      *)
(* server that has reported nothing but nil then has answered all of its   *)
(* requests: Shutdown was called, whatever Serve had returned before, and  *)
(* found it idle.                                                          *)
(***************************************************************************)
CleanClose ==
  closed => /\ ctxDone
            /\ stage = "running"
            /\ \A s \in Servers : err[s] \in {"none", "nil"} => Idle(s)

(***************************************************************************)
(* When the context is done, a chain that has started closes its channel,  *)
(* although requests may never be answered; one that has not leaves no     *)
(* server that accepts requests.  (Or the process has crashed.)            *)
(***************************************************************************)
CancelCloses ==
  ctxDone ~> \/ crashed
             \/ stage = "running" /\ closed
             \/ stage = "failed" /\ \A s \in Servers : ~Accepting(s)

(***************************************************************************)
(* When Accept fails while shutdownHandler waits, the watcher of a running *)
(* chain receives a value from the server.                                 *)
(***************************************************************************)
Received(s) == \E p \in DOMAIN merged : merged[p][1] = s

WaitedErrorArrives ==
  \A s \in Servers :
    (stage = "running" /\ serve[s] = "returned" /\ shut[s] = "select") ~> (crashed \/ Received(s))

(***************************************************************************)
(* supervisor.Service: "If an error occurs, an error will be sent to the   *)
(* channel before closing it."  Here: once Serve has failed, the watcher   *)
(* of a running chain receives a value from the server.                    *)
(***************************************************************************)
ErrorArrives ==
  \A s \in Servers :
    (stage = "running" /\ serve[s] = "returned" /\ ~ctxDone) ~> (crashed \/ Received(s))
=============================================================================
