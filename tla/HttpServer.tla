----------------------------- MODULE HttpServer -----------------------------
(***************************************************************************)
(* HTTPServer of httpserver/httpserver.go: two goroutines, serve and       *)
(* shutdownHandler, that meet on serveCh and on the context, and whoever   *)
(* receives from waitCh.  All channels are unbuffered.  What net/http does *)
(* (Listen, Serve, Shutdown, a goroutine per request) is external and      *)
(* modelled from how the server uses it.                                   *)
(***************************************************************************)
EXTENDS Naturals

CONSTANTS
  Servers,    \* the servers of one application; all get the same context
  Requests    \* the requests that one server may get

VARIABLES
  ctxDone,    \* the context given to Start is done
  phase,      \* Start: "new", "running", "failed"
  handlerSet, \* the servers for which SetHandler was called
  serve,      \* goroutine serve: "off", "begin", "serving", "returned", "done"
  shut,       \* goroutine shutdownHandler: "off", "begin", "select", "shutting",
              \* "send", "close", "done"
  closing,    \* the http.Servers whose Shutdown was called: they accept nothing
  err,        \* what serve or Shutdown returned: "none", "nil", "closed", "timeout", "failed"
  request,    \* requests: "none", "looking", "handling", "done"
  crashed     \* the process ended with a concurrent map access

httpVars == <<ctxDone, phase, handlerSet, serve, shut, closing, err, request, crashed>>

HttpTypeOK ==
  /\ ctxDone \in BOOLEAN
  /\ phase \in [Servers -> {"new", "running", "failed"}]
  /\ handlerSet \subseteq Servers
  /\ serve \in [Servers -> {"off", "begin", "serving", "returned", "done"}]
  /\ shut \in [Servers -> {"off", "begin", "select", "shutting", "send", "close", "done"}]
  /\ closing \subseteq Servers
  /\ err \in [Servers -> {"none", "nil", "closed", "timeout", "failed"}]
  /\ request \in [Servers -> [Requests -> {"none", "looking", "handling", "done"}]]
  /\ crashed \in BOOLEAN

HttpInit ==
  /\ ctxDone = FALSE
  /\ phase = [s \in Servers |-> "new"]
  /\ handlerSet = {}
  /\ serve = [s \in Servers |-> "off"]
  /\ shut = [s \in Servers |-> "off"]
  /\ closing = {}
  /\ err = [s \in Servers |-> "none"]
  /\ request = [s \in Servers |-> [r \in Requests |-> "none"]]
  /\ crashed = FALSE

\* A new connection gets a goroutine.
Accepting(s) == serve[s] = "serving" /\ s \notin closing

Idle(s) == \A r \in Requests : request[s][r] \in {"none", "done"}

-----------------------------------------------------------------------------
(***************************************************************************)
(* Start, the whole method.  A second call, or one without a context,      *)
(* returns an error and changes nothing.  When Listen fails, s.ctx is set: *)
(* the server can not be started again and its waitCh is never closed.     *)
(***************************************************************************)
Listen(s) ==
  /\ phase[s] = "new"
  /\ phase' = [phase EXCEPT ![s] = "running"]
  /\ serve' = [serve EXCEPT ![s] = "begin"]
  /\ shut' = [shut EXCEPT ![s] = "begin"]
  /\ UNCHANGED <<ctxDone, handlerSet, closing, err, request, crashed>>

ListenFails(s) ==
  /\ phase[s] = "new"
  /\ phase' = [phase EXCEPT ![s] = "failed"]
  /\ UNCHANGED <<ctxDone, handlerSet, serve, shut, closing, err, request, crashed>>

\* SetHandler writes the map without a lock: the runtime may notice that a
\* request is reading it.
SetHandler(s) ==
  /\ handlerSet' = handlerSet \cup {s}
  /\ crashed' \in (IF \E r \in Requests : request[s][r] = "looking" THEN BOOLEAN ELSE {FALSE})
  /\ UNCHANGED <<ctxDone, phase, serve, shut, closing, err, request>>

-----------------------------------------------------------------------------
\* serve calls srv.Serve: of a server that is being shut down, it returns.
Serve(s) ==
  /\ serve[s] = "begin"
  /\ serve' = [serve EXCEPT ![s] = IF s \in closing THEN "returned" ELSE "serving"]
  /\ UNCHANGED <<ctxDone, phase, handlerSet, shut, closing, err, request, crashed>>

\* http.ErrServerClosed, after Shutdown.
ServeEnds(s) ==
  /\ serve[s] = "serving"
  /\ s \in closing
  /\ serve' = [serve EXCEPT ![s] = "returned"]
  /\ UNCHANGED <<ctxDone, phase, handlerSet, shut, closing, err, request, crashed>>

\* Accept fails; the goroutines of the requests go on.
ServeFails(s) ==
  /\ Accepting(s)
  /\ serve' = [serve EXCEPT ![s] = "returned"]
  /\ UNCHANGED <<ctxDone, phase, handlerSet, shut, closing, err, request, crashed>>

\* Mutant: every error is taken for http.ErrServerClosed.
HandOverSilent(s) ==
  /\ serve[s] = "returned"
  /\ shut[s] = "select"
  /\ serve' = [serve EXCEPT ![s] = "done"]
  /\ err' = [err EXCEPT ![s] = "closed"]
  /\ shut' = [shut EXCEPT ![s] = "close"]
  /\ UNCHANGED <<ctxDone, phase, handlerSet, closing, request, crashed>>

(***************************************************************************)
(* The select of serve, entered only now: the error is handed over if      *)
(* shutdownHandler waits for it.  If it does not, the error is dropped,    *)
(* with or without the context.                                            *)
(***************************************************************************)
HandOver(s) ==
  /\ serve[s] = "returned"
  /\ shut[s] = "select"
  /\ serve' = [serve EXCEPT ![s] = "done"]
  /\ err' = [err EXCEPT ![s] = IF s \in closing THEN "closed" ELSE "failed"]
  /\ shut' = [shut EXCEPT ![s] = IF s \in closing THEN "close" ELSE "send"]
  /\ UNCHANGED <<ctxDone, phase, handlerSet, closing, request, crashed>>

Drop(s) ==
  /\ serve[s] = "returned"
  /\ ctxDone \/ shut[s] # "select"
  /\ serve' = [serve EXCEPT ![s] = "done"]
  /\ UNCHANGED <<ctxDone, phase, handlerSet, shut, closing, err, request, crashed>>

-----------------------------------------------------------------------------
\* shutdownHandler enters its select.
Select(s) ==
  /\ shut[s] = "begin"
  /\ shut' = [shut EXCEPT ![s] = "select"]
  /\ UNCHANGED <<ctxDone, phase, handlerSet, serve, closing, err, request, crashed>>

\* <-s.ctx.Done(): Shutdown is called with a timeout.
Shutdown(s) ==
  /\ shut[s] = "select"
  /\ ctxDone
  /\ shut' = [shut EXCEPT ![s] = "shutting"]
  /\ closing' = closing \cup {s}
  /\ UNCHANGED <<ctxDone, phase, handlerSet, serve, err, request, crashed>>

\* Mutant: Shutdown is not waited for.
ShutdownReturnsEarly(s) ==
  /\ shut[s] = "shutting"
  /\ shut' = [shut EXCEPT ![s] = "send"]
  /\ err' = [err EXCEPT ![s] = "nil"]
  /\ UNCHANGED <<ctxDone, phase, handlerSet, serve, closing, request, crashed>>

ShutdownReturns(s) ==
  /\ shut[s] = "shutting"
  /\ serve[s] # "serving"
  /\ Idle(s)
  /\ shut' = [shut EXCEPT ![s] = "send"]
  /\ err' = [err EXCEPT ![s] = "nil"]
  /\ UNCHANGED <<ctxDone, phase, handlerSet, serve, closing, request, crashed>>

\* Mutant: Shutdown has no timeout.
ShutdownWaits(s) ==
  /\ shut[s] = "shutting"
  /\ Idle(s)
  /\ shut' = [shut EXCEPT ![s] = "send"]
  /\ err' = [err EXCEPT ![s] = "timeout"]
  /\ UNCHANGED <<ctxDone, phase, handlerSet, serve, closing, request, crashed>>

\* After shutdownTimeout; Shutdown looks at the requests only now and then.
ShutdownTimesOut(s) ==
  /\ shut[s] = "shutting"
  /\ shut' = [shut EXCEPT ![s] = "send"]
  /\ err' = [err EXCEPT ![s] = "timeout"]
  /\ UNCHANGED <<ctxDone, phase, handlerSet, serve, closing, request, crashed>>

\* s.waitCh <- err meets a receive; err may be nil.
SendErr(s) ==
  /\ shut[s] = "send"
  /\ shut' = [shut EXCEPT ![s] = "close"]
  /\ UNCHANGED <<ctxDone, phase, handlerSet, serve, closing, err, request, crashed>>

\* The deferred close(s.waitCh).
CloseWait(s) ==
  /\ shut[s] = "close"
  /\ shut' = [shut EXCEPT ![s] = "done"]
  /\ UNCHANGED <<ctxDone, phase, handlerSet, serve, closing, err, request, crashed>>

-----------------------------------------------------------------------------
\* A request gets its goroutine, which looks for a handler.
Accept(s, r) ==
  /\ Accepting(s)
  /\ request[s][r] = "none"
  /\ request' = [request EXCEPT ![s][r] = "looking"]
  /\ UNCHANGED <<ctxDone, phase, handlerSet, serve, shut, closing, err, crashed>>

\* serveHTTP: without a handler, it answers 404.
ServeHTTP(s, r) ==
  /\ request[s][r] = "looking"
  /\ request' = [request EXCEPT ![s][r] = IF s \in handlerSet THEN "handling" ELSE "done"]
  /\ UNCHANGED <<ctxDone, phase, handlerSet, serve, shut, closing, err, crashed>>

Answer(s, r) ==
  /\ request[s][r] = "handling"
  /\ request' = [request EXCEPT ![s][r] = "done"]
  /\ UNCHANGED <<ctxDone, phase, handlerSet, serve, shut, closing, err, crashed>>

Cancel ==
  /\ ~ctxDone
  /\ ctxDone' = TRUE
  /\ UNCHANGED <<phase, handlerSet, serve, shut, closing, err, request, crashed>>

-----------------------------------------------------------------------------
\* The steps of the goroutines of one server that need nobody else.
ServerStep(s) ==
  \/ Serve(s) \/ ServeEnds(s) \/ HandOver(s) \/ Drop(s)
  \/ Select(s) \/ Shutdown(s) \/ ShutdownReturns(s) \/ ShutdownTimesOut(s)

RequestStep(s) ==
  \E r \in Requests : Accept(s, r) \/ ServeHTTP(s, r) \/ Answer(s, r)
=============================================================================
