----------------------------- MODULE RpcSplitter -----------------------------
(***************************************************************************)
(* One request to the RPC proxy of rpcsplitter/server.go.  A method that   *)
(* takes a block resolves a tagged block to a number by asking all         *)
(* endpoints, then asks all endpoints the question itself.  Each question  *)
(* is one execution of server.call: a goroutine per endpoint sends its     *)
(* answer into a buffered channel, and call collects the answers until all *)
(* are there or the graceful timeout has passed and the resolver is        *)
(* content.  All calls of a request share one context with the total       *)
(* timeout.  Endpoints are interchangeable, so they are counted.           *)
(***************************************************************************)
EXTENDS RpcResolvers

CONSTANTS
  N,        \* len(s.callers)
  Values,   \* the numbers endpoints answer; negative ones are parsed, too
  Calls,    \* the methods of this instance
  Minimums  \* the values of minResponses of WithRequirements

ASSUME EndpointsAssumption ==
  /\ N \in Nat \ {0}
  /\ Values \subseteq Int
  /\ Minimums \subseteq Nat

\* types.BlockNumber: an integer whose negative values are tags.
Earliest == -1
Latest == -2
Pending == -3

IsTag(b) == b < 0

(***************************************************************************)
(* The methods of rpcETHAPI and rpcNETAPI: the resolver each one uses, and *)
(* how many block arguments it resolves first, at least and at most (the   *)
(* two ends of GetLogs are optional).                                      *)
(***************************************************************************)
Method(kind, least, most) == [kind |-> kind, least |-> least, most |-> most]

BlockMethods ==
  [eth_blockNumber           |-> Method("block", 0, 0),
   eth_getBlockByHash        |-> Method("default", 0, 0),
   eth_getBlockByNumber      |-> Method("default", 0, 0),
   eth_getTransactionByHash  |-> Method("default", 0, 0),
   eth_getTransactionCount   |-> Method("default", 1, 1),
   eth_getTransactionReceipt |-> Method("default", 0, 0)]

StateMethods ==
  [eth_sendRawTransaction |-> Method("default", 0, 0),
   eth_getBalance         |-> Method("default", 1, 1),
   eth_getCode            |-> Method("default", 1, 1),
   eth_getStorageAt       |-> Method("default", 1, 1),
   eth_call               |-> Method("default", 1, 1)]

LogMethods == [eth_getLogs |-> Method("default", 0, 2)]

FeeMethods ==
  [eth_gasPrice             |-> Method("gas", 0, 0),
   eth_estimateGas          |-> Method("gas", 1, 1),
   eth_feeHistory           |-> Method("default", 1, 1),
   eth_maxPriorityFeePerGas |-> Method("gas", 0, 0)]

ChainMethods ==
  [eth_chainId |-> Method("default", 0, 0),
   net_version |-> Method("default", 0, 0)]

Methods == BlockMethods @@ StateMethods @@ LogMethods @@ FeeMethods @@ ChainMethods

ASSUME CallsAssumption == Calls \subseteq DOMAIN Methods

\* The block arguments a client may pass; a negative number is parsed, too.
BlockIDs == Values \cup {Earliest, Latest, Pending, Pending - 1}

VARIABLES
  minRes,    \* s.minResponses, fixed when the server is built
  method,    \* the method of the request
  pc,        \* "idle", "args", "select", "done"
  todo,      \* the block arguments not yet resolved
  args,      \* the block arguments resolved so far
  basis,     \* history: the numbers each of args was resolved from
  kind,      \* the resolver of the call under way
  pend,      \* how many goroutines of this call wait for their endpoint
  ch,        \* the buffered channel of this call
  rs,        \* call's rs
  timer,     \* the graceful timer: "armed", "fired", "used"
  ctxDone,   \* the context of the request is done
  late,      \* calls that have returned: goroutines left, room in the channel
  out        \* what the method returned: kind "none", "ok" or "err"

argVars == <<todo, args, basis>>
vars == <<minRes, method, pc, argVars, kind, pend, ch, rs, timer, ctxDone, late,
          out>>

None == [kind |-> "none", v |-> 0]

Init ==
  /\ minRes \in Minimums
  /\ method \in Calls
  /\ todo \in UNION {[1..n -> BlockIDs] : n \in Methods[method].least .. Methods[method].most}
  /\ pc = "args"
  /\ args = <<>>
  /\ basis = <<>>
  /\ kind = "none"
  /\ pend = 0
  /\ ch = <<>>
  /\ rs = <<>>
  /\ timer = "used"
  /\ ctxDone = FALSE
  /\ late = <<>>
  /\ out = None

\* Mutant: the channel has room for one answer.
CapacityOne == 1

\* make(chan any, len(s.callers))
Capacity == N

-----------------------------------------------------------------------------
\* The beginning of call: a goroutine per endpoint, a new timer, no answers.
BeginCall(k) ==
  /\ kind' = k
  /\ pend' = N
  /\ ch' = <<>>
  /\ rs' = <<>>
  /\ timer' = "armed"
  /\ pc' = "select"

\* The method returns; its deferred ctxCancel runs.
Return(o) ==
  /\ out' = o
  /\ pc' = "done"
  /\ ctxDone' = TRUE

\* Mutant: tags are passed on to the endpoints.
PassOnTagged ==
  /\ pc = "args"
  /\ todo # <<>>
  /\ Head(todo) # Earliest
  /\ args' = Append(args, Head(todo))
  /\ basis' = Append(basis, {})
  /\ todo' = Tail(todo)
  /\ UNCHANGED <<minRes, method, pc, kind, pend, ch, rs, timer, ctxDone, late, out>>

\* taggedBlockToNumber: a single endpoint is given tags as they are, and
\* numbers need no resolving.
PassOn ==
  /\ pc = "args"
  /\ todo # <<>>
  /\ N = 1 \/ ~IsTag(Head(todo))
  /\ args' = Append(args, Head(todo))
  /\ basis' = Append(basis, {})
  /\ todo' = Tail(todo)
  /\ UNCHANGED <<minRes, method, pc, kind, pend, ch, rs, timer, ctxDone, late, out>>

\* taggedBlockToNumber: "earliest tag is not supported".
RefuseEarliest ==
  /\ pc = "args"
  /\ todo # <<>>
  /\ N # 1
  /\ Head(todo) = Earliest
  /\ Return(Err)
  /\ UNCHANGED <<minRes, method, argVars, kind, pend, ch, rs, timer, late>>

\* taggedBlockToNumber: any other tag asks for the block number.
AskBlockNumber ==
  /\ pc = "args"
  /\ todo # <<>>
  /\ N # 1
  /\ IsTag(Head(todo))
  /\ Head(todo) # Earliest
  /\ BeginCall("block")
  /\ UNCHANGED <<minRes, method, argVars, ctxDone, late, out>>

\* The method's own call.
AskEndpoints ==
  /\ pc = "args"
  /\ todo = <<>>
  /\ BeginCall(Methods[method].kind)
  /\ UNCHANGED <<minRes, method, argVars, ctxDone, late, out>>

-----------------------------------------------------------------------------
\* A goroutine of call: its endpoint answers, fails or panics, or the
\* context ends the request; the answer goes into the channel.
Answer(r) ==
  /\ pend > 0
  /\ Len(ch) < Capacity
  /\ ch' = Append(ch, r)
  /\ pend' = pend - 1
  /\ UNCHANGED <<minRes, method, pc, argVars, kind, rs, timer, ctxDone, late, out>>

\* The same for a call that has returned; nobody will read the answer.
LateAnswer(i) ==
  /\ late[i].pend > 0
  /\ late[i].room > 0
  /\ late' = [late EXCEPT ![i] = [pend |-> @.pend - 1, room |-> @.room - 1]]
  /\ UNCHANGED <<minRes, method, pc, argVars, kind, pend, ch, rs, timer, ctxDone, out>>

TimerFires ==
  /\ pc = "select"
  /\ timer = "armed"
  /\ timer' = "fired"
  /\ UNCHANGED <<minRes, method, pc, argVars, kind, pend, ch, rs, ctxDone, late, out>>

TotalTimeout ==
  /\ ~ctxDone
  /\ ctxDone' = TRUE
  /\ UNCHANGED <<minRes, method, pc, argVars, kind, pend, ch, rs, timer, late, out>>

(***************************************************************************)
(* call returns res to taggedBlockToNumber, which goes on with the next    *)
(* argument (the number becomes a BlockNumber as it is, also if it is      *)
(* negative and so a tag again), or to the method,                         *)
(* which returns.  A panic of the resolver is recovered: call then returns *)
(* no error and the result stays zero.                                     *)
(***************************************************************************)
Result(res) == IF res.kind = "panic" THEN Ok(0) ELSE res

CallReturns(res, answers) ==
  LET o == Result(res) IN
  IF todo = <<>> \/ o.kind = "err"
  THEN /\ Return(o)
       /\ UNCHANGED <<argVars, late>>
  ELSE /\ args' = Append(args, o.v)
       /\ basis' = Append(basis, Range(Responses(answers)))
       /\ todo' = Tail(todo)
       /\ pc' = "args"
       /\ late' = Append(late, [pend |-> pend, room |-> Capacity - Len(ch')])
       /\ UNCHANGED <<ctxDone, out>>

\* The end of the loop of call, with the answers so far.
Resolved(answers) ==
  LET res == resolve(kind, minRes, answers) IN
  IF res.kind # "err" \/ Len(answers) >= N
  THEN CallReturns(res, answers)
  ELSE UNCHANGED <<pc, argVars, ctxDone, late, out>>

\* Mutant: len(rs) > len(s.callers) ends the loop.
ReceiveBeyond ==
  /\ pc = "select"
  /\ ch # <<>>
  /\ rs' = Append(rs, Head(ch))
  /\ ch' = Tail(ch)
  /\ IF Len(rs') > N
     THEN Resolved(rs')
     ELSE UNCHANGED <<pc, argVars, ctxDone, late, out>>
  /\ UNCHANGED <<minRes, method, kind, pend, timer>>

\* r := <-ch
Receive ==
  /\ pc = "select"
  /\ ch # <<>>
  /\ rs' = Append(rs, Head(ch))
  /\ ch' = Tail(ch)
  /\ IF Len(rs') = N
     THEN Resolved(rs')
     ELSE UNCHANGED <<pc, argVars, ctxDone, late, out>>
  /\ UNCHANGED <<minRes, method, kind, pend, timer>>

\* <-t.C
GracefulTimeout ==
  /\ pc = "select"
  /\ timer = "fired"
  /\ timer' = "used"
  /\ UNCHANGED ch
  /\ Resolved(rs)
  /\ UNCHANGED <<minRes, method, kind, pend, rs>>

-----------------------------------------------------------------------------
Request == PassOn \/ RefuseEarliest \/ AskBlockNumber \/ AskEndpoints
           \/ Receive \/ GracefulTimeout

Next ==
  \/ Request
  \/ \E r \in Values \cup {Fail} : Answer(r)
  \/ \E i \in DOMAIN late : LateAnswer(i)
  \/ TimerFires
  \/ TotalTimeout

Spec == Init /\ [][Next]_vars

(***************************************************************************)
(* The request's goroutine is scheduled, both timers expire, and a call to *)
(* an endpoint returns once the context is done.  An endpoint owes no      *)
(* answer before.                                                          *)
(***************************************************************************)
Fairness ==
  /\ WF_vars(Request)
  /\ WF_vars(TimerFires)
  /\ WF_vars(TotalTimeout)
  /\ WF_vars(ctxDone /\ \E r \in Values \cup {Fail} : Answer(r))
  /\ WF_vars(ctxDone /\ \E i \in DOMAIN late : LateAnswer(i))

FairSpec == Spec /\ Fairness

-----------------------------------------------------------------------------
TypeOK ==
  /\ minRes \in Minimums
  /\ method \in Calls
  /\ pc \in {"args", "select", "done"}
  /\ todo \in Seq(BlockIDs)
  /\ args \in Seq(Int)
  /\ basis \in Seq(SUBSET Values)
  /\ kind \in {"none", "default", "gas", "block"}
  /\ pend \in 0..N
  /\ ch \in Seq(Values \cup {Fail})
  /\ rs \in Seq(Values \cup {Fail})
  /\ Len(rs) + Len(ch) + pend = IF kind = "none" THEN 0 ELSE N
  /\ timer \in {"armed", "fired", "used"}
  /\ ctxDone \in BOOLEAN
  /\ late \in Seq([pend : 0..N, room : 0..N])
  /\ out \in [kind : {"none", "ok", "err"}, v : Int]

\* The request ended with the method's own call, whose answers rs holds.
Answered(k) == pc = "done" /\ todo = <<>> /\ kind = k

(***************************************************************************)
(* A method with the default resolver returns the response that occurs     *)
(* most often, if it occurs often enough, in whatever order the answers    *)
(* came and whichever were missing at the graceful timeout; it returns an  *)
(* error only when all endpoints have answered and there is no such        *)
(* response.                                                               *)
(***************************************************************************)
MostCommonWins ==
  Answered("default") =>
    IF out.kind = "ok"
    THEN Prevails(minRes, rs, out.v)
    ELSE Len(rs) = N /\ \A v \in Values : Count(rs, v) > 0 => ~Prevails(minRes, rs, v)

(***************************************************************************)
(* With more than half of the endpoints required, the answer is final: no  *)
(* other response could still gather enough answers, the ones in flight    *)
(* when the graceful timeout ended the call included.                      *)
(***************************************************************************)
MajorityIsFinal ==
  Answered("default") /\ out.kind = "ok" /\ 2 * minRes > N =>
    \A v \in Values \ {out.v} : Count(rs, v) + Count(ch, v) + pend < minRes

(***************************************************************************)
(* The gas methods never return a value that less than half of the         *)
(* endpoints could have chosen, and the lower one of two values.           *)
(***************************************************************************)
GasIsCentral ==
  Answered("gas") /\ out.kind = "ok" =>
    Len(Responses(rs)) >= minRes /\ Central(Responses(rs), out.v)

(***************************************************************************)
(* eth_blockNumber returns the lowest number that is not more than         *)
(* MaxBlocksBehind below the highest, in whatever order the answers came.  *)
(* When no answer is required and there is none it returns zero.           *)
(***************************************************************************)
BlockIsLowestNear ==
  Answered("block") /\ out.kind = "ok" =>
    /\ Len(Responses(rs)) >= minRes
    /\ IF Responses(rs) = <<>> THEN out.v = 0 ELSE LowestWithinLimit(Responses(rs), out.v)

(***************************************************************************)
(* Several endpoints are not sent a tag of the client, which each would    *)
(* understand differently: when the method asks its own question, its      *)
(* block arguments are numbers.  The number the endpoints agree on is not  *)
(* checked, so one of them may make it a tag again; but only if no other   *)
(* one that was heard is MaxBlocksBehind blocks further.                   *)
(***************************************************************************)
NoTagReachesEndpoints ==
  pc = "select" /\ todo = <<>> /\ N > 1 =>
    \A i \in DOMAIN args : IsTag(args[i]) =>
      /\ args[i] \in basis[i]
      /\ \A v \in basis[i] : v - args[i] <= MaxBlocksBehind

(***************************************************************************)
(* Every request returns, although endpoints need not answer: the total    *)
(* timeout ends the calls to the endpoints, and call counts their errors.  *)
(* It leaves no goroutine behind: all of them end, also those whose call   *)
(* returned at the graceful timeout.                                       *)
(***************************************************************************)
RequestReturns ==
  /\ <>(pc = "done")
  /\ <>[](pend = 0 /\ \A i \in DOMAIN late : late[i].pend = 0)

(***************************************************************************)
(* The buffered channel never makes a goroutine wait: whoever has an       *)
(* answer to send finds room, also after call has stopped receiving.       *)
(***************************************************************************)
NoSenderBlocks ==
  /\ pend > 0 => Len(ch) < Capacity
  /\ \A i \in DOMAIN late : late[i].pend <= late[i].room

-----------------------------------------------------------------------------
(***************************************************************************)
(* What comments of server.go say and the code does not always do.         *)
(***************************************************************************)

\* taggedBlockToNumber: "returns a block number for tagged blocks.  This is
\* necessary because different RPC endpoints may convert tags to different
\* block numbers."
OnlyNumbersAreSent ==
  pc = "select" /\ todo = <<>> /\ N > 1 => \A i \in DOMAIN args : ~IsTag(args[i])

\* call: "if gracefulTimeout exceeds and there are enough responses to
\* return a valid response, then the context will be canceled and the
\* response returned": call does not wait on in such a state.
GracefulReturn ==
  pc = "select" /\ timer = "used" => resolve(kind, minRes, rs).kind = "err"
=============================================================================
