--------------------------- MODULE BatchedService ---------------------------
(***************************************************************************)
(* The batched inference service of spawnkit: worker processes that block  *)
(* in ServiceClient.call, the request queue they share, the service        *)
(* process that collects, groups, forwards and answers, one response queue *)
(* per client, the optional shared-memory rows, and the stop event of the  *)
(* run.                                                                    *)
(*                                                                         *)
(* A payload is the token <<caller, number of the call>>; an answer names  *)
(* the rpc and the token it was computed from, and whether the other rows  *)
(* of the batch had any influence on it.  Tensors, collation and row       *)
(* counts are data, and are left out.                                      *)
(*                                                                         *)
(* multiprocessing.Queue is outside the repository.  A put by the service  *)
(* goes to a buffer of its process (outbox) that a feeder thread flushes   *)
(* to the pipe (respQ): a process that dies by os._exit or by a signal     *)
(* takes the unflushed part with it, one that returns or raises flushes it *)
(* first.                                                                  *)
(***************************************************************************)
EXTENDS Naturals, Sequences

CONSTANTS
  Callers,         \* threads of control that make calls
  Clients,         \* ServiceClient objects, named by their client id
  ClientOf,        \* the client object each caller uses
  Served,          \* ids below len(response_queues): the service can answer them
  Rpcs,            \* rpcs the clients know
  ServiceRpcs,     \* rpcs registered with the service
  SharedRpcs,      \* rpcs that declare a SharedRowSpec
  MixingRpcs,      \* rpcs whose model lets the rows of a batch influence each other
  MaxBatch,        \* max_batch
  Windowed,        \* batch_window_ms > 0
  VerifyRows,      \* verify_row_independence
  Supervised,      \* a monitor holds the service as a critical worker
  CallAfterRaise,  \* a caller may call again after call() raised
  MaxCalls,        \* bound: calls per caller
  Faults,          \* what may go wrong, a subset of FaultKinds
  None             \* Python's None: no payload, no answer yet, and QUEUE_STOP

FaultKinds == {"build", "raise", "oom", "kill", "stop", "sentinel", "worker"}

ASSUME ServiceAssumption ==
  /\ ClientOf \in [Callers -> Clients]
  /\ Served \subseteq Clients
  /\ ServiceRpcs \subseteq Rpcs /\ SharedRpcs \subseteq Rpcs /\ MixingRpcs \subseteq Rpcs
  /\ MaxBatch \in Nat \ {0}
  /\ MaxCalls \in Nat
  /\ {Windowed, VerifyRows, Supervised, CallAfterRaise} \subseteq BOOLEAN
  /\ Faults \subseteq FaultKinds

Token    == Callers \X Nat
Answer   == [rpc : Rpcs \cup {None}, token : Token \cup {None}, mixed : BOOLEAN]
Request  == [client : Clients, id : Nat, rpc : Rpcs, payload : Token \cup {None}]
Response == [id : Nat, answer : Answer \cup {None}]

\* None is no other value.
ASSUME NoneAssumption == None \notin Token \cup Answer \cup Request \cup Response \cup Rpcs

ZeroRow == [rpc |-> None, token |-> None, mixed |-> FALSE]   \* a row as it was allocated

VARIABLES
  pc, rpc, calls, want, got, raised,  \* per caller
  counter,                            \* per client: _counter
  reqRow, respRow,                    \* per client: its rows of the shared buffers
  reqQ, outbox, respQ,                \* the queues
  svc, batch, todo, group, outputs,   \* the service process: where it is, its batch,
                                      \* the requests of it not yet grouped, the group
                                      \* being served and its outputs
  verified,                           \* _verified_rpcs
  exit,                               \* how the service process ended
  stop,                               \* the stop event
  stopSent                            \* QUEUE_STOP has been put on the request queue

callerVars  == <<pc, rpc, calls, want, got, raised, counter>>
serviceVars == <<svc, batch, todo, group, outputs, verified, exit>>
rowVars     == <<reqRow, respRow>>
queueVars   == <<reqQ, outbox, respQ>>
runVars     == <<stop, stopSent>>
vars        == <<callerVars, serviceVars, rowVars, queueVars, runVars>>

CallerPhases  == {"idle", "begun", "submitted", "waiting", "checking", "reading", "dead"}
ServicePhases == {"build", "loop", "collect", "drain", "partition", "gather",
                  "scatter", "verify", "answer", "exited"}
Exits         == {"running", "clean", "error", "oom", "killed"}

\* The use the documentation asks for: one client object per thread of control, and
\* no call after a call that raised.
DocumentedUse ==
  /\ \A k, l \in Callers : ClientOf[k] = ClientOf[l] => k = l
  /\ ~CallAfterRaise

InCall(k) == pc[k] \notin {"idle", "dead"}

Init ==
  /\ pc = [k \in Callers |-> "idle"]
  /\ rpc = [k \in Callers |-> None]
  /\ calls = [k \in Callers |-> 0]
  /\ want = [k \in Callers |-> 0]
  /\ got = [k \in Callers |-> None]
  /\ raised = [k \in Callers |-> FALSE]
  /\ counter = [c \in Clients |-> 0]
  /\ reqRow = [c \in Clients |-> None]
  /\ respRow = [c \in Clients |-> ZeroRow]
  /\ reqQ = <<>>
  /\ outbox = [c \in Clients |-> <<>>]
  /\ respQ = [c \in Clients |-> <<>>]
  /\ svc = "build" /\ exit = "running"
  /\ batch = <<>> /\ todo = {} /\ group = {} /\ outputs = <<>> /\ verified = {}
  /\ stop = FALSE /\ stopSent = FALSE

-----------------------------------------------------------------------------
(* ServiceClient *)

\* call: write our row (shared transport), then take the next request id.
Begin(k, r) ==
  LET c == ClientOf[k]
      token == <<k, calls[k] + 1>>
  IN
  /\ pc[k] = "idle" /\ calls[k] < MaxCalls
  /\ CallAfterRaise \/ ~raised[k]
  /\ pc' = [pc EXCEPT ![k] = "begun"]
  /\ rpc' = [rpc EXCEPT ![k] = r]
  /\ calls' = [calls EXCEPT ![k] = calls[k] + 1]
  /\ got' = [got EXCEPT ![k] = None]
  /\ raised' = [raised EXCEPT ![k] = FALSE]
  /\ reqRow' = IF r \in SharedRpcs THEN [reqRow EXCEPT ![c] = token] ELSE reqRow
  /\ counter' = [counter EXCEPT ![c] = counter[c] + 1]
  /\ UNCHANGED <<want, respRow, queueVars, serviceVars, runVars>>

RequestId(k) == counter[ClientOf[k]]

\* The put: the id is read from the counter again.
Submit(k) ==
  LET c == ClientOf[k]
      payload == IF rpc[k] \in SharedRpcs THEN None ELSE <<k, calls[k]>>
  IN
  /\ pc[k] = "begun"
  /\ pc' = [pc EXCEPT ![k] = "submitted"]
  /\ reqQ' = Append(reqQ, [client |-> c, id |-> RequestId(k), rpc |-> rpc[k], payload |-> payload])
  /\ UNCHANGED <<rpc, calls, want, got, raised, counter, outbox, respQ, rowVars,
                 serviceVars, runVars>>

\* _await is called with the counter, read once more.
StartAwait(k) ==
  /\ pc[k] = "submitted"
  /\ pc' = [pc EXCEPT ![k] = "waiting"]
  /\ want' = [want EXCEPT ![k] = counter[ClientOf[k]]]
  /\ UNCHANGED <<rpc, calls, got, raised, counter, rowVars, queueVars,
                 serviceVars, runVars>>

\* A response arrives: the ordering guard, then the answer (queue) or the row (shared).
Receive(k) ==
  LET c == ClientOf[k]
      m == Head(respQ[c])
      ours == m.id = want[k]
      shared == rpc[k] \in SharedRpcs
  IN
  /\ pc[k] = "waiting" /\ respQ[c] # <<>>
  /\ respQ' = [respQ EXCEPT ![c] = Tail(respQ[c])]
  /\ pc' = [pc EXCEPT ![k] = IF ours /\ shared THEN "reading" ELSE "idle"]
  /\ raised' = [raised EXCEPT ![k] = ~ours]
  /\ got' = IF ours /\ ~shared THEN [got EXCEPT ![k] = m.answer] ELSE got
  /\ UNCHANGED <<rpc, calls, want, counter, rowVars, reqQ, outbox,
                 serviceVars, runVars>>

\* The blocking read came back empty.
Timeout(k) ==
  /\ pc[k] = "waiting" /\ respQ[ClientOf[k]] = <<>>
  /\ pc' = [pc EXCEPT ![k] = "checking"]
  /\ UNCHANGED <<rpc, calls, want, got, raised, counter, rowVars, queueVars,
                 serviceVars, runVars>>

\* Mutants: the stop event is not looked at; a read that times out is the end of
\* the call; the request is put again.
NeverGivesUp == "waiting"
GivesUp      == "idle"
Resubmits    == IF stop THEN "idle" ELSE "begun"

\* ... so the stop event decides between giving up and another read.
AfterTimeout == IF stop THEN "idle" ELSE "waiting"

CheckStop(k) ==
  /\ pc[k] = "checking"
  /\ pc' = [pc EXCEPT ![k] = AfterTimeout]
  /\ raised' = [raised EXCEPT ![k] = AfterTimeout = "idle"]
  /\ UNCHANGED <<rpc, calls, want, got, counter, rowVars, queueVars,
                 serviceVars, runVars>>

\* read_response: clone our row.
ReadRow(k) ==
  /\ pc[k] = "reading"
  /\ pc' = [pc EXCEPT ![k] = "idle"]
  /\ got' = [got EXCEPT ![k] = respRow[ClientOf[k]]]
  /\ UNCHANGED <<rpc, calls, want, raised, counter, rowVars, queueVars,
                 serviceVars, runVars>>

\* A worker process dies in the middle of whatever it was doing.
WorkerDies(k) ==
  /\ "worker" \in Faults /\ InCall(k)
  /\ pc' = [pc EXCEPT ![k] = "dead"]
  /\ UNCHANGED <<rpc, calls, want, got, raised, counter, rowVars, queueVars,
                 serviceVars, runVars>>

CallerStep(k) ==
  \/ Submit(k) \/ StartAwait(k) \/ Receive(k) \/ Timeout(k) \/ CheckStop(k) \/ ReadRow(k)


-----------------------------------------------------------------------------
(* BatchedInferenceService.run: build, then run_worker_loop *)

\* The process ends.  Its memory goes; the responses not yet flushed are kept
\* exactly when the interpreter shuts down in order.
Exit(how) ==
  /\ svc' = "exited" /\ exit' = how
  /\ batch' = <<>> /\ todo' = {} /\ group' = {} /\ outputs' = <<>> /\ verified' = {}
  /\ outbox' = IF how \in {"clean", "error"} THEN outbox ELSE [c \in Clients |-> <<>>]

\* build_model_or_stop
Build ==
  /\ svc = "build"
  /\ svc' = "loop"
  /\ UNCHANGED <<batch, todo, group, outputs, verified, exit, callerVars, rowVars, queueVars, runVars>>

\* ... returning None: the stop event is set and run() returns.
BuildFails ==
  /\ "build" \in Faults /\ svc = "build"
  /\ stop' = TRUE
  /\ Exit("clean")
  /\ UNCHANGED <<callerVars, rowVars, reqQ, respQ, stopSent>>

\* Mutant: while True.
AlwaysRunning == TRUE

KeepRunning == ~stop

\* The loop test, and the weight sync, which changes nothing the protocol sees.
LoopHead ==
  /\ svc = "loop"
  /\ IF KeepRunning
       THEN svc' = "collect" /\ UNCHANGED <<batch, todo, group, outputs, verified, exit, outbox>>
       ELSE Exit("clean")
  /\ UNCHANGED <<callerVars, rowVars, reqQ, respQ, runVars>>

IsSentinel(item) == item = None

\* _collect_batch, the first get comes back empty: IDLE.
CollectIdle ==
  /\ svc = "collect" /\ reqQ = <<>>
  /\ svc' = "loop"
  /\ UNCHANGED <<batch, todo, group, outputs, verified, exit, callerVars, rowVars, queueVars, runVars>>

\* ... or with the sentinel, STOP: the loop is left, and the stop event is not set.
CollectSentinel ==
  /\ svc = "collect" /\ reqQ # <<>> /\ IsSentinel(Head(reqQ))
  /\ reqQ' = Tail(reqQ)
  /\ Exit("clean")
  /\ UNCHANGED <<callerVars, rowVars, respQ, runVars>>

\* ... or with the first request of a batch.
CollectRequest ==
  /\ svc = "collect" /\ reqQ # <<>> /\ ~IsSentinel(Head(reqQ))
  /\ reqQ' = Tail(reqQ)
  /\ batch' = <<Head(reqQ)>>
  /\ svc' = "drain"
  /\ UNCHANGED <<todo, group, outputs, verified, exit, callerVars, rowVars, outbox, respQ, runVars>>

\* The drain: one more request.
DrainRequest ==
  /\ svc = "drain" /\ Len(batch) < MaxBatch /\ reqQ # <<>> /\ ~IsSentinel(Head(reqQ))
  /\ reqQ' = Tail(reqQ)
  /\ batch' = Append(batch, Head(reqQ))
  /\ UNCHANGED <<svc, todo, group, outputs, verified, exit, callerVars, rowVars, outbox, respQ, runVars>>

\* ... or the sentinel: here it does set the stop event, and the batch is still served.
DrainSentinel ==
  /\ svc = "drain" /\ Len(batch) < MaxBatch /\ reqQ # <<>> /\ IsSentinel(Head(reqQ))
  /\ reqQ' = Tail(reqQ)
  /\ stop' = TRUE
  /\ svc' = "partition"
  /\ UNCHANGED <<batch, todo, group, outputs, verified, exit, callerVars, rowVars, outbox, respQ, stopSent>>

\* ... until the batch is full, the queue is empty or the window has elapsed.
DrainEnds ==
  /\ svc = "drain"
  /\ Len(batch) = MaxBatch \/ reqQ = <<>> \/ Windowed
  /\ svc' = "partition"
  /\ UNCHANGED <<batch, todo, group, outputs, verified, exit, callerVars, rowVars, queueVars, runVars>>

\* Mutant: 0 < client_id.
RoutableOffByOne(m) ==
  m.client \in Served \ {CHOOSE c \in Served : TRUE} /\ m.rpc \in ServiceRpcs

Routable(m) == m.client \in Served /\ m.rpc \in ServiceRpcs

\* _partition_routable: the rest of the batch is dropped.
Partition ==
  /\ svc = "partition"
  /\ todo' = {i \in 1..Len(batch) : Routable(batch[i])}
  /\ svc' = IF todo' = {} THEN "loop" ELSE "gather"
  /\ batch' = IF todo' = {} THEN <<>> ELSE batch
  /\ UNCHANGED <<group, outputs, verified, exit, callerVars, rowVars, queueVars, runVars>>

First(i, S) == i \in S /\ \A j \in S : i <= j
Several(S)  == \E i, j \in S : i # j

\* _process_batch, one group: the rpc of the first request left, all its requests.
\* The forward runs on the payloads (queue) or on the clients' rows (shared).
Gather ==
  /\ svc = "gather"
  /\ \E i \in todo :
       LET name == batch[i].rpc
           g == {j \in todo : batch[j].rpc = name}
           shared == name \in SharedRpcs
           input(j) == IF shared THEN reqRow[batch[j].client] ELSE batch[j].payload
       IN
       /\ First(i, todo)
       /\ group' = g
       /\ todo' = todo \ g
       /\ outputs' = [j \in g |-> [rpc |-> name, token |-> input(j),
                                mixed |-> name \in MixingRpcs /\ Several(g)]]
       /\ svc' = IF shared THEN "scatter" ELSE "verify"
  /\ UNCHANGED <<batch, verified, exit, callerVars, rowVars, queueVars, runVars>>

\* Mutant: outputs land in rows by position, not by client id.
FirstOutput(c) == CHOOSE j \in group : TRUE

\* The output for client c: two requests of one client in a group read the same row,
\* so it does not matter which of the two lands.
OutputFor(c) == CHOOSE j \in group : batch[j].client = c

\* scatter_response
Scatter ==
  /\ svc = "scatter"
  /\ respRow' = [c \in Clients |-> IF \E j \in group : batch[j].client = c
                                     THEN outputs[OutputFor(c)] ELSE respRow[c]]
  /\ svc' = "verify"
  /\ UNCHANGED <<batch, todo, group, outputs, verified, exit, callerVars, reqRow, queueVars, runVars>>

\* Mutant: the shared transport is not guarded.
MustVerifyQueued(name) ==
  VerifyRows /\ name \notin SharedRpcs /\ name \notin verified /\ Several(group)

MustVerify(name) == VerifyRows /\ name \notin verified /\ Several(group)

\* An exception that is no memory exhaustion: set the stop event, re-raise.
BatchFails ==
  /\ stop' = TRUE
  /\ Exit("error")
  /\ UNCHANGED <<callerVars, rowVars, reqQ, respQ, stopSent>>

\* _verify_row_independence and its shared-memory twin.
VerifyPasses ==
  /\ svc = "verify"
  /\ \E i \in group :
       LET name == batch[i].rpc IN
       /\ First(i, group)
       /\ MustVerify(name) => ~outputs[i].mixed
       /\ verified' = IF MustVerify(name) THEN verified \cup {name} ELSE verified
  /\ svc' = "answer"
  /\ UNCHANGED <<batch, todo, group, outputs, exit, callerVars, rowVars, queueVars, runVars>>

VerifyFails ==
  /\ svc = "verify"
  /\ \E i \in group : First(i, group) /\ MustVerify(batch[i].rpc) /\ outputs[i].mixed
  /\ BatchFails

\* One put per request of the group, in the order of the batch.
PutResponse ==
  /\ svc = "answer"
  /\ \E i \in group :
       LET m == batch[i]
           answer == IF m.rpc \in SharedRpcs THEN None ELSE outputs[i]
       IN
       /\ First(i, group)
       /\ outbox' = [outbox EXCEPT ![m.client] = Append(outbox[m.client], [id |-> m.id, answer |-> answer])]
       /\ group' = group \ {i}
  /\ svc' = IF group' # {} THEN "answer" ELSE IF todo # {} THEN "gather" ELSE "loop"
  /\ batch' = IF svc' = "loop" THEN <<>> ELSE batch
  /\ outputs' = IF group' = {} THEN <<>> ELSE outputs
  /\ UNCHANGED <<todo, verified, exit, callerVars, rowVars, reqQ, respQ, runVars>>

ServiceStep ==
  \/ Build \/ LoopHead
  \/ CollectIdle \/ CollectSentinel \/ CollectRequest
  \/ DrainRequest \/ DrainSentinel \/ DrainEnds
  \/ Partition \/ Gather \/ Scatter \/ VerifyPasses \/ VerifyFails \/ PutResponse

-----------------------------------------------------------------------------
(* Failures of the service process, and the rest of the run *)

InForward == svc \in {"gather", "scatter", "verify"}

\* The model, the collation or the scatter raises.
ForwardRaises == "raise" \in Faults /\ InForward /\ BatchFails

\* abort_worker_on_oom, from the build, the weight sync or a batch: os._exit(17).
RunsOutOfMemory ==
  /\ "oom" \in Faults
  /\ InForward \/ svc = "build" \/ (svc = "loop" /\ ~stop)
  /\ Exit("oom")
  /\ UNCHANGED <<callerVars, rowVars, reqQ, respQ, runVars>>

\* SIGKILL, by the kernel or by anybody.
Killed ==
  /\ "kill" \in Faults /\ svc # "exited"
  /\ Exit("killed")
  /\ UNCHANGED <<callerVars, rowVars, reqQ, respQ, runVars>>

\* The feeder thread of response queue c.
Flush(c) ==
  /\ outbox[c] # <<>>
  /\ respQ' = [respQ EXCEPT ![c] = Append(@, Head(outbox[c]))]
  /\ outbox' = [outbox EXCEPT ![c] = Tail(outbox[c])]
  /\ UNCHANGED <<callerVars, rowVars, reqQ, serviceVars, runVars>>

\* A WorkerMonitor that holds the service as critical finds it dead.
Supervise ==
  /\ Supervised /\ svc = "exited" /\ ~stop
  /\ \A c \in Clients : outbox[c] = <<>>
  /\ stop' = TRUE
  /\ UNCHANGED <<callerVars, rowVars, queueVars, serviceVars, stopSent>>

\* Anybody else who holds the stop event: a signal handler, a sibling, the trainer.
StopRun ==
  /\ "stop" \in Faults /\ ~stop
  /\ stop' = TRUE
  /\ UNCHANGED <<callerVars, rowVars, queueVars, serviceVars, stopSent>>

\* An orchestrator stops the service through its queue.
SendSentinel ==
  /\ "sentinel" \in Faults /\ ~stopSent
  /\ stopSent' = TRUE
  /\ reqQ' = Append(reqQ, None)
  /\ UNCHANGED <<callerVars, rowVars, outbox, respQ, serviceVars, stop>>

FaultStep ==
  \/ BuildFails \/ ForwardRaises \/ RunsOutOfMemory \/ Killed \/ StopRun \/ SendSentinel
  \/ \E k \in Callers : WorkerDies(k)

Next ==
  \/ \E k \in Callers : CallerStep(k) \/ \E r \in Rpcs : Begin(k, r)
  \/ ServiceStep
  \/ \E c \in Clients : Flush(c)
  \/ Supervise
  \/ FaultStep

Spec == Init /\ [][Next]_vars

\* The processes of one machine are scheduled, a forward returns, a feeder thread
\* flushes and a monitor ticks.  Nobody is obliged to make another call.
Fairness ==
  /\ \A k \in Callers : WF_vars(CallerStep(k))
  /\ WF_vars(ServiceStep)
  /\ \A c \in Clients : WF_vars(Flush(c))
  /\ WF_vars(Supervise)

FairSpec == Spec /\ Fairness


-----------------------------------------------------------------------------
(* Properties *)

CallerTypes ==
  /\ pc \in [Callers -> CallerPhases]
  /\ rpc \in [Callers -> Rpcs \cup {None}]
  /\ \A k \in Callers : InCall(k) => rpc[k] \in Rpcs
  /\ calls \in [Callers -> Nat] /\ want \in [Callers -> Nat]
  /\ got \in [Callers -> Answer \cup {None}]
  /\ raised \in [Callers -> BOOLEAN]
  /\ counter \in [Clients -> Nat]

RowTypes ==
  /\ reqRow \in [Clients -> Token \cup {None}]
  /\ respRow \in [Clients -> Answer]

QueueTypes ==
  /\ reqQ \in Seq(Request \cup {None})
  /\ outbox \in [Clients -> Seq(Response)]
  /\ respQ \in [Clients -> Seq(Response)]

ServiceTypes ==
  /\ svc \in ServicePhases /\ exit \in Exits
  /\ batch \in Seq(Request) /\ Len(batch) <= MaxBatch
  /\ todo \subseteq 1..Len(batch) /\ group \subseteq 1..Len(batch)
  /\ svc \notin {"gather", "scatter", "verify", "answer"} => todo = {}
  /\ svc \notin {"scatter", "verify", "answer"} => group = {}
  /\ group \subseteq DOMAIN outputs /\ \A j \in group : outputs[j] \in Answer
  /\ verified \subseteq Rpcs

\* The variables keep to their types: ids, tokens, rows and messages are what the
\* client and the service put there, and a batch holds requests, at most MaxBatch.
TypeOK ==
  /\ CallerTypes /\ RowTypes /\ QueueTypes /\ ServiceTypes
  /\ stop \in BOOLEAN /\ stopSent \in BOOLEAN

\* A call that returned, returned what its own rpc computes from its own payload
\* (client.py, _await and the ordering guard; one row per client in shared.py).
AnswerIsOwn ==
  \A k \in Callers :
    got[k] # None => got[k].token = <<k, calls[k]>> /\ got[k].rpc = rpc[k]

\* With row verification on, no caller is ever handed an answer that depends on the
\* requests it was batched with, on either transport (batched.py, the check runs
\* after the scatter and before the first put of its group).
NoMixedAnswer ==
  VerifyRows => \A k \in Callers : got[k] # None => ~got[k].mixed

\* Where the requests and the responses of one client can be.
Queued(c)    == {i \in 1..Len(reqQ) : reqQ[i] # None /\ reqQ[i].client = c}
Batched(c)   == {i \in 1..Len(batch) : /\ batch[i].client = c
                                       /\ svc \in {"drain", "partition"} \/ i \in todo \cup group}
Buffered(c)  == 1..Len(outbox[c])
Delivered(c) == 1..Len(respQ[c])
Places(c)    == ({"reqQ"} \X Queued(c)) \cup ({"batch"} \X Batched(c))
                \cup ({"outbox"} \X Buffered(c)) \cup ({"respQ"} \X Delivered(c))

\* One in-flight request per client: between the queues and the service there is
\* never a second request, or a second response, of the same client.
OneInFlight ==
  \A c \in Clients : \A p, q \in Places(c) : p = q

\* A call that raised did so on a stopped run: while the run is on, the ordering
\* guard never fires.
RaiseMeansStopped ==
  \A k \in Callers : raised[k] => stop

\* A request that can be routed is never lost: while the service lives, a caller
\* that has submitted has its request or its response somewhere on the way.
NothingLost ==
  \A k \in Callers :
    /\ pc[k] \in {"submitted", "waiting", "checking"}
    /\ svc # "exited" /\ ClientOf[k] \in Served /\ rpc[k] \in ServiceRpcs
    => Places(ClientOf[k]) # {}

\* The rows of a client belong to one side at a time: while the service works on the
\* request row, it holds the payload of the call that is waiting, and no client
\* reads the response row while the service may still write it.
RowsExclusive ==
  svc \in {"scatter", "verify"} =>
    \A j \in group : batch[j].rpc \in SharedRpcs =>
      \A k \in Callers : ClientOf[k] = batch[j].client =>
        /\ pc[k] # "reading"
        /\ pc[k] \in {"submitted", "waiting", "checking"} => reqRow[ClientOf[k]] = outputs[j].token

\* While nobody stops the run and the service lives, every call is answered: neither
\* the grouping nor the other clients keep a caller waiting for ever.
EveryCallAnswered ==
  \A k \in Callers :
    InCall(k) ~> \/ pc[k] = "idle" /\ ~raised[k]
                 \/ pc[k] = "dead" \/ stop \/ svc = "exited"

\* Every call ends, in a return or in a raise, whatever becomes of the service.
EveryCallEnds ==
  \A k \in Callers : InCall(k) ~> ~InCall(k)

\* A stop, whoever asks for it, ends the service process.
ServiceWindsDown ==
  stop ~> svc = "exited"

\* What a call promises, without the machinery that keeps the promise.
Contract == INSTANCE BlockingCalls WITH
  phase   <- [k \in Callers |-> IF InCall(k) THEN "calling" ELSE pc[k]],
  answer  <- [k \in Callers |-> IF got[k] = None THEN None ELSE got[k].token],
  stopped <- stop

\* The service and its clients implement BlockingCalls.
KeepsContract == Contract!Spec

=============================================================================
