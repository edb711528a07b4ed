------------------------ MODULE BatchedServiceProofs ------------------------
(***************************************************************************)
(* What BatchedService guarantees for any number of callers, clients,      *)
(* rpcs and calls, any batch size and any faults: first the types, then    *)
(* the safety of its documented use, one client object per thread of       *)
(* control and no call after a call that raised; then what that use        *)
(* promises: the rows of a client belong to one side at a time; with       *)
(* verification on no answer depends on the batch it was computed in; and  *)
(* whatever the queues, the batches and the rows do, a call returns its    *)
(* own answer or, on a stopped run, raises: BlockingCalls is implemented.  *)
(***************************************************************************)
EXTENDS BatchedService, SequenceTheorems, TLAPS

-----------------------------------------------------------------------------
(* Type correctness *)

LEMMA ZeroRowType == ZeroRow \in Answer
  BY DEF ZeroRow, Answer

\* None is not a message, an answer or an rpc.
LEMMA NoneApart == None \notin Request /\ None \notin Answer /\ None \notin Rpcs
  BY NoneAssumption

\* The exit of the service process leaves well-typed values behind.
LEMMA ExitTypes ==
  ASSUME QueueTypes, ServiceTypes, NEW how \in Exits, Exit(how)
  PROVE  ServiceTypes' /\ outbox' \in [Clients -> Seq(Response)]
<1>1. ServiceTypes'
  BY ServiceAssumption DEF ServiceTypes, Exit, ServicePhases, ServiceAssumption
<1>2. outbox' \in [Clients -> Seq(Response)]
  BY DEF QueueTypes, Exit
<1> QED
  BY <1>1, <1>2

LEMMA TypeInit == Init => TypeOK
<1> SUFFICES ASSUME Init PROVE TypeOK
  OBVIOUS
<1>1. CallerTypes
  BY DEF Init, CallerTypes, InCall, CallerPhases
<1>2. RowTypes
  BY ZeroRowType DEF Init, RowTypes
<1>3. QueueTypes
  BY DEF Init, QueueTypes
<1>4. ServiceTypes
  BY ServiceAssumption DEF Init, ServiceTypes, ServicePhases, Exits, ServiceAssumption
<1> QED
  BY <1>1, <1>2, <1>3, <1>4 DEF Init, TypeOK

LEMMA CallerStepType ==
  ASSUME TypeOK, NEW k \in Callers,
         CallerStep(k) \/ (\E r \in Rpcs : Begin(k, r)) \/ WorkerDies(k)
  PROVE  TypeOK'
<1> DEFINE c == ClientOf[k]
<1> c \in Clients
  BY ServiceAssumption DEF ServiceAssumption
<1> USE DEF TypeOK
<1>s. ASSUME UNCHANGED serviceVars PROVE ServiceTypes'
  BY <1>s DEF ServiceTypes, serviceVars
<1>r. ASSUME UNCHANGED rowVars PROVE RowTypes'
  BY <1>r DEF RowTypes, rowVars
<1>q. ASSUME UNCHANGED queueVars PROVE QueueTypes'
  BY <1>q DEF QueueTypes, queueVars
<1>1. CASE \E r \in Rpcs : Begin(k, r)
  <2> PICK r \in Rpcs : Begin(k, r)
    BY <1>1
  <2>1. CallerTypes'
    BY DEF Begin, CallerTypes, CallerPhases, InCall
  <2>2. RowTypes'
    BY DEF Begin, RowTypes, CallerTypes, Token
  <2> QED
    BY <2>1, <2>2, <1>s, <1>q DEF Begin, runVars
<1>2. CASE Submit(k)
  <2>1. [client |-> c, id |-> RequestId(k), rpc |-> rpc[k],
         payload |-> IF rpc[k] \in SharedRpcs THEN None ELSE <<k, calls[k]>>] \in Request
    BY <1>2 DEF Submit, RequestId, Request, CallerTypes, InCall, Token
  <2>2. QueueTypes'
    BY <1>2, <2>1 DEF Submit, QueueTypes
  <2>3. CallerTypes'
    BY <1>2 DEF Submit, CallerTypes, CallerPhases, InCall
  <2> QED
    BY <1>2, <2>2, <2>3, <1>s, <1>r DEF Submit, runVars
<1>3. CASE StartAwait(k)
  <2>1. CallerTypes'
    BY <1>3 DEF StartAwait, CallerTypes, CallerPhases, InCall
  <2> QED
    BY <1>3, <2>1, <1>s, <1>r, <1>q DEF StartAwait, runVars
<1>4. CASE Receive(k)
  <2>1. Head(respQ[c]) \in Response /\ Tail(respQ[c]) \in Seq(Response)
    BY <1>4 DEF Receive, QueueTypes
  <2>2. QueueTypes'
    BY <1>4, <2>1 DEF Receive, QueueTypes
  <2>3. CallerTypes'
    BY <1>4, <2>1 DEF Receive, CallerTypes, CallerPhases, InCall, Response
  <2> QED
    BY <1>4, <2>2, <2>3, <1>s, <1>r DEF Receive, runVars
<1>5. CASE Timeout(k)
  <2>1. CallerTypes'
    BY <1>5 DEF Timeout, CallerTypes, CallerPhases, InCall
  <2> QED
    BY <1>5, <2>1, <1>s, <1>r, <1>q DEF Timeout, runVars
<1>6. CASE CheckStop(k)
  <2>1. CallerTypes'
    BY <1>6 DEF CheckStop, AfterTimeout, CallerTypes, CallerPhases, InCall
  <2> QED
    BY <1>6, <2>1, <1>s, <1>r, <1>q DEF CheckStop, runVars
<1>7. CASE ReadRow(k)
  <2>1. CallerTypes'
    BY <1>7 DEF ReadRow, CallerTypes, CallerPhases, InCall, RowTypes
  <2> QED
    BY <1>7, <2>1, <1>s, <1>r, <1>q DEF ReadRow, runVars
<1>8. CASE WorkerDies(k)
  <2>1. CallerTypes'
    BY <1>8 DEF WorkerDies, CallerTypes, CallerPhases, InCall
  <2> QED
    BY <1>8, <2>1, <1>s, <1>r, <1>q DEF WorkerDies, runVars
<1> QED
  BY <1>1, <1>2, <1>3, <1>4, <1>5, <1>6, <1>7, <1>8 DEF CallerStep

LEMMA ServiceStepType ==
  ASSUME TypeOK, ServiceStep
  PROVE  TypeOK'
<1> USE DEF TypeOK
<1>c. ASSUME UNCHANGED callerVars PROVE CallerTypes'
  BY <1>c DEF CallerTypes, callerVars, InCall
<1>r. ASSUME UNCHANGED rowVars PROVE RowTypes'
  BY <1>r DEF RowTypes, rowVars
<1>q. ASSUME UNCHANGED queueVars PROVE QueueTypes'
  BY <1>q DEF QueueTypes, queueVars
<1>t. ASSUME reqQ # <<>>, reqQ' = Tail(reqQ), UNCHANGED respQ, outbox' \in [Clients -> Seq(Response)]
      PROVE  Head(reqQ) \in Request \cup {None} /\ QueueTypes'
  BY <1>t DEF QueueTypes
<1>e. "clean" \in Exits /\ "error" \in Exits
  BY DEF Exits
<1>1. CASE Build
  <2>1. ServiceTypes'
    BY <1>1 DEF Build, ServiceTypes, ServicePhases
  <2> QED
    BY <1>1, <2>1, <1>c, <1>r, <1>q DEF Build, runVars
<1>2. CASE LoopHead
  <2>1. CASE ~KeepRunning
    BY <1>2, <2>1, <1>e, ExitTypes, <1>c, <1>r DEF LoopHead, QueueTypes, runVars
  <2>2. CASE KeepRunning
    <3>1. ServiceTypes'
      BY <1>2, <2>2 DEF LoopHead, ServiceTypes, ServicePhases
    <3> QED
      BY <1>2, <2>2, <3>1, <1>c, <1>r DEF LoopHead, QueueTypes, runVars
  <2> QED
    BY <2>1, <2>2
<1>3. CASE CollectIdle
  <2>1. ServiceTypes'
    BY <1>3 DEF CollectIdle, ServiceTypes, ServicePhases
  <2> QED
    BY <1>3, <2>1, <1>c, <1>r, <1>q DEF CollectIdle, runVars
<1>4. CASE CollectSentinel
  <2>1. QueueTypes'
    BY <1>4, <1>e, <1>t, ExitTypes DEF CollectSentinel
  <2> QED
    BY <1>4, <2>1, <1>e, <1>c, <1>r, ExitTypes DEF CollectSentinel, runVars
<1>5. CASE CollectRequest
  <2>1. QueueTypes' /\ Head(reqQ) \in Request
    BY <1>5, <1>t DEF CollectRequest, QueueTypes, IsSentinel
  <2>2. batch' \in Seq(Request) /\ Len(batch') = 1
    BY <1>5, <2>1 DEF CollectRequest
  <2>3. ServiceTypes'
    BY <1>5, <2>2, ServiceAssumption DEF CollectRequest, ServiceTypes, ServicePhases, ServiceAssumption
  <2> QED
    BY <1>5, <2>1, <2>3, <1>c, <1>r DEF CollectRequest, runVars
<1>6. CASE DrainRequest
  <2>1. QueueTypes' /\ Head(reqQ) \in Request
    BY <1>6, <1>t DEF DrainRequest, QueueTypes, IsSentinel
  <2>2. batch' \in Seq(Request) /\ Len(batch') = Len(batch) + 1
    BY <1>6, <2>1 DEF DrainRequest, ServiceTypes
  <2>3. ServiceTypes'
    BY <1>6, <2>2, ServiceAssumption DEF DrainRequest, ServiceTypes, ServiceAssumption
  <2> QED
    BY <1>6, <2>1, <2>3, <1>c, <1>r DEF DrainRequest, runVars
<1>7. CASE DrainSentinel
  <2>1. QueueTypes'
    BY <1>7, <1>t DEF DrainSentinel, QueueTypes
  <2>2. ServiceTypes'
    BY <1>7 DEF DrainSentinel, ServiceTypes, ServicePhases
  <2> QED
    BY <1>7, <2>1, <2>2, <1>c, <1>r DEF DrainSentinel, runVars
<1>8. CASE DrainEnds
  <2>1. ServiceTypes'
    BY <1>8 DEF DrainEnds, ServiceTypes, ServicePhases
  <2> QED
    BY <1>8, <2>1, <1>c, <1>r, <1>q DEF DrainEnds, runVars
<1>9. CASE Partition
  <2>1. ServiceTypes'
    BY <1>9, ServiceAssumption DEF Partition, ServiceTypes, ServicePhases, ServiceAssumption
  <2> QED
    BY <1>9, <2>1, <1>c, <1>r, <1>q DEF Partition, runVars
<1>10. CASE Gather
  <2>1. PICK i \in todo :
          LET name == batch[i].rpc
              g == {j \in todo : batch[j].rpc = name}
              shared == name \in SharedRpcs
              input(j) == IF shared THEN reqRow[batch[j].client] ELSE batch[j].payload
          IN
          /\ group' = g /\ todo' = todo \ g
          /\ outputs' = [j \in g |-> [rpc |-> name, token |-> input(j),
                                      mixed |-> name \in MixingRpcs /\ Several(g)]]
          /\ svc' = IF shared THEN "scatter" ELSE "verify"
    BY <1>10 DEF Gather
  <2>2. \A j \in todo : batch[j] \in Request
    BY DEF ServiceTypes
  <2>3. \A j \in group' : outputs'[j] \in Answer
    BY <2>1, <2>2 DEF RowTypes, Request, Answer, Several
  <2>4. ServiceTypes'
    BY <1>10, <2>1, <2>3 DEF Gather, ServiceTypes, ServicePhases
  <2> QED
    BY <1>10, <2>4, <1>c, <1>r, <1>q DEF Gather, runVars
<1>11. CASE Scatter
  <2>1. RowTypes'
    BY <1>11 DEF Scatter, OutputFor, RowTypes, ServiceTypes
  <2>2. ServiceTypes'
    BY <1>11 DEF Scatter, ServiceTypes, ServicePhases
  <2> QED
    BY <1>11, <2>1, <2>2, <1>c, <1>q DEF Scatter, runVars
<1>12. CASE VerifyPasses
  <2> PICK i \in group :
        verified' = IF MustVerify(batch[i].rpc) THEN verified \cup {batch[i].rpc} ELSE verified
    BY <1>12 DEF VerifyPasses
  <2> batch[i] \in Request
    BY DEF ServiceTypes
  <2>1. verified' \subseteq Rpcs
    BY DEF ServiceTypes, Request
  <2>2. ServiceTypes'
    BY <1>12, <2>1 DEF VerifyPasses, ServiceTypes, ServicePhases
  <2> QED
    BY <1>12, <2>2, <1>c, <1>r, <1>q DEF VerifyPasses, runVars
<1>13. CASE VerifyFails
  BY <1>13, <1>e, <1>c, <1>r, ExitTypes DEF VerifyFails, BatchFails, QueueTypes
<1>14. CASE PutResponse
  <2>1. PICK i \in group :
          /\ outbox' = [outbox EXCEPT ![batch[i].client] = Append(outbox[batch[i].client],
                          [id |-> batch[i].id,
                           answer |-> IF batch[i].rpc \in SharedRpcs THEN None ELSE outputs[i]])]
          /\ group' = group \ {i}
    BY <1>14 DEF PutResponse
  <2>2. batch[i] \in Request /\ outputs[i] \in Answer
    BY DEF ServiceTypes
  <2> DEFINE r == [id |-> batch[i].id,
                   answer |-> IF batch[i].rpc \in SharedRpcs THEN None ELSE outputs[i]]
  <2>r. r \in Response /\ batch[i].client \in Clients
    BY <2>2 DEF Request, Response
  <2>3. outbox' \in [Clients -> Seq(Response)]
    <3> HIDE DEF r
    <3>1. outbox' = [outbox EXCEPT ![batch[i].client] = Append(outbox[batch[i].client], r)]
      BY <2>1 DEF r
    <3> QED
      BY <3>1, <2>r DEF QueueTypes
  <2>4. ServiceTypes'
    BY <1>14, <2>1, ServiceAssumption
    DEF PutResponse, ServiceTypes, ServicePhases, ServiceAssumption
  <2> QED
    BY <1>14, <2>3, <2>4, <1>c, <1>r DEF PutResponse, QueueTypes, runVars
<1> QED
  BY <1>1, <1>2, <1>3, <1>4, <1>5, <1>6, <1>7, <1>8, <1>9, <1>10, <1>11, <1>12, <1>13, <1>14
  DEF ServiceStep

LEMMA OtherStepType ==
  ASSUME TypeOK,
         \/ \E c \in Clients : Flush(c)
         \/ Supervise \/ BuildFails \/ ForwardRaises \/ RunsOutOfMemory \/ Killed
         \/ StopRun \/ SendSentinel
  PROVE  TypeOK'
<1> USE DEF TypeOK
<1>c. ASSUME UNCHANGED callerVars PROVE CallerTypes'
  BY <1>c DEF CallerTypes, callerVars, InCall
<1>r. ASSUME UNCHANGED rowVars PROVE RowTypes'
  BY <1>r DEF RowTypes, rowVars
<1>q. ASSUME UNCHANGED queueVars PROVE QueueTypes'
  BY <1>q DEF QueueTypes, queueVars
<1>s. ASSUME UNCHANGED serviceVars PROVE ServiceTypes'
  BY <1>s DEF ServiceTypes, serviceVars
<1>e. Exits = {"running", "clean", "error", "oom", "killed"}
  BY DEF Exits
<1>1. CASE \E c \in Clients : Flush(c)
  <2> PICK c \in Clients : Flush(c)
    BY <1>1
  <2>1. QueueTypes'
    BY DEF Flush, QueueTypes
  <2> QED
    BY <2>1, <1>c, <1>r, <1>s DEF Flush, runVars
<1>2. CASE Supervise \/ StopRun
  BY <1>2, <1>c, <1>r, <1>q, <1>s DEF Supervise, StopRun
<1>3. CASE BuildFails \/ ForwardRaises
  BY <1>3, <1>e, <1>c, <1>r, ExitTypes DEF BuildFails, ForwardRaises, BatchFails, QueueTypes
<1>4. CASE RunsOutOfMemory \/ Killed
  BY <1>4, <1>e, <1>c, <1>r, ExitTypes DEF RunsOutOfMemory, Killed, QueueTypes, runVars
<1>5. CASE SendSentinel
  BY <1>5, <1>c, <1>r, <1>s DEF SendSentinel, QueueTypes
<1> QED
  BY <1>1, <1>2, <1>3, <1>4, <1>5

\* Type correctness: every message, row, batch and answer is of the kind that its
\* reader expects, in every behaviour.
THEOREM TypeCorrect == Spec => []TypeOK
<1>1. ASSUME TypeOK, UNCHANGED vars PROVE TypeOK'
  BY <1>1 DEF vars, TypeOK, CallerTypes, RowTypes, QueueTypes, ServiceTypes, InCall,
              callerVars, rowVars, queueVars, serviceVars, runVars
<1>2. TypeOK /\ [Next]_vars => TypeOK'
  BY <1>1, CallerStepType, ServiceStepType, OtherStepType DEF Next, FaultStep
<1> QED
  BY TypeInit, <1>2, PTL DEF Spec

-----------------------------------------------------------------------------
-----------------------------------------------------------------------------
(* The inductive invariant *)

Awaiting(k) == pc[k] \in {"submitted", "waiting", "checking"}

RightAnswer(k, a) == a.token = <<k, calls[k]>> /\ a.rpc = rpc[k]

\* A request of the client of caller k that is the one k is waiting for.
RightRequest(k, m) ==
  /\ m.id = counter[ClientOf[k]]
  /\ m.rpc = rpc[k]
  /\ rpc[k] \notin SharedRpcs => m.payload = <<k, calls[k]>>

\* The same for a response, whose answer may be in the row.
RightResponse(k, r) ==
  /\ r.id = counter[ClientOf[k]]
  /\ IF rpc[k] \in SharedRpcs THEN r.answer = None /\ RightAnswer(k, respRow[ClientOf[k]])
                              ELSE r.answer # None /\ RightAnswer(k, r.answer)

CallerInv(k) ==
  /\ calls[k] = counter[ClientOf[k]]
  /\ pc[k] \in {"waiting", "checking"} => want[k] = counter[ClientOf[k]]
  /\ raised[k] => pc[k] = "idle" /\ stop
  /\ rpc[k] \in SharedRpcs => reqRow[ClientOf[k]] = <<k, calls[k]>>
  /\ pc[k] = "reading" => rpc[k] \in SharedRpcs /\ RightAnswer(k, respRow[ClientOf[k]])
  /\ got[k] # None => RightAnswer(k, got[k])

\* Something of client c is on the way.
Somewhere(c) == Queued(c) # {} \/ Batched(c) # {} \/ Buffered(c) # {} \/ Delivered(c) # {}

\* Only a caller that waits, gave up or died can have something on the way.
Tracked(c) ==
  Somewhere(c) =>
    \E k \in Callers : ClientOf[k] = c /\ (Awaiting(k) \/ raised[k] \/ pc[k] = "dead")

\* OneInFlight, said of the four places one by one.
Single(c) ==
  /\ \A i, j \in Queued(c) : i = j
  /\ \A i, j \in Batched(c) : i = j
  /\ \A i, j \in Buffered(c) : i = j
  /\ \A i, j \in Delivered(c) : i = j
  /\ Queued(c) # {} => Batched(c) = {} /\ Buffered(c) = {} /\ Delivered(c) = {}
  /\ Batched(c) # {} => Buffered(c) = {} /\ Delivered(c) = {}
  /\ Buffered(c) # {} => Delivered(c) = {}

MessagesInv(k) ==
  /\ \A i \in Queued(ClientOf[k]) : RightRequest(k, reqQ[i])
  /\ \A i \in Batched(ClientOf[k]) : RightRequest(k, batch[i])
  /\ \A i \in Buffered(ClientOf[k]) : RightResponse(k, outbox[ClientOf[k]][i])
  /\ \A i \in Delivered(ClientOf[k]) : RightResponse(k, respQ[ClientOf[k]][i])

\* The outputs of a group are those of its requests, and are in the rows once scattered.
OutputsInv(k) ==
  \A i \in group : batch[i].client = ClientOf[k] =>
    /\ RightAnswer(k, outputs[i])
    /\ svc \in {"verify", "answer"} /\ batch[i].rpc \in SharedRpcs =>
         RightAnswer(k, respRow[ClientOf[k]])

\* What a caller waits for is on the way, unless it was dropped or the service is gone.
Kept(k) ==
  Awaiting(k) /\ svc # "exited" /\ ClientOf[k] \in Served /\ rpc[k] \in ServiceRpcs
    => Somewhere(ClientOf[k])

ClientInv(c) == Tracked(c) /\ Single(c)
OwnerInv(k)  == CallerInv(k) /\ MessagesInv(k) /\ OutputsInv(k) /\ Kept(k)

IInv ==
  /\ TypeOK
  /\ todo \cap group = {}
  /\ \A c \in Clients : ClientInv(c)
  /\ \A k \in Callers : OwnerInv(k)

-----------------------------------------------------------------------------
(* What the invariant implies *)

LEMMA PlacesSomewhere ==
  ASSUME NEW c PROVE Places(c) # {} <=> Somewhere(c)
<1>1. ASSUME Somewhere(c) PROVE Places(c) # {}
  <2>1. \/ \E i \in Queued(c) : <<"reqQ", i>> \in Places(c)
        \/ \E i \in Batched(c) : <<"batch", i>> \in Places(c)
        \/ \E i \in Buffered(c) : <<"outbox", i>> \in Places(c)
        \/ \E i \in Delivered(c) : <<"respQ", i>> \in Places(c)
    BY <1>1 DEF Somewhere, Places
  <2> QED
    BY <2>1
<1>2. ASSUME Places(c) # {} PROVE Somewhere(c)
  <2> PICK p : p \in Places(c)
    BY <1>2
  <2> QED
    BY DEF Places, Somewhere
<1> QED
  BY <1>1, <1>2

LEMMA SinglePlaces ==
  ASSUME NEW c, Single(c) PROVE \A p, q \in Places(c) : p = q
  BY DEF Single, Places

LEMMA InvImplies ==
  ASSUME IInv
  PROVE  AnswerIsOwn /\ OneInFlight /\ RaiseMeansStopped /\ NothingLost
<1>1. AnswerIsOwn
  BY DEF IInv, OwnerInv, CallerInv, RightAnswer, AnswerIsOwn
<1>2. OneInFlight
  BY SinglePlaces DEF IInv, ClientInv, OneInFlight
<1>3. RaiseMeansStopped
  BY DEF IInv, OwnerInv, CallerInv, RaiseMeansStopped
<1>4. NothingLost
  BY PlacesSomewhere DEF IInv, OwnerInv, Kept, Awaiting, NothingLost
<1> QED
  BY <1>1, <1>2, <1>3, <1>4

-----------------------------------------------------------------------------
(* The initial states *)

LEMMA InvInit == Init => IInv
<1> SUFFICES ASSUME Init PROVE IInv
  OBVIOUS
<1>1. ASSUME NEW c \in Clients PROVE ~Somewhere(c) /\ Single(c)
  BY DEF Init, Somewhere, Single, Queued, Batched, Buffered, Delivered
<1>2. ASSUME NEW k \in Callers PROVE OwnerInv(k)
  <2> ClientOf[k] \in Clients
    BY ServiceAssumption DEF ServiceAssumption
  <2>1. CallerInv(k)
    BY NoneApart, ServiceAssumption DEF Init, CallerInv, ServiceAssumption
  <2>2. MessagesInv(k)
    BY <1>1 DEF Somewhere, MessagesInv
  <2>3. OutputsInv(k) /\ Kept(k)
    BY DEF Init, OutputsInv, Kept, Awaiting
  <2> QED
    BY <2>1, <2>2, <2>3 DEF OwnerInv
<1> QED
  BY <1>1, <1>2, TypeInit DEF IInv, ClientInv, Tracked, Init

-----------------------------------------------------------------------------
(* Frames: what a step leaves alone *)

\* Nothing that the messages of caller k are compared with changes.
SameCall(k) ==
  /\ calls'[k] = calls[k] /\ rpc'[k] = rpc[k]
  /\ counter'[ClientOf[k]] = counter[ClientOf[k]]
  /\ respRow'[ClientOf[k]] = respRow[ClientOf[k]]

\* Nor anything else that is the caller's own.
SameCaller(k) ==
  /\ SameCall(k)
  /\ pc'[k] = pc[k] /\ want'[k] = want[k] /\ got'[k] = got[k] /\ raised'[k] = raised[k]
  /\ reqRow'[ClientOf[k]] = reqRow[ClientOf[k]]

\* The messages of client c stay where they are.
SameMessages(c) ==
  /\ Queued(c)' = Queued(c) /\ \A i \in Queued(c) : reqQ'[i] = reqQ[i]
  /\ Batched(c)' = Batched(c) /\ \A i \in Batched(c) : batch'[i] = batch[i]
  /\ outbox'[c] = outbox[c] /\ respQ'[c] = respQ[c]

\* The head of a sequence of one is all there is.
LEMMA OneElement ==
  ASSUME NEW S, NEW s \in Seq(S), Len(s) = 1
  PROVE  Head(s) = s[1] /\ Tail(s) = <<>>
<1>1. Tail(s) \in Seq(S) /\ Len(Tail(s)) = 0
  OBVIOUS
<1>2. Tail(s) = <<>>
  BY <1>1, EmptySeq
<1>3. Head(s) = s[1]
  OBVIOUS
<1> QED
  BY <1>2, <1>3

LEMMA SomewhereFrame ==
  ASSUME NEW c, SameMessages(c)
  PROVE  /\ Somewhere(c)' <=> Somewhere(c)
         /\ Buffered(c)' = Buffered(c) /\ Delivered(c)' = Delivered(c)
  BY DEF SameMessages, Somewhere, Buffered, Delivered

LEMMA SingleFrame ==
  ASSUME NEW c, Single(c), SameMessages(c)
  PROVE  Single(c)'
  BY SomewhereFrame DEF Single, SameMessages

LEMMA MessagesFrame ==
  ASSUME NEW k \in Callers, MessagesInv(k), SameCall(k), SameMessages(ClientOf[k])
  PROVE  MessagesInv(k)'
<1>1. \A m : RightRequest(k, m) => RightRequest(k, m)'
  BY DEF RightRequest, SameCall
<1> QED
  BY <1>1, SomewhereFrame
  DEF MessagesInv, SameCall, SameMessages, RightRequest, RightResponse, RightAnswer

LEMMA OutputsFrame ==
  ASSUME NEW k \in Callers, OutputsInv(k), SameCall(k),
         UNCHANGED <<svc, batch, group, outputs>>
  PROVE  OutputsInv(k)'
  BY DEF OutputsInv, SameCall, RightAnswer

LEMMA CallerFrame ==
  ASSUME NEW k \in Callers, CallerInv(k), SameCaller(k), stop => stop'
  PROVE  CallerInv(k)'
  BY DEF CallerInv, SameCaller, SameCall, RightAnswer

LEMMA OwnerFrame ==
  ASSUME NEW k \in Callers, OwnerInv(k), SameCaller(k), SameMessages(ClientOf[k]),
         UNCHANGED <<svc, batch, group, outputs>>, stop => stop'
  PROVE  OwnerInv(k)'
<1>1. CallerInv(k)' /\ MessagesInv(k)' /\ OutputsInv(k)'
  BY CallerFrame, MessagesFrame, OutputsFrame DEF OwnerInv, SameCaller
<1>2. Kept(k)'
  BY SomewhereFrame DEF OwnerInv, Kept, SameCaller, SameCall, Awaiting
<1> QED
  BY <1>1, <1>2 DEF OwnerInv

\* A client whose messages stay, or get fewer, is still tracked.
LEMMA TrackedFrame ==
  ASSUME NEW c, Tracked(c), Somewhere(c)' => Somewhere(c),
         \A k \in Callers : ClientOf[k] = c =>
           pc'[k] = pc[k] /\ raised'[k] = raised[k]
  PROVE  Tracked(c)'
  BY DEF Tracked, Awaiting

\* What is in a group, or still to be grouped, is in the batch.
LEMMA InBatch ==
  ASSUME TypeOK, NEW i \in todo \cup group
  PROVE  i \in 1..Len(batch) /\ batch[i] \in Request /\ i \in Batched(batch[i].client)
  BY DEF TypeOK, ServiceTypes, Batched

\* A caller in another phase has nothing on the way.
LEMMA NothingOnTheWay ==
  ASSUME IInv, DocumentedUse, NEW k \in Callers,
         ~Awaiting(k), ~raised[k], pc[k] # "dead"
  PROVE  ~Somewhere(ClientOf[k]) /\ \A i \in todo \cup group : batch[i].client # ClientOf[k]
<1> ClientOf[k] \in Clients
  BY ServiceAssumption DEF ServiceAssumption
<1>1. ~Somewhere(ClientOf[k])
  BY DEF IInv, ClientInv, Tracked, DocumentedUse
<1>2. \A i \in todo \cup group : batch[i].client # ClientOf[k]
  BY <1>1, InBatch DEF IInv, Somewhere
<1> QED
  BY <1>1, <1>2

-----------------------------------------------------------------------------
(* The steps of a caller *)

Acts(k) == CallerStep(k) \/ (\E r \in Rpcs : Begin(k, r)) \/ WorkerDies(k)

\* A caller touches nothing of another caller and no message of another client.
LEMMA OthersUntouched ==
  ASSUME TypeOK, DocumentedUse, NEW k \in Callers, Acts(k)
  PROVE  /\ UNCHANGED serviceVars /\ todo' = todo /\ stop' = stop
         /\ \A l \in Callers \ {k} : SameCaller(l)
         /\ \A c \in Clients \ {ClientOf[k]} : SameMessages(c)
<1>0. ClientOf[k] \in Clients
  BY ServiceAssumption DEF ServiceAssumption
<1>1. UNCHANGED serviceVars /\ stop' = stop
  BY DEF Acts, CallerStep, Begin, Submit, StartAwait, Receive, Timeout, CheckStop, ReadRow,
         WorkerDies, runVars
<1>2. ASSUME NEW l \in Callers, l # k PROVE SameCaller(l)
  <2>1. ClientOf[l] \in Clients /\ ClientOf[l] # ClientOf[k]
    BY <1>2, ServiceAssumption DEF ServiceAssumption, DocumentedUse
  <2>2. /\ pc'[l] = pc[l] /\ rpc'[l] = rpc[l] /\ calls'[l] = calls[l] /\ want'[l] = want[l]
        /\ got'[l] = got[l] /\ raised'[l] = raised[l]
    BY <1>2 DEF Acts, CallerStep, Begin, Submit, StartAwait, Receive, Timeout, CheckStop,
                ReadRow, WorkerDies, TypeOK, CallerTypes
  <2>3. /\ counter'[ClientOf[l]] = counter[ClientOf[l]]
        /\ reqRow'[ClientOf[l]] = reqRow[ClientOf[l]]
        /\ respRow'[ClientOf[l]] = respRow[ClientOf[l]]
    BY <2>1 DEF Acts, CallerStep, Begin, Submit, StartAwait, Receive, Timeout, CheckStop,
                ReadRow, WorkerDies, TypeOK, CallerTypes, RowTypes, rowVars
  <2> QED
    BY <2>2, <2>3 DEF SameCaller, SameCall
<1>3. ASSUME NEW c \in Clients, c # ClientOf[k] PROVE SameMessages(c)
  <2>1. Batched(c)' = Batched(c) /\ batch' = batch
    BY <1>1 DEF Batched, serviceVars
  <2>2. CASE UNCHANGED queueVars
    BY <2>1, <2>2 DEF SameMessages, queueVars, Queued
  <2>3. CASE Submit(k)
    <3> DEFINE m == [client |-> ClientOf[k], id |-> RequestId(k), rpc |-> rpc[k],
                     payload |-> IF rpc[k] \in SharedRpcs THEN None ELSE <<k, calls[k]>>]
    <3>1. m.client # c /\ reqQ' = Append(reqQ, m) /\ UNCHANGED <<outbox, respQ>>
      BY <1>3, <2>3 DEF Submit
    <3> HIDE DEF m
    <3>2. Queued(c)' = Queued(c) /\ \A i \in Queued(c) : reqQ'[i] = reqQ[i]
      BY <3>1 DEF Queued, TypeOK, QueueTypes
    <3> QED
      BY <2>1, <3>1, <3>2 DEF SameMessages
  <2>4. CASE Receive(k)
    <3>1. respQ'[c] = respQ[c]
      BY <1>3, <2>4 DEF Receive, TypeOK, QueueTypes
    <3> QED
      BY <2>1, <2>4, <3>1 DEF Receive, SameMessages, Queued
  <2> QED
    BY <2>2, <2>3, <2>4 DEF Acts, CallerStep, Begin, StartAwait, Timeout, CheckStop, ReadRow, WorkerDies
<1> QED
  BY <1>1, <1>2, <1>3 DEF serviceVars

\* So what is left to prove of its steps is about the caller and its own client.
LEMMA ActsInv ==
  ASSUME IInv, DocumentedUse, NEW k \in Callers, Acts(k),
         ClientInv(ClientOf[k])', OwnerInv(k)'
  PROVE  IInv'
<1>t. TypeOK
  BY DEF IInv
<1>1. TypeOK'
  BY <1>t, CallerStepType DEF Acts
<1>2. (todo \cap group = {})'
  BY <1>t, OthersUntouched DEF IInv, serviceVars
<1>3. ASSUME NEW l \in Callers, l # k PROVE OwnerInv(l)'
  <2>1. ClientOf[l] \in Clients \ {ClientOf[k]}
    BY <1>3, ServiceAssumption DEF ServiceAssumption, DocumentedUse
  <2>2. SameCaller(l) /\ SameMessages(ClientOf[l])
    BY <1>t, <1>3, <2>1, OthersUntouched
  <2>3. UNCHANGED <<svc, batch, group, outputs>> /\ stop' = stop
    BY <1>t, OthersUntouched DEF serviceVars
  <2> QED
    BY <2>2, <2>3, OwnerFrame DEF IInv
<1>4. ASSUME NEW c \in Clients, c # ClientOf[k] PROVE ClientInv(c)'
  <2>1. SameMessages(c)
    BY <1>t, <1>4, OthersUntouched
  <2>2. \A l \in Callers : ClientOf[l] = c => pc'[l] = pc[l] /\ raised'[l] = raised[l]
    BY <1>t, <1>4, OthersUntouched DEF SameCaller
  <2>3. Tracked(c) /\ Single(c)
    BY DEF IInv, ClientInv
  <2> QED
    BY <2>1, <2>2, <2>3, SomewhereFrame, SingleFrame, TrackedFrame DEF ClientInv
<1> QED
  BY <1>1, <1>2, <1>3, <1>4 DEF IInv

LEMMA BeginInv ==
  ASSUME IInv, DocumentedUse, NEW k \in Callers, NEW r \in Rpcs, Begin(k, r)
  PROVE  ClientInv(ClientOf[k])' /\ OwnerInv(k)'
<1> DEFINE c == ClientOf[k]
<1>0. c \in Clients /\ CallerTypes /\ RowTypes
  BY ServiceAssumption DEF ServiceAssumption, IInv, TypeOK
<1>1. pc[k] = "idle" /\ ~raised[k]
  BY DEF Begin, DocumentedUse
<1>2. ~Somewhere(c) /\ \A i \in todo \cup group : batch[i].client # c
  BY <1>1, NothingOnTheWay DEF Awaiting
<1>3. SameMessages(c) /\ UNCHANGED serviceVars
  BY DEF Begin, SameMessages, queueVars, serviceVars, Queued, Batched
<1>4. ~Somewhere(c)'
  BY <1>2, <1>3, SomewhereFrame
<1>5. CallerInv(k)'
  <2>1. calls'[k] = counter'[c] /\ rpc'[k] = r /\ pc'[k] = "begun" /\ ~raised'[k] /\ got'[k] = None
    BY <1>0 DEF Begin, CallerTypes, IInv, OwnerInv, CallerInv
  <2>2. r \in SharedRpcs => reqRow'[c] = <<k, calls'[k]>>
    BY <1>0 DEF Begin, CallerTypes, RowTypes
  <2> QED
    BY <2>1, <2>2 DEF CallerInv
<1>6. MessagesInv(k)' /\ OutputsInv(k)'
  BY <1>2, <1>3, <1>4 DEF MessagesInv, OutputsInv, Somewhere, serviceVars
<1>7. Kept(k)'
  BY <1>0 DEF Begin, Kept, Awaiting, CallerTypes
<1>8. ClientInv(c)'
  BY <1>3, <1>4, SingleFrame, <1>0 DEF IInv, ClientInv, Tracked
<1> QED
  BY <1>5, <1>6, <1>7, <1>8 DEF OwnerInv

LEMMA SubmitInv ==
  ASSUME IInv, DocumentedUse, NEW k \in Callers, Submit(k)
  PROVE  ClientInv(ClientOf[k])' /\ OwnerInv(k)'
<1> DEFINE c == ClientOf[k]
           m == [client |-> c, id |-> RequestId(k), rpc |-> rpc[k],
                 payload |-> IF rpc[k] \in SharedRpcs THEN None ELSE <<k, calls[k]>>]
<1>0. c \in Clients /\ CallerTypes /\ QueueTypes
  BY ServiceAssumption DEF ServiceAssumption, IInv, TypeOK
<1>1. CallerInv(k)
  BY DEF IInv, OwnerInv
<1>2. ~Somewhere(c) /\ \A i \in todo \cup group : batch[i].client # c
  BY <1>1, NothingOnTheWay DEF Submit, Awaiting, CallerInv
<1>3. UNCHANGED serviceVars /\ UNCHANGED rowVars /\ UNCHANGED <<outbox, respQ, stop>>
  BY DEF Submit, runVars
<1>4. Batched(c)' = {} /\ Buffered(c)' = {} /\ Delivered(c)' = {}
  BY <1>2, <1>3 DEF Somewhere, serviceVars, Batched, Buffered, Delivered
<1>5. m.client = c /\ m # None /\ RightRequest(k, m)
  <2>1. m \in Request
    BY <1>0 DEF Submit, RequestId, Request, CallerTypes, InCall, Token
  <2> QED
    BY <2>1, NoneApart DEF RightRequest, RequestId
<1>6. Queued(c)' = {Len(reqQ) + 1} /\ reqQ'[Len(reqQ) + 1] = m
  <2>1. reqQ' = Append(reqQ, m)
    BY DEF Submit
  <2> HIDE DEF m
  <2> QED
    BY <1>0, <1>2, <1>5, <2>1 DEF Somewhere, Queued, QueueTypes
<1> HIDE DEF m
<1>7. SameCall(k) /\ pc'[k] = "submitted"
  BY <1>0 DEF Submit, SameCall, CallerTypes, rowVars
<1>8. CallerInv(k)'
  BY <1>0, <1>1, <1>3, <1>7 DEF Submit, CallerInv, SameCall, rowVars, CallerTypes, RightAnswer
<1>9. MessagesInv(k)'
  <2>1. /\ m.id = counter'[c] /\ m.rpc = rpc'[k]
        /\ rpc'[k] \notin SharedRpcs => m.payload = <<k, calls'[k]>>
    BY <1>5, <1>7 DEF RightRequest, SameCall
  <2>2. \A i \in Queued(c)' : RightRequest(k, reqQ[i])'
    BY <1>6, <2>1 DEF RightRequest
  <2> QED
    BY <1>4, <2>2 DEF MessagesInv
<1>10. OutputsInv(k)'
  BY <1>2, <1>3 DEF OutputsInv, serviceVars
<1>11. Somewhere(c)' /\ Single(c)'
  BY <1>4, <1>6 DEF Somewhere, Single
<1>12. Tracked(c)' /\ Kept(k)'
  BY <1>7, <1>11 DEF Tracked, Kept, Awaiting
<1> QED
  BY <1>8, <1>9, <1>10, <1>11, <1>12 DEF OwnerInv, ClientInv

\* The steps that only move the caller on.
LEMMA MoveInv ==
  ASSUME IInv, DocumentedUse, NEW k \in Callers,
         StartAwait(k) \/ Timeout(k) \/ CheckStop(k) \/ WorkerDies(k)
  PROVE  ClientInv(ClientOf[k])' /\ OwnerInv(k)'
<1> DEFINE c == ClientOf[k]
<1>0. c \in Clients /\ CallerTypes
  BY ServiceAssumption DEF ServiceAssumption, IInv, TypeOK
<1>1. OwnerInv(k) /\ CallerInv(k)
  BY DEF IInv, OwnerInv
<1>2. /\ SameCall(k) /\ SameMessages(c) /\ UNCHANGED serviceVars
      /\ got' = got /\ reqRow' = reqRow /\ stop' = stop
  BY DEF StartAwait, Timeout, CheckStop, WorkerDies, SameCall, SameMessages, queueVars, rowVars,
         serviceVars, runVars, Queued, Batched
<1>3. CallerInv(k)'
  BY <1>0, <1>1, <1>2
  DEF StartAwait, Timeout, CheckStop, AfterTimeout, WorkerDies, InCall, CallerInv, SameCall,
      CallerTypes, RightAnswer
<1>4. MessagesInv(k)' /\ OutputsInv(k)'
  BY <1>1, <1>2, MessagesFrame, OutputsFrame DEF OwnerInv, serviceVars
<1>5. Kept(k)'
  <2>1. Awaiting(k)' => Awaiting(k)
    BY <1>0 DEF StartAwait, Timeout, CheckStop, WorkerDies, Awaiting, CallerTypes
  <2> QED
    BY <1>1, <1>2, <2>1, SomewhereFrame DEF OwnerInv, Kept, SameCall, serviceVars
<1>6. Tracked(c)'
  <2>1. Awaiting(k)' \/ raised'[k] \/ pc'[k] = "dead"
    BY <1>0 DEF StartAwait, Timeout, CheckStop, AfterTimeout, WorkerDies, Awaiting, CallerTypes
  <2> QED
    BY <2>1 DEF Tracked, Awaiting
<1>7. Single(c)'
  BY <1>0, <1>2, SingleFrame DEF IInv, ClientInv
<1> QED
  BY <1>3, <1>4, <1>5, <1>6, <1>7 DEF OwnerInv, ClientInv

\* The ordering guard never fires: what is delivered is what was asked for.
LEMMA ReceiveInv ==
  ASSUME IInv, DocumentedUse, NEW k \in Callers, Receive(k)
  PROVE  ClientInv(ClientOf[k])' /\ OwnerInv(k)'
<1> DEFINE c == ClientOf[k]
           m == respQ[c][1]
<1>0. c \in Clients /\ CallerTypes /\ QueueTypes /\ TypeOK
  BY ServiceAssumption DEF ServiceAssumption, IInv, TypeOK
<1>1. CallerInv(k) /\ MessagesInv(k) /\ Single(c)
  BY <1>0 DEF IInv, OwnerInv, ClientInv
<1>2. respQ[c] \in Seq(Response) /\ Len(respQ[c]) = 1 /\ Head(respQ[c]) = m /\ Tail(respQ[c]) = <<>>
  <2>1. respQ[c] \in Seq(Response) /\ respQ[c] # <<>>
    BY <1>0 DEF QueueTypes, Receive
  <2>2. 1 \in Delivered(c) /\ Len(respQ[c]) \in Delivered(c)
    BY <2>1 DEF Delivered
  <2>3. Len(respQ[c]) = 1
    BY <1>1, <2>2 DEF Single
  <2> QED
    BY <2>1, <2>3, OneElement
<1>3. RightResponse(k, m) /\ Delivered(c) # {}
  <2>1. 1 \in Delivered(c)
    BY <1>2 DEF Delivered
  <2>2. \A i \in Delivered(c) : RightResponse(k, respQ[c][i])
    BY <1>1 DEF MessagesInv
  <2> QED
    BY <2>1, <2>2
<1>4. Queued(c) = {} /\ Batched(c) = {} /\ Buffered(c) = {}
  BY <1>1, <1>3 DEF Single
<1>5. \A i \in group : batch[i].client # c
  BY <1>0, <1>4, InBatch
<1>6. UNCHANGED serviceVars /\ UNCHANGED rowVars /\ UNCHANGED <<reqQ, outbox, stop, rpc, calls, want, counter>>
  BY DEF Receive, runVars
<1>7. respQ'[c] = <<>>
  BY <1>0, <1>2 DEF Receive, QueueTypes
<1>8. ~Somewhere(c)'
  BY <1>4, <1>6, <1>7 DEF Somewhere, Queued, Batched, Buffered, Delivered, serviceVars
<1>9. m.id = want[k]
  BY <1>1, <1>3 DEF RightResponse, CallerInv, Receive
<1>10. /\ pc'[k] = IF rpc[k] \in SharedRpcs THEN "reading" ELSE "idle"
       /\ ~raised'[k]
       /\ got'[k] = IF rpc[k] \in SharedRpcs THEN got[k] ELSE m.answer
  BY <1>0, <1>2, <1>9 DEF Receive, CallerTypes
<1>11. CallerInv(k)'
  BY <1>1, <1>3, <1>6, <1>10 DEF CallerInv, RightResponse, RightAnswer, rowVars
<1>12. MessagesInv(k)'
  BY <1>8 DEF MessagesInv, Somewhere
<1>13. OutputsInv(k)' /\ Kept(k)'
  BY <1>5, <1>6, <1>10 DEF OutputsInv, Kept, Awaiting, serviceVars
<1>14. ClientInv(c)'
  BY <1>8 DEF ClientInv, Tracked, Single, Somewhere
<1> QED
  BY <1>11, <1>12, <1>13, <1>14 DEF OwnerInv

LEMMA ReadRowInv ==
  ASSUME IInv, DocumentedUse, NEW k \in Callers, ReadRow(k)
  PROVE  ClientInv(ClientOf[k])' /\ OwnerInv(k)'
<1> DEFINE c == ClientOf[k]
<1>0. c \in Clients /\ CallerTypes
  BY ServiceAssumption DEF ServiceAssumption, IInv, TypeOK
<1>1. OwnerInv(k) /\ CallerInv(k)
  BY DEF IInv, OwnerInv
<1>2. /\ SameCall(k) /\ SameMessages(c) /\ UNCHANGED serviceVars
      /\ raised' = raised /\ want' = want /\ reqRow' = reqRow /\ stop' = stop
  BY DEF ReadRow, SameCall, SameMessages, queueVars, rowVars, serviceVars, runVars, Queued, Batched
<1>3. pc'[k] = "idle" /\ got'[k] = respRow[c] /\ ~raised[k]
  BY <1>0, <1>1 DEF ReadRow, CallerTypes, CallerInv
<1>4. CallerInv(k)'
  BY <1>1, <1>2, <1>3 DEF ReadRow, CallerInv, SameCall, RightAnswer
<1>5. MessagesInv(k)' /\ OutputsInv(k)' /\ Kept(k)'
  BY <1>1, <1>2, <1>3, MessagesFrame, OutputsFrame DEF OwnerInv, Kept, Awaiting, serviceVars
<1>6. ~Somewhere(c)'
  BY <1>2, <1>3, NothingOnTheWay, SomewhereFrame DEF ReadRow, Awaiting
<1>7. ClientInv(c)'
  BY <1>0, <1>2, <1>6, SingleFrame DEF IInv, ClientInv, Tracked
<1> QED
  BY <1>4, <1>5, <1>7 DEF OwnerInv

LEMMA CallersInv ==
  ASSUME IInv, DocumentedUse, NEW k \in Callers, Acts(k)
  PROVE  IInv'
<1>1. ClientInv(ClientOf[k])' /\ OwnerInv(k)'
  BY BeginInv, SubmitInv, MoveInv, ReceiveInv, ReadRowInv DEF Acts, CallerStep
<1> QED
  BY <1>1, ActsInv

-----------------------------------------------------------------------------
(* The steps of the service, its feeders and the rest of the run *)

\* What such a step must keep, when it touches neither callers nor rows.
LEMMA ServiceFrame ==
  ASSUME IInv, TypeOK', (todo \cap group = {})',
         UNCHANGED callerVars, UNCHANGED rowVars, stop => stop',
         \A c \in Clients : Single(c)' /\ (Somewhere(c)' => Somewhere(c)),
         \A k \in Callers : MessagesInv(k)' /\ OutputsInv(k)' /\ Kept(k)'
  PROVE  IInv'
<1>1. ASSUME NEW c \in Clients PROVE ClientInv(c)'
  <2>1. Tracked(c)'
    BY TrackedFrame DEF IInv, ClientInv, callerVars
  <2> QED
    BY <2>1 DEF ClientInv
<1>2. ASSUME NEW k \in Callers PROVE OwnerInv(k)'
  <2>1. SameCaller(k)
    BY DEF SameCaller, SameCall, callerVars, rowVars
  <2>2. CallerInv(k)'
    BY <2>1, CallerFrame DEF IInv, OwnerInv
  <2> QED
    BY <2>2 DEF OwnerInv
<1> QED
  BY <1>1, <1>2 DEF IInv

LEMMA SameCalls ==
  ASSUME UNCHANGED callerVars, UNCHANGED rowVars
  PROVE  \A k \in Callers : SameCall(k) /\ (Awaiting(k)' <=> Awaiting(k))
  BY DEF SameCall, Awaiting, callerVars, rowVars

\* Requests leave the queue, the batch or a buffer, and nothing else happens to them.
FewerMessages(c) ==
  /\ \E d \in {0, 1} : \A i \in Queued(c)' : i + d \in Queued(c) /\ reqQ'[i] = reqQ[i + d]
  /\ Batched(c)' \subseteq Batched(c) /\ \A i \in Batched(c)' : batch'[i] = batch[i]
  /\ outbox'[c] \in {outbox[c], <<>>} /\ respQ'[c] = respQ[c]

LEMMA FewerPlaces ==
  ASSUME NEW c, FewerMessages(c)
  PROVE  /\ Queued(c)' # {} => Queued(c) # {}
         /\ Batched(c)' \subseteq Batched(c)
         /\ Buffered(c)' = {} \/ (Buffered(c)' = Buffered(c) /\ outbox'[c] = outbox[c])
         /\ Delivered(c)' = Delivered(c)
  BY DEF FewerMessages, Buffered, Delivered

LEMMA FewerFrame ==
  ASSUME NEW c, Single(c), FewerMessages(c)
  PROVE  Single(c)' /\ (Somewhere(c)' => Somewhere(c))
<1>1. \A i, j \in Queued(c)' : i = j
  <2> PICK d \in {0, 1} : \A i \in Queued(c)' : i + d \in Queued(c)
    BY DEF FewerMessages
  <2> SUFFICES ASSUME NEW i \in Queued(c)', NEW j \in Queued(c)' PROVE i = j
    OBVIOUS
  <2>1. i \in Int /\ j \in Int
    BY DEF Queued
  <2>2. i + d = j + d
    BY DEF Single
  <2> QED
    BY <2>1, <2>2
<1> QED
  BY <1>1, FewerPlaces DEF Single, Somewhere

LEMMA FewerMessagesFrame ==
  ASSUME NEW k \in Callers, MessagesInv(k), SameCall(k), FewerMessages(ClientOf[k])
  PROVE  MessagesInv(k)'
<1> DEFINE c == ClientOf[k]
<1>1. \A i \in Queued(c)' : RightRequest(k, reqQ[i])'
  BY DEF FewerMessages, MessagesInv, RightRequest, SameCall
<1>2. \A i \in Batched(c)' : RightRequest(k, batch[i])'
  BY DEF FewerMessages, MessagesInv, RightRequest, SameCall
<1>3. \A i \in Buffered(c)' : RightResponse(k, outbox[c][i])'
  BY FewerPlaces DEF MessagesInv, RightResponse, RightAnswer, SameCall
<1>4. \A i \in Delivered(c)' : RightResponse(k, respQ[c][i])'
  BY FewerPlaces DEF FewerMessages, MessagesInv, RightResponse, RightAnswer, SameCall
<1> QED
  BY <1>1, <1>2, <1>3, <1>4 DEF MessagesInv

\* The steps that move no message of a client.
LEMMA StayInv ==
  ASSUME IInv,
         \/ Build \/ (LoopHead /\ KeepRunning) \/ CollectIdle \/ DrainEnds \/ VerifyPasses
         \/ Supervise \/ StopRun \/ SendSentinel
  PROVE  IInv'
<1>t. TypeOK
  BY DEF IInv
<1>1. TypeOK'
  BY <1>t, ServiceStepType, OtherStepType DEF ServiceStep
<1>2. /\ UNCHANGED callerVars /\ UNCHANGED rowVars /\ UNCHANGED <<batch, todo, group, outputs, outbox, respQ>>
      /\ stop => stop'
      /\ svc' = "exited" <=> svc = "exited"
  BY DEF Build, LoopHead, CollectIdle, DrainEnds, VerifyPasses, Supervise, StopRun, SendSentinel,
         queueVars, serviceVars, runVars
<1>3. ASSUME NEW c \in Clients PROVE SameMessages(c)
  <2>1. Batched(c)' = Batched(c)
    BY <1>2 DEF Build, LoopHead, CollectIdle, DrainEnds, VerifyPasses, Supervise, StopRun,
                SendSentinel, serviceVars, Batched
  <2>2. Queued(c)' = Queued(c) /\ \A i \in Queued(c) : reqQ'[i] = reqQ[i]
    <3>1. CASE reqQ' = reqQ
      BY <3>1 DEF Queued
    <3>2. CASE SendSentinel
      BY <1>t, <3>2 DEF SendSentinel, Queued, TypeOK, QueueTypes
    <3> QED
      BY <3>1, <3>2 DEF Build, LoopHead, CollectIdle, DrainEnds, VerifyPasses, Supervise, StopRun, queueVars
  <2> QED
    BY <1>2, <2>1, <2>2 DEF SameMessages
<1>4. ASSUME NEW c \in Clients PROVE Single(c)' /\ (Somewhere(c)' <=> Somewhere(c))
  BY <1>3, SomewhereFrame, SingleFrame DEF IInv, ClientInv
<1>5. ASSUME NEW k \in Callers PROVE MessagesInv(k)' /\ OutputsInv(k)' /\ Kept(k)'
  <2>0. ClientOf[k] \in Clients /\ SameCall(k) /\ (Awaiting(k)' <=> Awaiting(k)) /\ OwnerInv(k)
    BY <1>2, SameCalls, ServiceAssumption DEF ServiceAssumption, IInv
  <2>1. MessagesInv(k)'
    BY <1>3, <2>0, MessagesFrame DEF OwnerInv
  <2>2. OutputsInv(k)'
    <3>1. group = {} \/ svc' = svc \/ svc = "verify"
      BY <1>t DEF TypeOK, ServiceTypes, Build, LoopHead, CollectIdle, DrainEnds, Supervise,
                  VerifyPasses, StopRun, SendSentinel, serviceVars
    <3> QED
      BY <1>2, <2>0, <3>1 DEF OwnerInv, OutputsInv, SameCall, RightAnswer
  <2>3. Kept(k)'
    <3>1. Somewhere(ClientOf[k])' <=> Somewhere(ClientOf[k])
      BY <1>4, <2>0
    <3> QED
      BY <1>2, <2>0, <3>1 DEF OwnerInv, Kept, SameCall
  <2> QED
    BY <2>1, <2>2, <2>3
<1>6. (todo \cap group = {})'
  BY <1>2 DEF IInv
<1> QED
  BY <1>1, <1>2, <1>4, <1>5, <1>6, ServiceFrame

LEMMA TailQueued ==
  ASSUME TypeOK, reqQ # <<>>, reqQ' = Tail(reqQ), NEW c
  PROVE  /\ \A i \in Queued(c)' : i + 1 \in Queued(c) /\ reqQ'[i] = reqQ[i + 1]
         /\ \A i \in Queued(c) : i = 1 \/ i - 1 \in Queued(c)'
  BY DEF Queued, TypeOK, QueueTypes

\* The end of the service process, in any way.
LEMMA ExitInv ==
  ASSUME IInv, TypeOK', NEW how \in Exits, Exit(how),
         UNCHANGED callerVars, UNCHANGED rowVars, UNCHANGED respQ, stop => stop',
         reqQ' = reqQ \/ (reqQ # <<>> /\ reqQ' = Tail(reqQ))
  PROVE  IInv'
<1>1. svc' = "exited" /\ todo' = {} /\ group' = {}
  BY DEF Exit
<1>2. ASSUME NEW c \in Clients PROVE FewerMessages(c)
  <2>1. Batched(c)' = {}
    BY <1>1 DEF Batched
  <2>2. outbox'[c] \in {outbox[c], <<>>}
    BY DEF Exit
  <2>3. CASE reqQ' = reqQ
    <3>1. \A i \in Queued(c)' : i + 0 \in Queued(c) /\ reqQ'[i] = reqQ[i + 0]
      BY <2>3 DEF Queued
    <3> QED
      BY <2>1, <2>2, <3>1 DEF FewerMessages
  <2>4. CASE reqQ # <<>> /\ reqQ' = Tail(reqQ)
    BY <2>1, <2>2, <2>4, TailQueued DEF FewerMessages, IInv
  <2> QED
    BY <2>3, <2>4
<1>3. ASSUME NEW c \in Clients PROVE Single(c)' /\ (Somewhere(c)' => Somewhere(c))
  BY <1>2, FewerFrame DEF IInv, ClientInv
<1>4. ASSUME NEW k \in Callers PROVE MessagesInv(k)' /\ OutputsInv(k)' /\ Kept(k)'
  <2>1. ClientOf[k] \in Clients /\ SameCall(k) /\ MessagesInv(k)
    BY SameCalls, ServiceAssumption DEF ServiceAssumption, IInv, OwnerInv
  <2>2. MessagesInv(k)'
    BY <1>2, <2>1, FewerMessagesFrame
  <2> QED
    BY <1>1, <2>2 DEF OutputsInv, Kept
<1> QED
  BY <1>1, <1>3, <1>4, ServiceFrame

LEMMA ExitsInv ==
  ASSUME IInv,
         \/ BuildFails \/ (LoopHead /\ ~KeepRunning) \/ CollectSentinel \/ VerifyFails
         \/ ForwardRaises \/ RunsOutOfMemory \/ Killed
  PROVE  IInv'
<1>1. TypeOK'
  BY ServiceStepType, OtherStepType DEF IInv, ServiceStep
<1>2. PICK how \in Exits : Exit(how)
  BY DEF BuildFails, LoopHead, CollectSentinel, VerifyFails, ForwardRaises, BatchFails,
         RunsOutOfMemory, Killed, Exits
<1>3. /\ UNCHANGED callerVars /\ UNCHANGED rowVars /\ UNCHANGED respQ /\ (stop => stop')
      /\ reqQ' = reqQ \/ (reqQ # <<>> /\ reqQ' = Tail(reqQ))
  BY DEF BuildFails, LoopHead, CollectSentinel, VerifyFails, ForwardRaises, BatchFails,
         RunsOutOfMemory, Killed, runVars
<1> QED
  BY <1>1, <1>2, <1>3, ExitInv

\* A request moves from the head of the queue into the batch.
LEMMA TakeInv ==
  ASSUME IInv, CollectRequest \/ DrainRequest
  PROVE  IInv'
<1> DEFINE m == Head(reqQ)
           n == Len(batch') 
<1>t. TypeOK /\ TypeOK'
  BY ServiceStepType DEF IInv, ServiceStep
<1>0. todo = {} /\ group = {} /\ todo' = {} /\ group' = {} /\ svc # "exited"
  BY <1>t DEF TypeOK, ServiceTypes, CollectRequest, DrainRequest
<1>1. /\ reqQ # <<>> /\ reqQ' = Tail(reqQ) /\ UNCHANGED <<outbox, respQ, stop>>
      /\ UNCHANGED callerVars /\ UNCHANGED rowVars /\ svc' = "drain"
  BY DEF CollectRequest, DrainRequest, runVars
<1>2. m = reqQ[1] /\ 1 \in 1..Len(reqQ) /\ m # None
  BY <1>t DEF TypeOK, QueueTypes, CollectRequest, DrainRequest, IsSentinel
<1>3. /\ n \in Nat /\ n \in 1..n /\ batch'[n] = m
      /\ \A c \in Clients : Batched(c)' = IF m.client = c THEN Batched(c) \cup {n} ELSE Batched(c)
      /\ \A c \in Clients : \A i \in Batched(c) : batch'[i] = batch[i]
  <2>1. CASE CollectRequest
    <3>1. batch' = <<m>> /\ svc = "collect"
      BY <2>1 DEF CollectRequest
    <3>2. n = 1 /\ batch'[n] = m
      BY <3>1
    <3>3. \A c \in Clients : Batched(c) = {}
      BY <1>0, <3>1 DEF Batched
    <3>4. \A c \in Clients : Batched(c)' = IF m.client = c THEN {n} ELSE {}
      BY <1>1, <3>2 DEF Batched
    <3> QED
      BY <3>2, <3>3, <3>4
  <2>2. CASE DrainRequest
    <3>1. batch' = Append(batch, m) /\ svc = "drain" /\ m \in Request
      BY <1>t, <2>2 DEF DrainRequest, IsSentinel, TypeOK, QueueTypes
    <3>2. n = Len(batch) + 1 /\ batch'[n] = m /\ \A i \in 1..Len(batch) : batch'[i] = batch[i]
      BY <1>t, <3>1 DEF TypeOK, ServiceTypes
    <3>3. Len(batch) \in Nat
      BY <1>t DEF TypeOK, ServiceTypes
    <3>4. \A c \in Clients : Batched(c)' = IF m.client = c THEN Batched(c) \cup {n} ELSE Batched(c)
      BY <1>1, <3>1, <3>2, <3>3 DEF Batched
    <3>5. \A c \in Clients : \A i \in Batched(c) : batch'[i] = batch[i]
      BY <3>2 DEF Batched
    <3> QED
      BY <3>2, <3>3, <3>4, <3>5
  <2> QED
    BY <2>1, <2>2
<1> HIDE DEF m, n
<1>4. ASSUME NEW c \in Clients, m.client # c PROVE FewerMessages(c)
  BY <1>t, <1>1, <1>3, <1>4, TailQueued DEF FewerMessages
<1>5. ASSUME NEW c \in Clients, m.client = c
      PROVE  /\ Queued(c) = {1} /\ Queued(c)' = {} /\ Batched(c)' = {n}
             /\ Buffered(c)' = {} /\ Delivered(c)' = {}
  <2>1. Single(c)
    BY DEF IInv, ClientInv
  <2>2. 1 \in Queued(c)
    BY <1>2, <1>5 DEF Queued
  <2>3. Queued(c) = {1} /\ Batched(c) = {} /\ Buffered(c) = {} /\ Delivered(c) = {}
    BY <2>1, <2>2 DEF Single
  <2>4. \A i \in Queued(c)' : i = 0
    <3>1. \A i \in Queued(c)' : i \in Int /\ i + 1 = 1
      BY <1>t, <1>1, <2>3, TailQueued DEF Queued
    <3> QED
      BY <3>1
  <2>5. Queued(c)' = {}
    BY <2>4 DEF Queued
  <2> QED
    BY <1>1, <1>3, <1>5, <2>3, <2>5 DEF Buffered, Delivered
<1>6. ASSUME NEW c \in Clients PROVE Single(c)' /\ (Somewhere(c)' => Somewhere(c))
  <2>1. CASE m.client = c
    BY <1>5, <2>1 DEF Single, Somewhere
  <2>2. CASE m.client # c
    BY <1>4, <2>2, FewerFrame DEF IInv, ClientInv
  <2> QED
    BY <2>1, <2>2
<1>7. ASSUME NEW k \in Callers PROVE MessagesInv(k)' /\ OutputsInv(k)' /\ Kept(k)'
  <2>1. ClientOf[k] \in Clients /\ SameCall(k) /\ MessagesInv(k) /\ Kept(k) /\ (Awaiting(k)' <=> Awaiting(k))
    BY <1>1, SameCalls, ServiceAssumption DEF ServiceAssumption, IInv, OwnerInv
  <2>2. CASE m.client = ClientOf[k]
    <3>1. /\ Queued(ClientOf[k]) = {1} /\ Queued(ClientOf[k])' = {} /\ Batched(ClientOf[k])' = {n}
          /\ Buffered(ClientOf[k])' = {} /\ Delivered(ClientOf[k])' = {}
      BY <1>5, <2>1, <2>2
    <3>2. RightRequest(k, m)
      BY <1>2, <2>1, <3>1 DEF MessagesInv
    <3>3. MessagesInv(k)'
      BY <1>3, <2>1, <3>1, <3>2 DEF MessagesInv, RightRequest, SameCall
    <3>4. Kept(k)'
      BY <3>1 DEF Kept, Somewhere
    <3> QED
      BY <1>0, <3>3, <3>4 DEF OutputsInv
  <2>3. CASE m.client # ClientOf[k]
    <3>1. MessagesInv(k)'
      BY <1>4, <2>1, <2>3, FewerMessagesFrame
    <3>2. Somewhere(ClientOf[k]) => Somewhere(ClientOf[k])'
      <4>1. Queued(ClientOf[k]) # {} => Queued(ClientOf[k])' # {}
        <5>1. 1 \notin Queued(ClientOf[k])
          BY <1>2, <2>3 DEF Queued
        <5> QED
          BY <1>t, <1>1, <5>1, TailQueued
      <4>2. Batched(ClientOf[k])' = Batched(ClientOf[k])
        BY <1>3, <2>1, <2>3
      <4> QED
        BY <1>1, <4>1, <4>2 DEF Somewhere, Buffered, Delivered
    <3>3. Kept(k)'
      BY <1>0, <2>1, <3>2 DEF Kept, SameCall
    <3> QED
      BY <1>0, <3>1, <3>3 DEF OutputsInv
  <2> QED
    BY <2>2, <2>3
<1> QED
  BY <1>t, <1>0, <1>1, <1>6, <1>7, ServiceFrame

LEMMA DrainSentinelInv ==
  ASSUME IInv, DrainSentinel
  PROVE  IInv'
<1>t. TypeOK /\ TypeOK'
  BY ServiceStepType DEF IInv, ServiceStep
<1>1. /\ reqQ # <<>> /\ reqQ' = Tail(reqQ) /\ UNCHANGED <<outbox, respQ, batch, todo, group>>
      /\ UNCHANGED callerVars /\ UNCHANGED rowVars /\ stop' /\ svc = "drain" /\ svc' = "partition"
  BY DEF DrainSentinel
<1>2. group = {}
  BY <1>t, <1>1 DEF TypeOK, ServiceTypes
<1>3. ASSUME NEW c \in Clients
      PROVE  FewerMessages(c) /\ (Somewhere(c) => Somewhere(c)')
  <2>1. Batched(c)' = Batched(c)
    BY <1>1 DEF Batched
  <2>2. FewerMessages(c)
    BY <1>t, <1>1, <2>1, TailQueued DEF FewerMessages
  <2>3. 1 \notin Queued(c)
    <3>1. reqQ[1] = None
      BY <1>t, <1>1 DEF TypeOK, QueueTypes, DrainSentinel, IsSentinel
    <3> QED
      BY <3>1 DEF Queued
  <2>4. Queued(c) # {} => Queued(c)' # {}
    BY <1>t, <1>1, <2>3, TailQueued
  <2> QED
    BY <1>1, <2>1, <2>2, <2>4 DEF Somewhere, Buffered, Delivered
<1>4. ASSUME NEW c \in Clients PROVE Single(c)' /\ (Somewhere(c)' => Somewhere(c))
  BY <1>3, FewerFrame DEF IInv, ClientInv
<1>5. ASSUME NEW k \in Callers PROVE MessagesInv(k)' /\ OutputsInv(k)' /\ Kept(k)'
  <2>1. /\ ClientOf[k] \in Clients /\ SameCall(k) /\ MessagesInv(k) /\ Kept(k)
        /\ Awaiting(k)' <=> Awaiting(k)
    BY <1>1, SameCalls, ServiceAssumption DEF ServiceAssumption, IInv, OwnerInv
  <2>2. MessagesInv(k)'
    BY <1>3, <2>1, FewerMessagesFrame
  <2>3. Somewhere(ClientOf[k]) => Somewhere(ClientOf[k])'
    BY <1>3, <2>1
  <2> QED
    BY <1>1, <1>2, <2>1, <2>2, <2>3 DEF OutputsInv, Kept, SameCall
<1> QED
  BY <1>t, <1>1, <1>2, <1>4, <1>5, ServiceFrame

\* Only what cannot be routed is dropped.
LEMMA PartitionInv ==
  ASSUME IInv, Partition
  PROVE  IInv'
<1>t. TypeOK /\ TypeOK'
  BY ServiceStepType DEF IInv, ServiceStep
<1>1. /\ UNCHANGED callerVars /\ UNCHANGED rowVars /\ UNCHANGED <<reqQ, outbox, respQ, stop>>
      /\ svc = "partition" /\ svc' \in {"loop", "gather"}
      /\ todo' = {i \in 1..Len(batch) : Routable(batch[i])}
      /\ batch' = IF todo' = {} THEN <<>> ELSE batch
      /\ todo' = {} => svc' = "loop"
      /\ todo' # {} => svc' = "gather"
  BY DEF Partition, queueVars, runVars
<1>2. group = {} /\ group' = {}
  BY <1>t, <1>1 DEF TypeOK, ServiceTypes, Partition
<1>3. ASSUME NEW c \in Clients
      PROVE  Batched(c)' = {i \in Batched(c) : Routable(batch[i])}
  <2>1. CASE todo' = {}
    BY <1>1, <1>2, <2>1 DEF Batched
  <2>2. CASE todo' # {}
    BY <1>1, <1>2, <2>2 DEF Batched
  <2> QED
    BY <2>1, <2>2
<1>4. ASSUME NEW c \in Clients PROVE FewerMessages(c)
  <2>1. \A i \in Batched(c)' : batch'[i] = batch[i]
    BY <1>1, <1>2 DEF Batched
  <2>2. \A i \in Queued(c)' : i + 0 \in Queued(c) /\ reqQ'[i] = reqQ[i + 0]
    BY <1>1 DEF Queued
  <2> QED
    BY <1>1, <1>3, <2>1, <2>2 DEF FewerMessages
<1>5. ASSUME NEW c \in Clients PROVE Single(c)' /\ (Somewhere(c)' => Somewhere(c))
  BY <1>4, FewerFrame DEF IInv, ClientInv
<1>6. ASSUME NEW k \in Callers PROVE MessagesInv(k)' /\ OutputsInv(k)' /\ Kept(k)'
  <2> DEFINE c == ClientOf[k]
  <2>1. c \in Clients /\ SameCall(k) /\ MessagesInv(k) /\ Kept(k) /\ (Awaiting(k)' <=> Awaiting(k))
    BY <1>1, SameCalls, ServiceAssumption DEF ServiceAssumption, IInv, OwnerInv
  <2>2. MessagesInv(k)'
    BY <1>4, <2>1, FewerMessagesFrame
  <2>3. ASSUME Awaiting(k)', c \in Served, rpc'[k] \in ServiceRpcs PROVE Somewhere(c)'
    <3>1. Somewhere(c) /\ c \in Served /\ rpc[k] \in ServiceRpcs
      BY <1>1, <2>1, <2>3 DEF Kept, SameCall
    <3>2. Queued(c)' = Queued(c) /\ Buffered(c)' = Buffered(c) /\ Delivered(c)' = Delivered(c)
      BY <1>1 DEF Queued, Buffered, Delivered
    <3>3. ASSUME NEW i \in Batched(c) PROVE Routable(batch[i])
      BY <2>1, <3>1 DEF MessagesInv, RightRequest, Batched, Routable
    <3>4. Batched(c)' = Batched(c)
      BY <1>3, <2>1, <3>3
    <3> QED
      BY <3>1, <3>2, <3>4 DEF Somewhere
  <2> QED
    BY <1>2, <2>2, <2>3 DEF OutputsInv, Kept
<1> QED
  BY <1>t, <1>1, <1>2, <1>5, <1>6, ServiceFrame

\* The forward runs on what the callers of the group have asked for.
LEMMA GatherInv ==
  ASSUME IInv, Gather
  PROVE  IInv'
<1>t. TypeOK /\ TypeOK'
  BY ServiceStepType DEF IInv, ServiceStep
<1>1. /\ UNCHANGED callerVars /\ UNCHANGED rowVars /\ UNCHANGED queueVars /\ UNCHANGED <<batch, stop>>
      /\ svc = "gather" /\ group = {}
  BY <1>t DEF Gather, runVars, TypeOK, ServiceTypes
<1>2. PICK h \in todo :
        LET name == batch[h].rpc
            shared == name \in SharedRpcs
            input(j) == IF shared THEN reqRow[batch[j].client] ELSE batch[j].payload
        IN
        /\ group' = {j \in todo : batch[j].rpc = name}
        /\ todo' = todo \ {j \in todo : batch[j].rpc = name}
        /\ outputs' = [j \in {i \in todo : batch[i].rpc = name} |->
                         [rpc |-> name, token |-> input(j),
                          mixed |-> name \in MixingRpcs /\ Several({i \in todo : batch[i].rpc = name})]]
        /\ svc' = IF shared THEN "scatter" ELSE "verify"
  BY DEF Gather
<1>3. todo' \cup group' = todo /\ (todo \cap group)' = {} /\ svc' \in {"scatter", "verify"}
  BY <1>2
<1>4. ASSUME NEW c \in Clients PROVE SameMessages(c)
  <2>1. Batched(c)' = Batched(c)
    BY <1>1, <1>3 DEF Batched
  <2> QED
    BY <1>1, <2>1 DEF SameMessages, queueVars, Queued
<1>5. ASSUME NEW c \in Clients PROVE Single(c)' /\ (Somewhere(c)' <=> Somewhere(c))
  BY <1>4, SomewhereFrame, SingleFrame DEF IInv, ClientInv
<1>6. ASSUME NEW k \in Callers PROVE MessagesInv(k)' /\ OutputsInv(k)' /\ Kept(k)'
  <2> DEFINE c == ClientOf[k]
  <2>1. c \in Clients /\ SameCall(k) /\ OwnerInv(k) /\ (Awaiting(k)' <=> Awaiting(k))
    BY <1>1, SameCalls, ServiceAssumption DEF ServiceAssumption, IInv
  <2>2. MessagesInv(k)'
    BY <1>4, <2>1, MessagesFrame DEF OwnerInv
  <2>3. Somewhere(c)' <=> Somewhere(c)
    BY <1>5, <2>1
  <2>4. Kept(k)'
    BY <1>1, <1>3, <2>1, <2>3 DEF OwnerInv, Kept, SameCall
  <2>5. ASSUME NEW j \in group', batch[j].client = c
        PROVE  /\ RightAnswer(k, outputs'[j])
               /\ svc' = "verify" => batch[j].rpc \notin SharedRpcs
    <3>1. j \in todo /\ batch[j].rpc = batch[h].rpc
      BY <1>2, <2>5
    <3>2. RightRequest(k, batch[j])
      BY <1>t, <2>1, <2>5, <3>1, InBatch DEF OwnerInv, MessagesInv
    <3>3. CallerInv(k)
      BY <2>1 DEF OwnerInv
    <3>4. /\ outputs'[j].rpc = rpc[k]
          /\ outputs'[j].token = IF rpc[k] \in SharedRpcs THEN reqRow[c] ELSE batch[j].payload
      BY <1>2, <2>5, <3>1, <3>2 DEF RightRequest
    <3>5. outputs'[j].token = <<k, calls[k]>>
      BY <3>2, <3>3, <3>4 DEF RightRequest, CallerInv
    <3> QED
      BY <1>2, <3>1, <3>4, <3>5 DEF RightAnswer
  <2>6. OutputsInv(k)'
    BY <1>1, <1>3, <2>1, <2>5 DEF OutputsInv, RightAnswer, SameCall
  <2> QED
    BY <2>2, <2>4, <2>6
<1> QED
  BY <1>t, <1>1, <1>3, <1>5, <1>6, ServiceFrame

\* The rows that change are those of clients whose request is in the group: nobody
\* reads them, and no response is on the way.
LEMMA ScatterInv ==
  ASSUME IInv, DocumentedUse, Scatter
  PROVE  IInv'
<1>t. TypeOK /\ TypeOK'
  BY ServiceStepType DEF IInv, ServiceStep
<1>1. /\ UNCHANGED callerVars /\ UNCHANGED queueVars /\ UNCHANGED <<batch, todo, group, outputs, stop, reqRow>>
      /\ svc = "scatter" /\ svc' = "verify"
  BY DEF Scatter, runVars
<1>2. ASSUME NEW c \in Clients PROVE SameMessages(c)
  <2>1. Batched(c)' = Batched(c)
    BY <1>1 DEF Batched
  <2> QED
    BY <1>1, <2>1 DEF SameMessages, queueVars, Queued
<1>3. ASSUME NEW c \in Clients PROVE Single(c)' /\ (Somewhere(c)' <=> Somewhere(c))
  BY <1>2, SomewhereFrame, SingleFrame DEF IInv, ClientInv
<1>4. ASSUME NEW c \in Clients PROVE ClientInv(c)'
  <2>1. Tracked(c)'
    BY <1>1, <1>3, TrackedFrame DEF IInv, ClientInv, callerVars
  <2> QED
    BY <1>3, <2>1 DEF ClientInv
<1>5. ASSUME NEW k \in Callers PROVE OwnerInv(k)'
  <2> DEFINE c == ClientOf[k]
             here == \E j \in group : batch[j].client = c
  <2>1. c \in Clients /\ OwnerInv(k) /\ CallerInv(k) /\ (Awaiting(k)' <=> Awaiting(k))
    BY <1>1, ServiceAssumption DEF ServiceAssumption, IInv, OwnerInv, Awaiting, callerVars
  <2>2. here => RightAnswer(k, respRow'[c])
    <3>1. respRow'[c] = IF here THEN outputs[OutputFor(c)] ELSE respRow[c]
      BY <2>1 DEF Scatter
    <3>2. here => OutputFor(c) \in group /\ batch[OutputFor(c)].client = c
      BY DEF OutputFor
    <3> QED
      BY <2>1, <3>1, <3>2 DEF OwnerInv, OutputsInv
  <2>3. ~here => SameCall(k)
    BY <1>1, <2>1 DEF Scatter, SameCall, callerVars
  <2>4. here => Buffered(c) = {} /\ Delivered(c) = {} /\ pc[k] # "reading"
    <3>1. here => Batched(c) # {}
      BY <1>t, InBatch
    <3>2. here => pc[k] # "reading"
      <4>1. CallerInv(k) /\ pc[k] = "reading" => ~Awaiting(k) /\ ~raised[k] /\ pc[k] # "dead"
        BY DEF CallerInv, Awaiting
      <4> QED
        BY <2>1, <4>1, NothingOnTheWay
    <3> QED
      BY <2>1, <3>1, <3>2 DEF IInv, ClientInv, Single
  <2>5. CallerInv(k)'
    BY <1>1, <2>1, <2>3, <2>4 DEF CallerInv, SameCall, RightAnswer, callerVars
  <2>6. MessagesInv(k)'
    <3>1. CASE ~here
      BY <1>2, <2>1, <2>3, <3>1, MessagesFrame DEF OwnerInv
    <3>2. CASE here
      <4>1. Buffered(c)' = {} /\ Delivered(c)' = {}
        BY <1>2, <2>1, <2>4, <3>2, SomewhereFrame
      <4>2. \A i \in Queued(c)' : RightRequest(k, reqQ[i])'
        BY <1>1, <1>2, <2>1 DEF OwnerInv, MessagesInv, SameMessages, RightRequest, callerVars
      <4>3. \A i \in Batched(c)' : RightRequest(k, batch[i])'
        BY <1>1, <1>2, <2>1 DEF OwnerInv, MessagesInv, SameMessages, RightRequest, callerVars
      <4> QED
        BY <4>1, <4>2, <4>3 DEF MessagesInv
    <3> QED
      BY <3>1, <3>2
  <2>7. OutputsInv(k)'
    <3>1. \A i \in group : batch[i].client = c => RightAnswer(k, outputs[i])'
      BY <1>1, <2>1 DEF OwnerInv, OutputsInv, RightAnswer, callerVars
    <3>2. here => RightAnswer(k, respRow[c])'
      BY <1>1, <2>2 DEF RightAnswer, callerVars
    <3> QED
      BY <1>1, <3>1, <3>2 DEF OutputsInv
  <2>8. Kept(k)'
    <3>1. Somewhere(c)' <=> Somewhere(c)
      BY <1>3, <2>1
    <3> QED
      BY <1>1, <2>1, <3>1 DEF OwnerInv, Kept, callerVars
  <2> QED
    BY <2>5, <2>6, <2>7, <2>8 DEF OwnerInv
<1>6. (todo \cap group = {})'
  BY <1>1 DEF IInv
<1> QED
  BY <1>t, <1>4, <1>5, <1>6 DEF IInv

\* A request that is answered leaves the batch for the buffer of its client.
LEMMA PutResponseInv ==
  ASSUME IInv, PutResponse
  PROVE  IInv'
<1>t. TypeOK /\ TypeOK'
  BY ServiceStepType DEF IInv, ServiceStep
<1>1. /\ UNCHANGED callerVars /\ UNCHANGED rowVars /\ UNCHANGED <<reqQ, respQ, todo, stop>>
      /\ svc = "answer" /\ svc' \in {"answer", "gather", "loop"}
  BY DEF PutResponse, runVars
<1>2. PICK h \in group :
        /\ outbox' = [outbox EXCEPT ![batch[h].client] = Append(outbox[batch[h].client],
                        [id |-> batch[h].id,
                         answer |-> IF batch[h].rpc \in SharedRpcs THEN None ELSE outputs[h]])]
        /\ group' = group \ {h}
  BY DEF PutResponse
<1>o. PICK o \in Clients : o = batch[h].client
  BY <1>t, InBatch DEF Request
<1> DEFINE r == [id |-> batch[h].id,
                 answer |-> IF batch[h].rpc \in SharedRpcs THEN None ELSE outputs[h]]
<1>3. h \in Batched(o) /\ h \notin todo
  BY <1>t, <1>o, InBatch DEF IInv
<1>4. svc' = "loop" => group' = {} /\ todo = {}
  BY DEF PutResponse
<1>5. svc' # "loop" => batch' = batch
  BY DEF PutResponse
<1>6. group' # {} => outputs' = outputs
  BY DEF PutResponse
<1>7. outbox'[o] = Append(outbox[o], r) /\ \A c \in Clients : c # o => outbox'[c] = outbox[c]
  BY <1>t, <1>2, <1>o DEF TypeOK, QueueTypes
<1> HIDE DEF r
<1>8. ASSUME NEW c \in Clients PROVE Batched(c)' = Batched(c) \ {h}
  <2>1. CASE svc' = "loop"
    <3>1. todo' = {} /\ group' = {} /\ svc' \notin {"drain", "partition"}
      BY <1>1, <1>4, <2>1
    <3>2. Batched(c)' = {}
      BY <3>1 DEF Batched
    <3>3. todo = {} /\ group \subseteq {h} /\ svc \notin {"drain", "partition"}
      BY <1>1, <1>2, <3>1
    <3>4. Batched(c) \subseteq {h}
      BY <3>3 DEF Batched
    <3> QED
      BY <3>2, <3>4
  <2>2. CASE svc' # "loop"
    BY <1>1, <1>2, <1>3, <1>5, <2>2 DEF Batched
  <2> QED
    BY <2>1, <2>2
<1>9. ASSUME NEW c \in Clients, c # o PROVE SameMessages(c)
  <2>1. h \notin Batched(c)
    BY <1>9, <1>o DEF Batched
  <2>2. Batched(c)' = Batched(c)
    BY <1>8, <2>1
  <2>3. \A i \in Batched(c) : batch'[i] = batch[i]
    <3>1. CASE svc' = "loop"
      BY <1>1, <1>4, <2>2, <3>1 DEF Batched
    <3>2. CASE svc' # "loop"
      BY <1>5, <3>2
    <3> QED
      BY <3>1, <3>2
  <2> QED
    BY <1>1, <1>7, <1>9, <2>2, <2>3 DEF SameMessages, Queued
<1>10. /\ Queued(o)' = {} /\ Batched(o)' = {} /\ Delivered(o)' = {}
       /\ Buffered(o)' = {1} /\ outbox'[o][1] = r
  <2>1. Single(o)
    BY <1>3 DEF IInv, ClientInv
  <2>2. Batched(o) = {h} /\ Queued(o) = {} /\ Buffered(o) = {} /\ Delivered(o) = {}
    BY <1>3, <2>1 DEF Single
  <2>3. Queued(o)' = {} /\ Delivered(o)' = {}
    BY <1>1, <2>2 DEF Queued, Delivered
  <2>4. outbox[o] \in Seq(Response) /\ Len(outbox[o]) = 0
    <3>1. outbox[o] \in Seq(Response)
      BY <1>t, <1>3 DEF TypeOK, QueueTypes
    <3>2. 1 \notin 1..Len(outbox[o]) /\ Len(outbox[o]) \in Nat
      BY <2>2, <3>1 DEF Buffered
    <3>3. Len(outbox[o]) = 0
      BY <3>2
    <3> QED
      BY <3>1, <3>3
  <2>5. Len(outbox'[o]) = 1 /\ outbox'[o][1] = r
    BY <1>7, <2>4
  <2>6. Buffered(o)' = {1}
    BY <2>5 DEF Buffered
  <2>7. Batched(o)' = {}
    BY <1>3, <1>8, <2>2
  <2> QED
    BY <2>3, <2>5, <2>6, <2>7
<1>11. ASSUME NEW c \in Clients PROVE Single(c)' /\ (Somewhere(c)' <=> Somewhere(c))
  <2>1. CASE c = o
    <3>1. Single(o)' /\ Somewhere(o)'
      BY <1>10 DEF Single, Somewhere
    <3>2. Somewhere(o)
      BY <1>3 DEF Somewhere
    <3> QED
      BY <2>1, <3>1, <3>2
  <2>2. CASE c # o
    BY <1>9, <2>2, SomewhereFrame, SingleFrame DEF IInv, ClientInv
  <2> QED
    BY <2>1, <2>2
<1>12. ASSUME NEW k \in Callers PROVE MessagesInv(k)' /\ OutputsInv(k)' /\ Kept(k)'
  <2>1. /\ ClientOf[k] \in Clients /\ SameCall(k) /\ OwnerInv(k)
        /\ Awaiting(k)' <=> Awaiting(k)
    BY <1>1, SameCalls, ServiceAssumption DEF ServiceAssumption, IInv
  <2>2. MessagesInv(k)'
    <3>1. CASE ClientOf[k] # o
      BY <1>9, <2>1, <3>1, MessagesFrame DEF OwnerInv
    <3>2. CASE ClientOf[k] = o
      <4>1. RightRequest(k, batch[h])
        BY <1>3, <2>1, <3>2 DEF OwnerInv, MessagesInv
      <4>2. /\ RightAnswer(k, outputs[h])
            /\ batch[h].rpc \in SharedRpcs => RightAnswer(k, respRow[o])
        BY <1>1, <1>o, <2>1, <3>2 DEF OwnerInv, OutputsInv
      <4>3. RightResponse(k, r)
        <5>1. outputs[h] # None
          BY <1>t, NoneApart DEF TypeOK, ServiceTypes
        <5> QED
          BY <3>2, <4>1, <4>2, <5>1 DEF RightRequest, RightResponse, r
      <4>4. \A i \in Buffered(o)' : RightResponse(k, outbox[o][i])'
        BY <1>10, <2>1, <3>2, <4>3 DEF RightResponse, RightAnswer, SameCall
      <4> QED
        BY <1>10, <3>2, <4>4 DEF MessagesInv
    <3> QED
      BY <3>1, <3>2
  <2>3. OutputsInv(k)'
    <3>1. CASE group' = {}
      BY <3>1 DEF OutputsInv
    <3>2. CASE group' # {}
      BY <1>1, <1>2, <1>4, <1>5, <1>6, <2>1, <3>2 DEF OwnerInv, OutputsInv, RightAnswer, SameCall
    <3> QED
      BY <3>1, <3>2
  <2>4. Kept(k)'
    <3>1. Somewhere(ClientOf[k])' <=> Somewhere(ClientOf[k])
      BY <1>11, <2>1
    <3> QED
      BY <1>1, <2>1, <3>1 DEF OwnerInv, Kept, SameCall
  <2> QED
    BY <2>2, <2>3, <2>4
<1>13. (todo \cap group = {})'
  BY <1>1, <1>2 DEF IInv
<1> QED
  BY <1>t, <1>1, <1>11, <1>12, <1>13, ServiceFrame

\* A response goes from the buffer to the pipe.
LEMMA FlushInv ==
  ASSUME IInv, NEW o \in Clients, Flush(o)
  PROVE  IInv'
<1>t. TypeOK /\ TypeOK'
  BY OtherStepType DEF IInv
<1> DEFINE r == outbox[o][1]
<1>1. /\ UNCHANGED callerVars /\ UNCHANGED rowVars /\ UNCHANGED <<reqQ, stop>>
      /\ UNCHANGED <<svc, batch, todo, group, outputs>>
  BY DEF Flush, serviceVars, runVars
<1>2. Single(o) /\ outbox[o] \in Seq(Response) /\ respQ[o] \in Seq(Response)
  BY <1>t DEF IInv, ClientInv, TypeOK, QueueTypes
<1>3. Len(outbox[o]) = 1 /\ Head(outbox[o]) = r /\ Tail(outbox[o]) = <<>> /\ Buffered(o) = {1}
  <2>1. 1 \in Buffered(o) /\ Len(outbox[o]) \in Buffered(o)
    BY <1>2 DEF Flush, Buffered
  <2>2. Len(outbox[o]) = 1 /\ Buffered(o) = {1}
    BY <1>2, <2>1 DEF Single
  <2> QED
    BY <1>2, <2>2, OneElement
<1>4. Queued(o) = {} /\ Batched(o) = {} /\ Delivered(o) = {}
  BY <1>2, <1>3 DEF Single
<1>5. Len(respQ[o]) = 0
  <2>1. 1..Len(respQ[o]) = {} /\ Len(respQ[o]) \in Nat
    BY <1>2, <1>4 DEF Delivered
  <2> QED
    BY <2>1
<1>6. outbox'[o] = <<>> /\ Len(respQ'[o]) = 1 /\ respQ'[o][1] = r
  <2>1. outbox'[o] = Tail(outbox[o]) /\ respQ'[o] = Append(respQ[o], r)
    BY <1>t, <1>3 DEF Flush, TypeOK, QueueTypes
  <2> HIDE DEF r
  <2> QED
    BY <1>2, <1>3, <1>5, <2>1
<1>7. /\ Queued(o)' = {} /\ Batched(o)' = {} /\ Buffered(o)' = {}
      /\ Delivered(o)' = {1}
  <2>1. Queued(o)' = {} /\ Batched(o)' = {}
    BY <1>1, <1>4 DEF Queued, Batched
  <2> QED
    BY <1>6, <2>1 DEF Buffered, Delivered
<1>8. ASSUME NEW c \in Clients, c # o PROVE SameMessages(c)
  <2>1. outbox'[c] = outbox[c] /\ respQ'[c] = respQ[c]
    BY <1>t, <1>8 DEF Flush, TypeOK, QueueTypes
  <2> QED
    BY <1>1, <2>1 DEF SameMessages, Queued, Batched
<1>9. ASSUME NEW c \in Clients PROVE Single(c)' /\ (Somewhere(c)' <=> Somewhere(c))
  <2>1. CASE c = o
    BY <1>3, <1>7, <2>1 DEF Single, Somewhere
  <2>2. CASE c # o
    BY <1>8, <2>2, SomewhereFrame, SingleFrame DEF IInv, ClientInv
  <2> QED
    BY <2>1, <2>2
<1>10. ASSUME NEW k \in Callers PROVE MessagesInv(k)' /\ OutputsInv(k)' /\ Kept(k)'
  <2>1. /\ ClientOf[k] \in Clients /\ SameCall(k) /\ OwnerInv(k)
        /\ Awaiting(k)' <=> Awaiting(k)
    BY <1>1, SameCalls, ServiceAssumption DEF ServiceAssumption, IInv
  <2>2. MessagesInv(k)'
    <3>1. CASE ClientOf[k] # o
      BY <1>8, <2>1, <3>1, MessagesFrame DEF OwnerInv
    <3>2. CASE ClientOf[k] = o
      <4>1. RightResponse(k, r)
        BY <1>3, <2>1, <3>2 DEF OwnerInv, MessagesInv
      <4>2. \A i \in Delivered(o)' : RightResponse(k, respQ[o][i])'
        BY <1>6, <1>7, <2>1, <3>2, <4>1 DEF RightResponse, RightAnswer, SameCall
      <4> QED
        BY <1>7, <3>2, <4>2 DEF MessagesInv
    <3> QED
      BY <3>1, <3>2
  <2>3. OutputsInv(k)'
    BY <1>1, <2>1, OutputsFrame DEF OwnerInv
  <2>4. Kept(k)'
    <3>1. Somewhere(ClientOf[k])' <=> Somewhere(ClientOf[k])
      BY <1>9, <2>1
    <3> QED
      BY <1>1, <2>1, <3>1 DEF OwnerInv, Kept, SameCall
  <2> QED
    BY <2>2, <2>3, <2>4
<1>11. (todo \cap group = {})'
  BY <1>1 DEF IInv
<1> QED
  BY <1>t, <1>1, <1>9, <1>10, <1>11, ServiceFrame

-----------------------------------------------------------------------------
(* The theorems *)

LEMMA InvStep ==
  ASSUME IInv, DocumentedUse, [Next]_vars
  PROVE  IInv'
<1>1. CASE Next
  <2>1. CASE \E k \in Callers : Acts(k)
    BY <2>1, CallersInv
  <2>2. CASE ServiceStep
    BY <2>2, StayInv, ExitsInv, TakeInv, DrainSentinelInv, PartitionInv, GatherInv, ScatterInv,
       PutResponseInv DEF ServiceStep
  <2>3. CASE \E c \in Clients : Flush(c)
    BY <2>3, FlushInv
  <2>4. CASE Supervise \/ FaultStep
    BY <2>4, StayInv, ExitsInv, CallersInv DEF FaultStep, Acts
  <2> QED
    BY <1>1, <2>1, <2>2, <2>3, <2>4 DEF Next, Acts
<1>2. CASE UNCHANGED vars
  <2>1. /\ UNCHANGED callerVars /\ UNCHANGED rowVars /\ UNCHANGED queueVars
        /\ UNCHANGED serviceVars /\ UNCHANGED runVars
    BY <1>2 DEF vars
  <2>2. TypeOK'
    BY <2>1 DEF IInv, TypeOK, CallerTypes, RowTypes, QueueTypes, ServiceTypes, InCall,
                callerVars, rowVars, queueVars, serviceVars, runVars
  <2>3. \A c \in Clients : SameMessages(c)
    BY <2>1 DEF SameMessages, Queued, Batched, queueVars, serviceVars
  <2>4. \A c \in Clients : Single(c)' /\ (Somewhere(c)' => Somewhere(c))
    BY <2>3, SingleFrame, SomewhereFrame DEF IInv, ClientInv
  <2>5. ASSUME NEW k \in Callers PROVE OwnerInv(k)'
    <3>1. SameCaller(k) /\ ClientOf[k] \in Clients
      BY <2>1, ServiceAssumption DEF SameCaller, SameCall, callerVars, rowVars, ServiceAssumption
    <3> QED
      BY <2>1, <2>3, <3>1, OwnerFrame DEF IInv, serviceVars, runVars
  <2>6. (todo \cap group = {})'
    BY <2>1 DEF IInv, serviceVars
  <2> QED
    BY <2>1, <2>2, <2>4, <2>5, <2>6, ServiceFrame DEF OwnerInv, runVars
<1> QED
  BY <1>1, <1>2

\* Nothing but the documented use is assumed: any faults, any number of everything.
THEOREM Invariance ==
  ASSUME DocumentedUse
  PROVE  Spec => []IInv
<1>1. IInv /\ [Next]_vars => IInv'
  BY InvStep
<1> QED
  BY InvInit, <1>1, PTL DEF Spec

\* Every answer is the answer to the call that got it, on both transports.
THEOREM AnswersAreOwn ==
  ASSUME DocumentedUse
  PROVE  Spec => []AnswerIsOwn
  BY Invariance, InvImplies, PTL

\* A client never has a second request or response in flight.
THEOREM SingleFlight ==
  ASSUME DocumentedUse
  PROVE  Spec => []OneInFlight
  BY Invariance, InvImplies, PTL

\* A call raises only on a run that was stopped: the ordering guard never fires.
THEOREM RaisesAreStops ==
  ASSUME DocumentedUse
  PROVE  Spec => []RaiseMeansStopped
  BY Invariance, InvImplies, PTL

\* What can be routed is on the way for as long as it is waited for.
THEOREM NothingIsLost ==
  ASSUME DocumentedUse
  PROVE  Spec => []NothingLost
  BY Invariance, InvImplies, PTL

-----------------------------------------------------------------------------
(* The rows have one owner *)

\* The rows are exclusive because the requests are: what the service serves is the
\* one request of its client.
LEMMA RowsFollow ==
  ASSUME IInv, DocumentedUse
  PROVE  RowsExclusive
<1> SUFFICES ASSUME NEW j \in group, batch[j].rpc \in SharedRpcs,
                    NEW k \in Callers, ClientOf[k] = batch[j].client
             PROVE  /\ pc[k] # "reading"
                    /\ Awaiting(k) => reqRow[ClientOf[k]] = outputs[j].token
  BY DEF RowsExclusive, Awaiting
<1>1. CallerInv(k) /\ MessagesInv(k) /\ OutputsInv(k)
  BY DEF IInv, OwnerInv
<1>2. pc[k] # "reading"
  <2>1. pc[k] = "reading" => ~Awaiting(k) /\ ~raised[k] /\ pc[k] # "dead"
    BY <1>1 DEF CallerInv, Awaiting
  <2> QED
    BY <2>1, NothingOnTheWay
<1>3. RightRequest(k, batch[j])
  BY <1>1, InBatch DEF IInv, MessagesInv
<1>4. RightAnswer(k, outputs[j])
  BY <1>1 DEF OutputsInv
<1> QED
  BY <1>1, <1>2, <1>3, <1>4 DEF RightRequest, RightAnswer, CallerInv

\* While the service works on the row of a client, the client neither reads nor
\* rewrites it.
THEOREM RowsAreExclusive ==
  ASSUME DocumentedUse
  PROVE  Spec => []RowsExclusive
  BY Invariance, RowsFollow, PTL

-----------------------------------------------------------------------------
(* Mixed answers: the invariant *)

\* No rpc that mixes rows passes the verification.
CleanVerified == verified \cap MixingRpcs = {}

\* A group has one rpc, and is mixed when that rpc mixes and has something to mix.
GroupInv ==
  svc \in {"scatter", "verify"} =>
    \A i, j \in group :
      /\ batch[i].rpc = batch[j].rpc
      /\ outputs[j].mixed <=> batch[j].rpc \in MixingRpcs /\ Several(group)
      /\ svc = "verify" /\ batch[j].rpc \in SharedRpcs =>
           (respRow[batch[j].client].mixed <=> outputs[j].mixed)

\* What is about to be answered is not mixed,
CleanOutputs ==
  svc = "answer" =>
    \A j \in group : /\ ~outputs[j].mixed
                     /\ batch[j].rpc \in SharedRpcs => ~respRow[batch[j].client].mixed

\* nor is what was answered,
Clean(c, r) == IF r.answer = None THEN ~respRow[c].mixed ELSE ~r.answer.mixed

CleanMessages(c) ==
  /\ \A i \in Buffered(c) : Clean(c, outbox[c][i])
  /\ \A i \in Delivered(c) : Clean(c, respQ[c][i])

\* nor what was received.
CleanCaller(k) ==
  /\ got[k] # None => ~got[k].mixed
  /\ pc[k] = "reading" => ~respRow[ClientOf[k]].mixed

MixInv ==
  /\ CleanVerified /\ GroupInv /\ CleanOutputs
  /\ \A c \in Clients : CleanMessages(c)
  /\ \A k \in Callers : CleanCaller(k)

LEMMA MixInit == Init => MixInv
  BY DEF Init, MixInv, CleanVerified, GroupInv, CleanOutputs, CleanMessages, CleanCaller,
         Buffered, Delivered

-----------------------------------------------------------------------------
(* Mixed answers: the steps *)

LEMMA MixActs ==
  ASSUME IInv, MixInv, DocumentedUse, NEW k \in Callers, Acts(k)
  PROVE  MixInv'
<1> DEFINE c == ClientOf[k]
<1>t. TypeOK /\ c \in Clients
  BY ServiceAssumption DEF ServiceAssumption, IInv
<1>1. UNCHANGED serviceVars /\ respRow' = respRow /\ outbox' = outbox
  BY DEF Acts, CallerStep, Begin, Submit, StartAwait, Receive, Timeout, CheckStop, ReadRow,
         WorkerDies, rowVars, queueVars
<1>2. CleanVerified' /\ GroupInv' /\ CleanOutputs'
  BY <1>1 DEF MixInv, CleanVerified, GroupInv, CleanOutputs, serviceVars
<1>3. ASSUME NEW d \in Clients PROVE CleanMessages(d)'
  <2>1. \A i \in Buffered(d)' : Clean(d, outbox[d][i])'
    BY <1>1 DEF MixInv, CleanMessages, Buffered, Clean
  <2>2. \A i \in Delivered(d)' : Clean(d, respQ[d][i])'
    <3>1. CASE respQ'[d] = respQ[d]
      BY <1>1, <3>1 DEF MixInv, CleanMessages, Delivered, Clean
    <3>2. CASE Receive(k) /\ d = c
      <4>1. respQ'[d] = Tail(respQ[d]) /\ respQ[d] \in Seq(Response) /\ respQ[d] # <<>>
        BY <1>t, <3>2 DEF Receive, TypeOK, QueueTypes
      <4>2. \A i \in Delivered(d)' : i + 1 \in Delivered(d) /\ respQ'[d][i] = respQ[d][i + 1]
        BY <4>1 DEF Delivered
      <4> QED
        BY <1>1, <4>2 DEF MixInv, CleanMessages, Clean
    <3>3. respQ'[d] = respQ[d] \/ (Receive(k) /\ d = c)
      BY <1>t DEF Acts, CallerStep, Begin, Submit, StartAwait, Receive, Timeout, CheckStop,
                  ReadRow, WorkerDies, queueVars, TypeOK, QueueTypes
    <3> QED
      BY <3>1, <3>2, <3>3
  <2> QED
    BY <2>1, <2>2 DEF CleanMessages
<1>4. ASSUME NEW l \in Callers, l # k PROVE CleanCaller(l)'
  BY <1>t, <1>1, <1>4, OthersUntouched DEF SameCaller, MixInv, CleanCaller
<1>5. CleanCaller(k)'
  <2>1. CleanCaller(k)
    BY DEF MixInv
  <2>2. CASE Receive(k)
    <3>1. MessagesInv(k) /\ CallerInv(k)
      BY DEF IInv, OwnerInv
    <3>2. 1 \in Delivered(c) /\ Head(respQ[c]) = respQ[c][1]
      BY <1>t, <2>2 DEF Receive, Delivered, TypeOK, QueueTypes
    <3> DEFINE m == respQ[c][1]
    <3>3. \A i \in Delivered(c) : RightResponse(k, respQ[c][i]) /\ Clean(c, respQ[c][i])
      BY <1>t, <3>1 DEF MessagesInv, MixInv, CleanMessages
    <3>4. RightResponse(k, m) /\ Clean(c, m)
      BY <3>2, <3>3
    <3>5. /\ pc'[k] \in {"reading", "idle"} /\ (pc'[k] = "reading" => rpc[k] \in SharedRpcs)
          /\ got'[k] = got[k] \/ (rpc[k] \notin SharedRpcs /\ got'[k] = m.answer)
      BY <1>t, <2>2, <3>2 DEF Receive, TypeOK, CallerTypes
    <3> HIDE DEF m
    <3> QED
      BY <1>1, <2>1, <3>4, <3>5 DEF CleanCaller, Clean, RightResponse
  <2>3. CASE ReadRow(k)
    BY <1>t, <2>1, <2>3 DEF ReadRow, CleanCaller, TypeOK, CallerTypes
  <2>4. CASE \E r \in Rpcs : Begin(k, r)
    BY <1>t, <2>4 DEF Begin, CleanCaller, TypeOK, CallerTypes
  <2>5. CASE Submit(k) \/ StartAwait(k) \/ Timeout(k) \/ CheckStop(k) \/ WorkerDies(k)
    <3>1. got' = got /\ pc'[k] # "reading"
      BY <1>t, <2>5 DEF Submit, StartAwait, Timeout, CheckStop, AfterTimeout, WorkerDies,
                        TypeOK, CallerTypes
    <3> QED
      BY <2>1, <3>1 DEF CleanCaller
  <2> QED
    BY <2>2, <2>3, <2>4, <2>5 DEF Acts, CallerStep
<1> QED
  BY <1>2, <1>3, <1>4, <1>5 DEF MixInv

\* No answer is made, sent or received.
MixedAsBefore ==
  /\ UNCHANGED <<got, pc, respRow, respQ>>
  /\ \A c \in Clients : outbox'[c] \in {outbox[c], <<>>}
  /\ verified' \subseteq verified
  /\ svc' \notin {"scatter", "verify", "answer"} \/ UNCHANGED <<svc, batch, group, outputs>>

LEMMA MixAsBefore ==
  ASSUME MixInv, MixedAsBefore
  PROVE  MixInv'
<1>1. CleanVerified' /\ GroupInv' /\ CleanOutputs'
  BY DEF MixedAsBefore, MixInv, CleanVerified, GroupInv, CleanOutputs
<1>2. ASSUME NEW c \in Clients PROVE CleanMessages(c)'
  BY DEF MixedAsBefore, MixInv, CleanMessages, Buffered, Delivered, Clean
<1>3. ASSUME NEW k \in Callers PROVE CleanCaller(k)'
  BY DEF MixedAsBefore, MixInv, CleanCaller
<1> QED
  BY <1>1, <1>2, <1>3 DEF MixInv

LEMMA MixOther ==
  ASSUME IInv, MixInv,
         \/ Build \/ LoopHead \/ CollectIdle \/ CollectSentinel \/ CollectRequest
         \/ DrainRequest \/ DrainSentinel \/ DrainEnds \/ Partition \/ VerifyFails
         \/ Supervise \/ BuildFails \/ ForwardRaises \/ RunsOutOfMemory \/ Killed
         \/ StopRun \/ SendSentinel
  PROVE  MixInv'
<1>1. CASE \E how \in Exits : Exit(how)
  <2>1. UNCHANGED <<got, pc, respRow, respQ>>
    BY <1>1 DEF Build, LoopHead, CollectIdle, CollectSentinel, CollectRequest, DrainRequest,
                DrainSentinel, DrainEnds, Partition, VerifyFails, BatchFails, Supervise, BuildFails,
                ForwardRaises, RunsOutOfMemory, Killed, StopRun, SendSentinel,
                callerVars, rowVars, queueVars
  <2>2. MixedAsBefore
    BY <1>1, <2>1 DEF Exit, MixedAsBefore
  <2> QED
    BY <2>2, MixAsBefore
<1>2. CASE \A how \in Exits : ~Exit(how)
  <2>1. /\ UNCHANGED <<got, pc, respRow, respQ, outbox, verified>>
        /\ svc' \notin {"scatter", "verify", "answer"} \/ UNCHANGED <<svc, batch, group, outputs>>
    BY <1>2 DEF Build, LoopHead, CollectIdle, CollectSentinel, CollectRequest, DrainRequest,
                DrainSentinel, DrainEnds, Partition, VerifyFails, BatchFails, Supervise, BuildFails,
                ForwardRaises, RunsOutOfMemory, Killed, StopRun, SendSentinel, Exits,
                callerVars, rowVars, queueVars, serviceVars
  <2>2. MixedAsBefore
    BY <2>1 DEF MixedAsBefore
  <2> QED
    BY <2>2, MixAsBefore
<1> QED
  BY <1>1, <1>2

LEMMA MixGather ==
  ASSUME IInv, MixInv, Gather
  PROVE  MixInv'
<1>1. UNCHANGED <<got, pc, respRow, respQ, outbox, verified, batch>> /\ svc = "gather"
  BY DEF Gather, callerVars, rowVars, queueVars
<1>2. PICK h \in todo :
        LET name == batch[h].rpc
            shared == name \in SharedRpcs
            g == {j \in todo : batch[j].rpc = name}
            input(j) == IF shared THEN reqRow[batch[j].client] ELSE batch[j].payload
        IN
        /\ group' = g
        /\ outputs' = [j \in g |-> [rpc |-> name, token |-> input(j),
                                    mixed |-> name \in MixingRpcs /\ Several(g)]]
        /\ svc' = IF shared THEN "scatter" ELSE "verify"
  BY DEF Gather
<1>3. ASSUME NEW i \in group', NEW j \in group'
      PROVE  /\ batch[i].rpc = batch[j].rpc
             /\ outputs'[j].mixed <=> batch[j].rpc \in MixingRpcs /\ Several(group')
             /\ svc' = "verify" => batch[j].rpc \notin SharedRpcs
  BY <1>2
<1>4. GroupInv' /\ CleanOutputs' /\ CleanVerified'
  <2>1. svc' # "answer"
    BY <1>2
  <2> QED
    BY <1>1, <1>3, <2>1 DEF GroupInv, CleanOutputs, MixInv, CleanVerified, Several
<1>5. ASSUME NEW c \in Clients PROVE CleanMessages(c)'
  BY <1>1 DEF MixInv, CleanMessages, Buffered, Delivered, Clean
<1>6. ASSUME NEW k \in Callers PROVE CleanCaller(k)'
  BY <1>1 DEF MixInv, CleanCaller
<1> QED
  BY <1>4, <1>5, <1>6 DEF MixInv

\* The rows that change are those nobody is about to read.
LEMMA MixScatter ==
  ASSUME IInv, MixInv, DocumentedUse, Scatter
  PROVE  MixInv'
<1>t. TypeOK
  BY DEF IInv
<1>1. /\ UNCHANGED <<got, pc, respQ, outbox, verified, batch, group, outputs>>
      /\ svc = "scatter" /\ svc' = "verify"
  BY DEF Scatter, callerVars, queueVars
<1>2. ASSUME NEW c \in Clients
      PROVE  respRow'[c] = IF \E j \in group : batch[j].client = c
                             THEN outputs[OutputFor(c)] ELSE respRow[c]
  BY DEF Scatter
<1>3. ASSUME NEW j \in group
      PROVE  respRow'[batch[j].client].mixed <=> outputs[j].mixed
  <2>1. batch[j].client \in Clients
    BY <1>t, InBatch DEF Request
  <2>2. OutputFor(batch[j].client) \in group
    BY DEF OutputFor
  <2>3. respRow'[batch[j].client] = outputs[OutputFor(batch[j].client)]
    BY <1>2, <2>1
  <2> QED
    BY <1>1, <2>2, <2>3 DEF MixInv, GroupInv
<1>4. GroupInv' /\ CleanOutputs' /\ CleanVerified'
  BY <1>1, <1>3 DEF MixInv, GroupInv, CleanOutputs, CleanVerified, Several
<1>5. ASSUME NEW c \in Clients, Somewhere(c) => Batched(c) = {} PROVE respRow'[c] = respRow[c]
  BY <1>t, <1>2, <1>5, InBatch DEF Somewhere
<1>6. ASSUME NEW c \in Clients PROVE CleanMessages(c)'
  <2>1. CASE Buffered(c) = {} /\ Delivered(c) = {}
    BY <1>1, <2>1 DEF CleanMessages, Buffered, Delivered
  <2>2. CASE Buffered(c) # {} \/ Delivered(c) # {}
    <3>1. Batched(c) = {}
      BY <2>2 DEF IInv, ClientInv, Single
    <3>2. respRow'[c] = respRow[c]
      BY <1>5, <3>1
    <3> QED
      BY <1>1, <3>2 DEF MixInv, CleanMessages, Buffered, Delivered, Clean
  <2> QED
    BY <2>1, <2>2
<1>7. ASSUME NEW k \in Callers PROVE CleanCaller(k)'
  <2>1. ClientOf[k] \in Clients /\ CallerInv(k) /\ CleanCaller(k)
    BY ServiceAssumption DEF ServiceAssumption, IInv, OwnerInv, MixInv
  <2>2. pc[k] = "reading" => respRow'[ClientOf[k]] = respRow[ClientOf[k]]
    <3>1. pc[k] = "reading" => ~Awaiting(k) /\ ~raised[k] /\ pc[k] # "dead"
      BY <2>1 DEF CallerInv, Awaiting
    <3> QED
      BY <1>5, <2>1, <3>1, NothingOnTheWay
  <2> QED
    BY <1>1, <2>1, <2>2 DEF CleanCaller
<1> QED
  BY <1>4, <1>6, <1>7 DEF MixInv

\* A group that mixes has more than one request, and its rpc was not verified before.
LEMMA MixVerify ==
  ASSUME IInv, MixInv, VerifyRows, VerifyPasses
  PROVE  MixInv'
<1>1. /\ UNCHANGED <<got, pc, respRow, respQ, outbox, batch, group, outputs>>
      /\ svc = "verify" /\ svc' = "answer"
  BY DEF VerifyPasses, callerVars, rowVars, queueVars
<1>2. PICK i \in group :
        /\ MustVerify(batch[i].rpc) => ~outputs[i].mixed
        /\ verified' = IF MustVerify(batch[i].rpc) THEN verified \cup {batch[i].rpc} ELSE verified
  BY DEF VerifyPasses
<1>3. ~(batch[i].rpc \in MixingRpcs /\ Several(group))
  BY <1>1, <1>2 DEF MixInv, GroupInv, CleanVerified, MustVerify
<1>4. CleanOutputs' /\ GroupInv'
  BY <1>1, <1>3 DEF MixInv, GroupInv, CleanOutputs
<1>5. CleanVerified'
  BY <1>2, <1>3 DEF MixInv, CleanVerified, MustVerify
<1>6. ASSUME NEW c \in Clients PROVE CleanMessages(c)'
  BY <1>1 DEF MixInv, CleanMessages, Buffered, Delivered, Clean
<1>7. ASSUME NEW k \in Callers PROVE CleanCaller(k)'
  BY <1>1 DEF MixInv, CleanCaller
<1> QED
  BY <1>4, <1>5, <1>6, <1>7 DEF MixInv

LEMMA MixPutResponse ==
  ASSUME IInv, MixInv, PutResponse
  PROVE  MixInv'
<1>t. TypeOK
  BY DEF IInv
<1>1. /\ UNCHANGED <<got, pc, respRow, respQ, verified>>
      /\ svc = "answer" /\ svc' \in {"answer", "gather", "loop"}
  BY DEF PutResponse, callerVars, rowVars
<1>2. PICK h \in group :
        /\ outbox' = [outbox EXCEPT ![batch[h].client] = Append(outbox[batch[h].client],
                        [id |-> batch[h].id,
                         answer |-> IF batch[h].rpc \in SharedRpcs THEN None ELSE outputs[h]])]
        /\ group' = group \ {h}
  BY DEF PutResponse
<1>o. PICK o \in Clients : o = batch[h].client
  BY <1>t, InBatch DEF Request
<1> DEFINE r == [id |-> batch[h].id,
                 answer |-> IF batch[h].rpc \in SharedRpcs THEN None ELSE outputs[h]]
<1>3. svc' = "answer" => group' # {} /\ batch' = batch /\ outputs' = outputs
  <2>1. svc' = "answer" => group' # {}
    BY DEF PutResponse
  <2> QED
    BY <2>1 DEF PutResponse
<1>4. CleanOutputs' /\ GroupInv' /\ CleanVerified'
  BY <1>1, <1>2, <1>3 DEF MixInv, CleanOutputs, GroupInv, CleanVerified
<1>5. Clean(o, r)
  <2>1. outputs[h] \in Answer
    BY <1>t DEF TypeOK, ServiceTypes
  <2> QED
    BY <1>1, <1>o, <2>1, NoneApart DEF MixInv, CleanOutputs, Clean
<1> HIDE DEF r
<1>6. ASSUME NEW c \in Clients PROVE CleanMessages(c)'
  <2>1. \A i \in Delivered(c)' : Clean(c, respQ[c][i])'
    BY <1>1 DEF MixInv, CleanMessages, Delivered, Clean
  <2>2. \A i \in Buffered(c)' : Clean(c, outbox[c][i])'
    <3>1. CASE c # o
      <4>1. outbox'[c] = outbox[c]
        BY <1>t, <1>2, <1>o, <3>1 DEF TypeOK, QueueTypes
      <4> QED
        BY <1>1, <4>1 DEF MixInv, CleanMessages, Buffered, Clean
    <3>2. CASE c = o
      <4>1. outbox'[c] = Append(outbox[c], r) /\ outbox[c] \in Seq(Response)
        BY <1>t, <1>2, <1>o, <3>2 DEF TypeOK, QueueTypes, r
      <4>2. \A i \in Buffered(c)' : outbox'[c][i] = r \/ (i \in Buffered(c) /\ outbox'[c][i] = outbox[c][i])
        BY <4>1 DEF Buffered
      <4> QED
        BY <1>1, <1>5, <3>2, <4>2 DEF MixInv, CleanMessages, Clean
    <3> QED
      BY <3>1, <3>2
  <2> QED
    BY <2>1, <2>2 DEF CleanMessages
<1>7. ASSUME NEW k \in Callers PROVE CleanCaller(k)'
  BY <1>1 DEF MixInv, CleanCaller
<1> QED
  BY <1>4, <1>6, <1>7 DEF MixInv

LEMMA MixFlush ==
  ASSUME IInv, MixInv, NEW o \in Clients, Flush(o)
  PROVE  MixInv'
<1>t. TypeOK
  BY DEF IInv
<1>1. UNCHANGED <<got, pc, respRow, verified, svc, batch, group, outputs>>
  BY DEF Flush, callerVars, rowVars, serviceVars
<1>2. CleanOutputs' /\ GroupInv' /\ CleanVerified'
  BY <1>1 DEF MixInv, CleanOutputs, GroupInv, CleanVerified
<1>3. ASSUME NEW c \in Clients PROVE CleanMessages(c)'
  <2>1. CASE c # o
    <3>1. outbox'[c] = outbox[c] /\ respQ'[c] = respQ[c]
      BY <1>t, <2>1 DEF Flush, TypeOK, QueueTypes
    <3> QED
      BY <1>1, <3>1 DEF MixInv, CleanMessages, Buffered, Delivered, Clean
  <2>2. CASE c = o
    <3> DEFINE r == Head(outbox[c])
    <3>1. /\ outbox[c] \in Seq(Response) /\ outbox[c] # <<>> /\ respQ[c] \in Seq(Response)
          /\ outbox'[c] = Tail(outbox[c]) /\ respQ'[c] = Append(respQ[c], r)
      BY <1>t, <2>2 DEF Flush, TypeOK, QueueTypes
    <3>2. 1 \in Buffered(c) /\ r = outbox[c][1]
      BY <3>1 DEF Buffered
    <3>3. Clean(c, r)
      BY <3>2 DEF MixInv, CleanMessages
    <3>4. \A i \in Buffered(c)' : i + 1 \in Buffered(c) /\ outbox'[c][i] = outbox[c][i + 1]
      BY <3>1 DEF Buffered
    <3> HIDE DEF r
    <3>5. \A i \in Delivered(c)' : respQ'[c][i] = r \/ (i \in Delivered(c) /\ respQ'[c][i] = respQ[c][i])
      BY <3>1 DEF Delivered
    <3>6. \A i \in Buffered(c)' : Clean(c, outbox[c][i])'
      BY <1>1, <3>4 DEF MixInv, CleanMessages, Clean
    <3>7. \A i \in Delivered(c)' : Clean(c, respQ[c][i])'
      BY <1>1, <3>3, <3>5 DEF MixInv, CleanMessages, Clean
    <3> QED
      BY <3>6, <3>7 DEF CleanMessages
  <2> QED
    BY <2>1, <2>2
<1>4. ASSUME NEW k \in Callers PROVE CleanCaller(k)'
  BY <1>1 DEF MixInv, CleanCaller
<1> QED
  BY <1>2, <1>3, <1>4 DEF MixInv

LEMMA MixStep ==
  ASSUME IInv, MixInv, DocumentedUse, VerifyRows, [Next]_vars
  PROVE  MixInv'
<1>1. CASE Next
  BY <1>1, MixActs, MixOther, MixGather, MixScatter, MixVerify, MixPutResponse, MixFlush
  DEF Next, ServiceStep, FaultStep, Acts
<1>2. CASE UNCHANGED vars
  <2>1. MixedAsBefore
    BY <1>2 DEF MixedAsBefore, vars, callerVars, rowVars, queueVars, serviceVars
  <2> QED
    BY <2>1, MixAsBefore
<1> QED
  BY <1>1, <1>2

\* With verification on, no caller is handed an answer that depends on the requests it
\* was batched with: the check comes before the first answer of the group, on both
\* transports, and what it passed once it may pass for ever.
THEOREM AnswersAreNotMixed ==
  ASSUME DocumentedUse
  PROVE  Spec => []NoMixedAnswer
<1>1. CASE VerifyRows
  <2>1. IInv /\ MixInv /\ [Next]_vars => MixInv'
    BY <1>1, MixStep
  <2>2. MixInv => NoMixedAnswer
    BY DEF MixInv, CleanCaller, NoMixedAnswer
  <2> QED
    BY MixInit, Invariance, <2>1, <2>2, PTL DEF Spec
<1>2. CASE ~VerifyRows
  <2>1. NoMixedAnswer
    BY <1>2 DEF NoMixedAnswer
  <2> QED
    BY <2>1, PTL
<1> QED
  BY <1>1, <1>2

-----------------------------------------------------------------------------
(* The refinement of BlockingCalls *)

\* What the abstract specification sees of one caller.
Phase(k)    == IF InCall(k) THEN "calling" ELSE pc[k]
Returned(k) == IF got[k] = None THEN None ELSE got[k].token

LEMMA RefinesInit == Init => Contract!Init
  BY DEF Init, Contract!Init, InCall

\* A step after which the abstract variables are what they were.
LEMMA RefinesStutter ==
  ASSUME UNCHANGED <<calls, raised, stop>>,
         \A k \in Callers : Phase(k)' = Phase(k) /\ Returned(k)' = Returned(k)
  PROVE  UNCHANGED Contract!vars
  BY DEF Contract!vars, Phase, Returned, InCall

\* A step that stops the run and does nothing to the callers.
LEMMA RefinesStop ==
  ASSUME UNCHANGED callerVars, stop \in BOOLEAN, stop' \in BOOLEAN, stop => stop'
  PROVE  [Contract!Next]_(Contract!vars)
<1>1. UNCHANGED <<calls, raised>>
      /\ \A k \in Callers : Phase(k)' = Phase(k) /\ Returned(k)' = Returned(k)
  BY DEF callerVars, Phase, Returned, InCall
<1>2. CASE stop' = stop
  BY <1>1, <1>2, RefinesStutter
<1>3. CASE stop' # stop
  <2>1. Contract!Stop
    BY <1>1, <1>3 DEF Contract!Stop, Phase, Returned, InCall
  <2> QED
    BY <2>1 DEF Contract!Next
<1> QED
  BY <1>2, <1>3

\* What a step of caller k does to the abstract variables, from what it does to k.
LEMMA OneCaller ==
  ASSUME TypeOK, DocumentedUse, NEW k \in Callers, Acts(k)
  PROVE  /\ [l \in Callers |-> IF InCall(l) THEN "calling" ELSE pc[l]]'
              = [[l \in Callers |-> IF InCall(l) THEN "calling" ELSE pc[l]]
                   EXCEPT ![k] = Phase(k)']
         /\ [l \in Callers |-> IF got[l] = None THEN None ELSE got[l].token]'
              = [[l \in Callers |-> IF got[l] = None THEN None ELSE got[l].token]
                   EXCEPT ![k] = Returned(k)']
         /\ stop' = stop
<1>1. \A l \in Callers : l # k => pc'[l] = pc[l] /\ got'[l] = got[l]
  BY OthersUntouched DEF SameCaller
<1>2. stop' = stop
  BY OthersUntouched
<1> QED
  BY <1>1, <1>2 DEF Phase, Returned, InCall

LEMMA RefinesActs ==
  ASSUME IInv, DocumentedUse, NEW k \in Callers, Acts(k)
  PROVE  [Contract!Next]_(Contract!vars)
<1>t. TypeOK /\ CallerTypes /\ CallerInv(k) /\ MessagesInv(k)
  BY DEF IInv, TypeOK, OwnerInv
<1>1. CASE \E r \in Rpcs : Begin(k, r)
  <2>1. /\ Phase(k) = "idle" /\ Phase(k)' = "calling" /\ Returned(k)' = None
        /\ calls' = [calls EXCEPT ![k] = calls[k] + 1] /\ raised' = [raised EXCEPT ![k] = FALSE]
    BY <1>t, <1>1 DEF Begin, Phase, Returned, InCall, CallerTypes
  <2>2. Contract!Call(k)
    BY <1>t, <2>1, OneCaller DEF Contract!Call, Phase
  <2> QED
    BY <2>2 DEF Contract!Next
<1>2. CASE Submit(k) \/ StartAwait(k) \/ Timeout(k) \/ (CheckStop(k) /\ ~stop)
           \/ (Receive(k) /\ pc'[k] = "reading")
  <2>1. UNCHANGED <<calls, stop>> /\ (UNCHANGED <<raised, got>> \/ CheckStop(k) \/ Receive(k))
    BY <1>2, <1>t, OneCaller DEF Submit, StartAwait, Timeout, CheckStop, Receive
  <2>2. Phase(k)' = Phase(k) /\ raised' = raised /\ Returned(k)' = Returned(k)
    BY <1>2, <1>t DEF Submit, StartAwait, Timeout, CheckStop, AfterTimeout, Receive, Phase,
                      Returned, InCall, CallerTypes, CallerInv
  <2>3. \A l \in Callers : l # k => Phase(l)' = Phase(l) /\ Returned(l)' = Returned(l)
    BY <1>t, OthersUntouched DEF SameCaller, Phase, Returned, InCall
  <2> QED
    BY <2>1, <2>2, <2>3, RefinesStutter
<1>3. CASE (Receive(k) /\ pc'[k] # "reading") \/ ReadRow(k)
  <2>1. /\ Phase(k) = "calling" /\ Phase(k)' = "idle" /\ UNCHANGED <<calls, raised>>
        /\ Returned(k)' = <<k, calls[k]>>
    <3>1. CASE Receive(k) /\ pc'[k] # "reading"
      <4> DEFINE m == respQ[ClientOf[k]][1]
      <4>1. /\ 1 \in Delivered(ClientOf[k]) /\ Head(respQ[ClientOf[k]]) = m
        BY <1>t, <3>1, ServiceAssumption DEF ServiceAssumption, Receive, Delivered, TypeOK, QueueTypes
      <4>2. \A i \in Delivered(ClientOf[k]) : RightResponse(k, respQ[ClientOf[k]][i])
        BY <1>t DEF MessagesInv
      <4>3. RightResponse(k, m)
        BY <4>1, <4>2
      <4> HIDE DEF m
      <4>4. m.id = want[k] /\ rpc[k] \notin SharedRpcs
        BY <1>t, <3>1, <4>1, <4>3 DEF Receive, RightResponse, CallerInv, CallerTypes
      <4>5. pc[k] = "waiting" /\ pc'[k] = "idle" /\ got'[k] = m.answer /\ calls' = calls /\ raised' = raised
        BY <1>t, <3>1, <4>1, <4>4 DEF Receive, CallerInv, CallerTypes
      <4> QED
        BY <4>3, <4>4, <4>5 DEF Phase, Returned, InCall, RightResponse, RightAnswer
    <3>2. CASE ReadRow(k)
      <4>1. respRow[ClientOf[k]] # None
        BY <1>t, NoneApart, ServiceAssumption DEF ServiceAssumption, TypeOK, RowTypes
      <4> QED
        BY <1>t, <3>2, <4>1 DEF ReadRow, Phase, Returned, InCall, CallerInv, RightAnswer, CallerTypes
    <3> QED
      BY <1>3, <3>1, <3>2
  <2>2. Contract!Return(k)
    BY <1>t, <2>1, OneCaller DEF Contract!Return, Contract!Finish, Phase
  <2> QED
    BY <2>2 DEF Contract!Next
<1>4. CASE CheckStop(k) /\ stop
  <2>1. /\ Phase(k) = "calling" /\ Phase(k)' = "idle" /\ Returned(k)' = Returned(k)
        /\ calls' = calls /\ raised' = [raised EXCEPT ![k] = TRUE]
    BY <1>t, <1>4 DEF CheckStop, AfterTimeout, Phase, Returned, InCall, CallerTypes
  <2>2. Contract!Raise(k)
    BY <1>t, <1>4, <2>1, OneCaller DEF Contract!Raise, Contract!Finish, Phase, Returned
  <2> QED
    BY <2>2 DEF Contract!Next
<1>5. CASE WorkerDies(k)
  <2>1. /\ Phase(k) = "calling" /\ Phase(k)' = "dead" /\ Returned(k)' = Returned(k)
        /\ UNCHANGED <<calls, raised>>
    BY <1>t, <1>5 DEF WorkerDies, Phase, Returned, InCall, CallerTypes
  <2>2. Contract!Die(k)
    BY <1>t, <2>1, OneCaller DEF Contract!Die, Phase, Returned
  <2> QED
    BY <2>2 DEF Contract!Next
<1> QED
  BY <1>1, <1>2, <1>3, <1>4, <1>5 DEF Acts, CallerStep

LEMMA RefinesStep ==
  ASSUME IInv, DocumentedUse, [Next]_vars
  PROVE  [Contract!Next]_(Contract!vars)
<1>1. CASE \E k \in Callers : Acts(k)
  BY <1>1, RefinesActs
<1>2. CASE ServiceStep \/ (\E c \in Clients : Flush(c)) \/ Supervise \/ BuildFails \/ ForwardRaises
           \/ RunsOutOfMemory \/ Killed \/ StopRun \/ SendSentinel \/ UNCHANGED vars
  <2>1. UNCHANGED callerVars /\ (stop' = stop \/ stop')
    BY <1>2 DEF ServiceStep, Build, LoopHead, CollectIdle, CollectSentinel, CollectRequest,
                DrainRequest, DrainSentinel, DrainEnds, Partition, Gather, Scatter, VerifyPasses,
                VerifyFails, BatchFails, PutResponse, Flush, Supervise, BuildFails, ForwardRaises,
                RunsOutOfMemory, Killed, StopRun, SendSentinel, runVars, vars
  <2>2. stop \in BOOLEAN
    BY DEF IInv, TypeOK
  <2>3. TypeOK'
    BY <1>2, InvStep DEF IInv
  <2> QED
    BY <2>1, <2>2, <2>3, RefinesStop DEF TypeOK
<1> QED
  BY <1>1, <1>2 DEF Next, FaultStep, Acts

\* The service and its clients keep the contract of ServiceClient.call, for any number
\* of them and any faults, in the documented use.
THEOREM Implements ==
  ASSUME DocumentedUse
  PROVE  Spec => KeepsContract
<1>1. IInv /\ [Next]_vars => [Contract!Next]_(Contract!vars)
  BY RefinesStep
<1> QED
  BY RefinesInit, Invariance, <1>1, PTL DEF Spec, KeepsContract, Contract!Spec

=============================================================================
