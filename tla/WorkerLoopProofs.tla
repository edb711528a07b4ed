--------------------------- MODULE WorkerLoopProofs ---------------------------
(***************************************************************************)
(* The cadence of WorkerLoop for every interval, every number of retries   *)
(* and every number of items.                                              *)
(***************************************************************************)
EXTENDS WorkerLoop, TLAPS

-----------------------------------------------------------------------------
(* The inductive invariant *)

\* The attempts made off schedule and those still allowed share one budget.
BurstInv == burst <= Retries /\ (pc # "exited" => burst + left <= Retries)

\* The items handled since the last attempt are at most those since the last
\* scheduled iteration; on one, they are a whole interval until it has been synced.
SinceSchedule ==
  IF iters % Interval = 0 /\ pc \in {"test", "sync", "exited"} THEN Interval ELSE iters % Interval

SyncInv == unsynced <= SinceSchedule

\* An item collected after the stop leads to the loop test, and out.
LateInv ==
  /\ late \in {0, 1} /\ (late = 1 => stop)
  /\ late = 1 => pc \in {"handle", "test", "exited"}

IInv == TypeOK /\ BurstInv /\ SyncInv /\ BurstMeansFailing /\ LateInv

-----------------------------------------------------------------------------
(* Counting modulo the interval *)

\* A number has one quotient.
LEMMA OneQuotient ==
  ASSUME NEW d \in Nat \ {0}, NEW p \in Nat, NEW q \in Nat, p < q,
         NEW r \in 0..(d - 1), NEW s \in Nat
  PROVE  d * p + r < d * q + s
<1>1. d * (p + 1) <= d * q
  <2>1. PICK k \in Nat : q = p + 1 + k
    <3>1. q - (p + 1) \in Nat /\ q = p + 1 + (q - (p + 1))
      OBVIOUS
    <3> QED BY <3>1
  <2>2. d * q = d * (p + 1) + d * k
    BY <2>1
  <2>3. d * k \in Nat
    OBVIOUS
  <2> QED BY <2>2, <2>3
<1>2. d * (p + 1) = d * p + d
  OBVIOUS
<1> QED BY <1>1, <1>2

\* A remainder is below the interval, and the next number's is the next
\* remainder, unless that is 0.
LEMMA NextRemainder ==
  ASSUME NEW n \in Nat, NEW d \in Nat \ {0}
  PROVE  /\ n % d \in 0..(d - 1)
         /\ (n + 1) % d \in {0, (n % d) + 1}
<1>1. /\ n % d \in 0..(d - 1) /\ (n + 1) % d \in 0..(d - 1)
      /\ n \div d \in Nat /\ (n + 1) \div d \in Nat
      /\ n = d * (n \div d) + (n % d)
      /\ n + 1 = d * ((n + 1) \div d) + ((n + 1) % d)
  OBVIOUS
<1> DEFINE p == n \div d
           q == (n + 1) \div d
           r == n % d
           s == (n + 1) % d
<1>2. p \in Nat /\ q \in Nat /\ r \in 0..(d - 1) /\ s \in 0..(d - 1) /\ d * p + r + 1 = d * q + s
  BY <1>1
<1>3. d * p \in Nat /\ d * q \in Nat
  BY <1>2
<1> HIDE DEF p, q, r, s
<1>4. CASE p = q
  <2>1. s = r + 1
    BY <1>2, <1>3, <1>4
  <2> QED BY <1>1, <2>1 DEF r, s
<1>5. CASE p < q
  <2>1. s = 0
    <3>1. SUFFICES ASSUME s # 0 PROVE FALSE
      OBVIOUS
    <3>2. s - 1 \in Nat
      BY <1>2, <3>1
    <3>3. d * p + r < d * q + (s - 1)
      BY <1>2, <1>5, <3>2, OneQuotient
    <3> QED BY <1>2, <1>3, <3>3
  <2> QED BY <1>1, <2>1 DEF s
<1>6. CASE q < p
  <2>1. d * q + s < d * p + r
    BY <1>2, <1>6, OneQuotient
  <2> QED BY <1>2, <1>3, <2>1
<1> QED BY <1>2, <1>4, <1>5, <1>6

-----------------------------------------------------------------------------
(* IInv is inductive *)

LEMMA InvInit == Init => IInv
<1> SUFFICES ASSUME Init PROVE IInv
  OBVIOUS
<1>1. TypeOK
  <2>1. stop \in BOOLEAN
    BY Zenon DEF Init
  <2> QED BY <2>1, LoopAssumption DEF Init, TypeOK, Phases, LoopAssumption
<1>2. BurstInv /\ BurstMeansFailing /\ LateInv
  BY LoopAssumption DEF Init, BurstInv, BurstMeansFailing, LateInv, LoopAssumption
<1>3. SyncInv
  <2>1. 0 % Interval \in Nat
    BY LoopAssumption, NextRemainder DEF LoopAssumption
  <2> QED BY <2>1, LoopAssumption DEF Init, SyncInv, SinceSchedule, LoopAssumption
<1> QED BY <1>1, <1>2, <1>3 DEF IInv

LEMMA TypeStep == TypeOK /\ [Next]_vars => TypeOK'
<1> USE LoopAssumption DEF LoopAssumption, TypeOK, Phases, cadence
<1> SUFFICES ASSUME TypeOK, [Next]_vars PROVE TypeOK'
  OBVIOUS
<1>1. CASE Test
  BY <1>1 DEF Test
<1>2. CASE SyncSkipped
  BY <1>2 DEF SyncSkipped
<1>3. CASE SyncSucceeds
  BY <1>3 DEF SyncSucceeds, Attempt, AfterSuccess
<1>4. CASE SyncFails
  BY <1>4 DEF SyncFails, Attempt, AfterFailure, Forced
<1>5. CASE SyncRunsOutOfMemory
  BY <1>5 DEF SyncRunsOutOfMemory, Attempt
<1>6. CASE CollectIdle \/ CollectItem \/ CollectStop
  BY <1>6 DEF CollectIdle, CollectItem, CollectStop
<1>7. CASE Handle
  BY <1>7 DEF Handle, AfterItem
<1>8. CASE HandleRaises \/ StopRun \/ UNCHANGED vars
  BY <1>8 DEF HandleRaises, StopRun, vars
<1> QED BY <1>1, <1>2, <1>3, <1>4, <1>5, <1>6, <1>7, <1>8 DEF Next, LoopStep

LEMMA BurstStep ==
  TypeOK /\ BurstInv /\ BurstMeansFailing /\ [Next]_vars => BurstInv' /\ BurstMeansFailing'
<1> USE LoopAssumption DEF LoopAssumption, TypeOK, Phases, BurstInv, BurstMeansFailing, cadence
<1> SUFFICES ASSUME TypeOK, BurstInv, BurstMeansFailing, [Next]_vars
             PROVE BurstInv' /\ BurstMeansFailing'
  OBVIOUS
<1>1. CASE Test \/ SyncSkipped \/ CollectIdle \/ CollectItem \/ CollectStop
  BY <1>1 DEF Test, SyncSkipped, CollectIdle, CollectItem, CollectStop
<1>2. CASE SyncSucceeds
  BY <1>2 DEF SyncSucceeds, Attempt, AfterSuccess, Forced
<1>3. CASE SyncFails
  BY <1>3 DEF SyncFails, Attempt, AfterFailure, Forced
<1>4. CASE SyncRunsOutOfMemory
  BY <1>4 DEF SyncRunsOutOfMemory, Attempt, Forced
<1>5. CASE Handle
  BY <1>5 DEF Handle, AfterItem
<1>6. CASE HandleRaises \/ StopRun \/ UNCHANGED vars
  BY <1>6 DEF HandleRaises, StopRun, vars
<1> QED BY <1>1, <1>2, <1>3, <1>4, <1>5, <1>6 DEF Next, LoopStep

LEMMA LateStep == TypeOK /\ LateInv /\ [Next]_vars => LateInv'
<1> USE DEF TypeOK, Phases, LateInv, cadence
<1> SUFFICES ASSUME TypeOK, LateInv, [Next]_vars PROVE LateInv'
  OBVIOUS
<1>1. CASE Test
  BY <1>1 DEF Test, GoOn
<1>2. CASE SyncSkipped \/ SyncSucceeds \/ SyncFails \/ SyncRunsOutOfMemory
  BY <1>2 DEF SyncSkipped, SyncSucceeds, SyncFails, SyncRunsOutOfMemory, Attempt
<1>3. CASE CollectIdle \/ CollectItem \/ CollectStop
  BY <1>3 DEF CollectIdle, CollectItem, CollectStop
<1>4. CASE Handle
  BY <1>4 DEF Handle, AfterItem
<1>5. CASE HandleRaises \/ StopRun \/ UNCHANGED vars
  BY <1>5 DEF HandleRaises, StopRun, vars
<1> QED BY <1>1, <1>2, <1>3, <1>4, <1>5 DEF Next, LoopStep

LEMMA SyncStep == TypeOK /\ SyncInv /\ [Next]_vars => SyncInv'
<1> SUFFICES ASSUME TypeOK, SyncInv, [Next]_vars PROVE SyncInv'
  OBVIOUS
<1> USE LoopAssumption DEF LoopAssumption, TypeOK, Phases, SyncInv, SinceSchedule, cadence
<1>0. /\ iters % Interval \in 0..(Interval - 1)
      /\ (iters + 1) % Interval \in {0, (iters % Interval) + 1}
  BY NextRemainder
<1>1. CASE UNCHANGED <<iters, unsynced>> /\ (pc' = pc \/ pc \notin {"test", "sync", "exited"})
  BY <1>0, <1>1
<1>2. CASE Test
  BY <1>0, <1>2 DEF Test
<1>3. CASE SyncSkipped
  BY <1>0, <1>3 DEF SyncSkipped, Scheduled
<1>4. CASE SyncSucceeds \/ SyncFails \/ SyncRunsOutOfMemory
  BY <1>0, <1>4 DEF SyncSucceeds, SyncFails, SyncRunsOutOfMemory, Attempt
<1>5. CASE CollectIdle \/ CollectItem \/ CollectStop \/ HandleRaises
  BY <1>1, <1>5 DEF CollectIdle, CollectItem, CollectStop, HandleRaises
<1>6. CASE Handle
  BY <1>0, <1>6 DEF Handle, AfterItem
<1>7. CASE StopRun \/ UNCHANGED vars
  BY <1>1, <1>7 DEF StopRun, vars
<1> QED BY <1>2, <1>3, <1>4, <1>5, <1>6, <1>7 DEF Next, LoopStep

LEMMA Invariance == Spec => []IInv
<1>1. IInv /\ [Next]_vars => IInv'
  BY TypeStep, BurstStep, LateStep, SyncStep DEF IInv
<1> QED BY InvInit, <1>1, PTL DEF Spec

-----------------------------------------------------------------------------
(* The theorems *)

\* Type correctness of run_worker_loop, for every interval and every burst.
THEOREM TypeCorrect == Spec => []TypeOK
<1>1. IInv => TypeOK
  BY DEF IInv
<1> QED BY Invariance, <1>1, PTL

\* However often the loop goes round idle and however its syncs end, it tries at most
\* Retries of them off schedule between two that were scheduled (maybe_sync_weights).
THEOREM BurstIsBounded == Spec => []BurstBounded
<1>1. IInv => BurstBounded
  BY DEF IInv, BurstInv, BurstBounded
<1> QED BY Invariance, <1>1, PTL

\* No loop handles more than Interval items without trying to refresh its weights.
THEOREM ScheduleIsKept == Spec => []NeverUnsynced
<1>1. IInv => NeverUnsynced
  <2> SUFFICES ASSUME IInv PROVE NeverUnsynced
    OBVIOUS
  <2>1. iters % Interval \in 0..(Interval - 1)
    BY LoopAssumption, NextRemainder DEF LoopAssumption, IInv, TypeOK
  <2> QED BY <2>1, LoopAssumption DEF LoopAssumption, IInv, TypeOK, SyncInv, SinceSchedule, NeverUnsynced
<1> QED BY Invariance, <1>1, PTL

\* Fast retries are pending only while the last sync that was tried has failed.
THEOREM BurstsFollowFailures == Spec => []BurstMeansFailing
<1>1. IInv => BurstMeansFailing
  BY DEF IInv
<1> QED BY Invariance, <1>1, PTL

\* A loop told to stop takes at most one more item (the loop test in run_worker_loop).
THEOREM StopIsHeeded == Spec => []OneLateItem
<1>1. IInv => OneLateItem
  BY DEF IInv, LateInv, OneLateItem
<1> QED BY Invariance, <1>1, PTL
=============================================================================
