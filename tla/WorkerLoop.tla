------------------------------ MODULE WorkerLoop ------------------------------
(***************************************************************************)
(* run_worker_loop: sync the weights, collect, handle, until stopped; and  *)
(* the cadence of the syncs, on schedule every Interval items and at once  *)
(* after a failure, at most Retries times.                                 *)
(*                                                                         *)
(* What an item is, and what a sync copies, is left out: BatchedService is *)
(* the loop with the items and without the syncs.                          *)
(***************************************************************************)
EXTENDS Naturals

CONSTANTS
  Interval,   \* sync_interval, at least 1
  Retries,    \* _MAX_FAST_SYNC_RETRIES
  MaxItems    \* bound: work items that arrive

ASSUME LoopAssumption == Interval \in Nat \ {0} /\ Retries \in Nat /\ MaxItems \in Nat

VARIABLES
  pc,
  iters,      \* work items handled
  left,       \* fast_retries_left
  stop,       \* the stop event
  lastSync,   \* history: how the last sync that was attempted ended
  burst,      \* history: syncs attempted off schedule since the last scheduled iteration
  unsynced,   \* history: items handled since a sync was last attempted
  late        \* history: items handled with the stop event set when they were collected

cadence == <<lastSync, burst, unsynced>>
vars    == <<pc, iters, left, stop, cadence, late>>

Phases == {"test", "sync", "collect", "handle", "exited"}

Init ==
  /\ pc = "test" /\ iters = 0 /\ left = 0 /\ stop = FALSE
  /\ lastSync = "none" /\ burst = 0 /\ unsynced = 0 /\ late = 0

-----------------------------------------------------------------------------

\* Mutant: while True.
Always == TRUE

GoOn == ~stop

\* while not stop_event.is_set()
Test ==
  /\ pc = "test"
  /\ pc' = IF GoOn THEN "sync" ELSE "exited"
  /\ UNCHANGED <<iters, left, stop, cadence, late>>

\* Mutant: one item late.
ScheduledLate == iters % (Interval + 1) = 0

Forced    == left > 0
Scheduled == iters % Interval = 0

\* maybe_sync_weights: neither on schedule nor forced.
SyncSkipped ==
  /\ pc = "sync" /\ ~Forced /\ ~Scheduled
  /\ pc' = "collect"
  /\ UNCHANGED <<iters, left, stop, cadence, late>>

Attempt(how) ==
  /\ pc = "sync" /\ (Forced \/ Scheduled)
  /\ lastSync' = how
  /\ burst' = IF Scheduled THEN 0 ELSE burst + 1
  /\ unsynced' = 0
  /\ UNCHANGED <<iters, stop, late>>

AfterSuccess == IF Forced THEN 0 ELSE left

SyncSucceeds ==
  /\ Attempt("ok")
  /\ left' = AfterSuccess
  /\ pc' = "collect"

\* Mutant: a forced retry that fails opens a burst of its own.
Reopened == Retries

AfterFailure == IF Forced THEN left - 1 ELSE Retries

SyncFails ==
  /\ Attempt("failed")
  /\ left' = AfterFailure
  /\ pc' = "collect"

\* A sync that runs out of memory ends the process.
SyncRunsOutOfMemory ==
  /\ Attempt("failed")
  /\ pc' = "exited"
  /\ UNCHANGED left

\* collect_fn: IDLE, STOP, or an item.
CollectIdle ==
  /\ pc = "collect"
  /\ pc' = "test"
  /\ UNCHANGED <<iters, left, stop, cadence, late>>

CollectStop ==
  /\ pc = "collect"
  /\ pc' = "exited"
  /\ UNCHANGED <<iters, left, stop, cadence, late>>

CollectItem ==
  /\ pc = "collect" /\ iters < MaxItems
  /\ pc' = "handle"
  /\ late' = IF stop THEN late + 1 ELSE late
  /\ UNCHANGED <<iters, left, stop, cadence>>

AfterItem == "test"

Handle ==
  /\ pc = "handle"
  /\ iters' = iters + 1
  /\ unsynced' = unsynced + 1
  /\ pc' = AfterItem
  /\ UNCHANGED <<left, stop, lastSync, burst, late>>

\* handle_fn raises: the loop, and the process, end.
HandleRaises ==
  /\ pc = "handle"
  /\ pc' = "exited"
  /\ UNCHANGED <<iters, left, stop, cadence, late>>

StopRun ==
  /\ ~stop /\ stop' = TRUE
  /\ UNCHANGED <<pc, iters, left, cadence, late>>

LoopStep ==
  \/ Test \/ SyncSkipped \/ SyncSucceeds \/ SyncFails
  \/ CollectIdle \/ CollectItem \/ Handle

Next == LoopStep \/ SyncRunsOutOfMemory \/ CollectStop \/ HandleRaises \/ StopRun

Spec == Init /\ [][Next]_vars

\* The process is scheduled, and sync_fn, collect_fn and handle_fn return.
FairSpec == Spec /\ WF_vars(LoopStep)

-----------------------------------------------------------------------------
(* Properties *)

\* The variables keep to their types.
TypeOK ==
  /\ pc \in Phases /\ iters \in Nat /\ left \in 0..Retries /\ stop \in BOOLEAN
  /\ lastSync \in {"none", "ok", "failed"}
  /\ burst \in Nat /\ unsynced \in Nat /\ late \in Nat

\* Between two scheduled iterations a failing sync is retried at most Retries times,
\* however often the loop goes round idle.
BurstBounded == burst <= Retries

\* Nobody serves more than Interval items on weights it has not tried to refresh.
NeverUnsynced == unsynced <= Interval

\* A burst is about a failure: the first success ends it.
BurstMeansFailing == left > 0 => lastSync = "failed"

\* At most one item is collected after the stop: the loop looks before each.
OneLateItem == late <= 1

\* A stop ends the loop.
StopEndsLoop == stop ~> pc = "exited"

=============================================================================
