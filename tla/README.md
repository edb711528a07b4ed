# spawnkit in TLA+

spawnkit (`src/src/spawnkit`) runs pools of Python worker processes around one
GPU: a batched inference service that many workers call, a monitor that watches
the workers and decides when the run is over, and the shutdown that ends it.
This directory holds a model of its protocols in TLA+, the instances that TLC
checks, and theorems that TLAPS proves for every instance. Line numbers below are
those of the files under `src/src/spawnkit`.

## The system

| component | source | state it keeps | operations |
|---|---|---|---|
| ServiceClient | `service/client.py` | request counter, client id, one response queue, optional shared rows | `call`, `_await` |
| BatchedInferenceService | `service/batched.py` | the batch, the rpcs already verified, the built model | `run`: build, then collect, partition, group, forward, scatter, verify, answer |
| worker loop | `service/loop.py` | items handled, fast retries left | `build_model_or_stop`, `run_worker_loop`, `maybe_sync_weights` |
| shared rows | `service/shared.py` | one request row and one response row per client and rpc | `write_request`, `gather_requests`, `scatter_response`, `read_response` |
| rpcs | `service/rpc.py` | none | `collate`, `rows_in`, `call`, `split`, `_take_rows` |
| GraphRunner | `service/cudagraph.py` | captured graphs with their static buffers, verification marks, an enabled flag | `__call__`, `_capture`, `_verify` |
| WorkerMonitor | `monitor.py`, `supply.py` | deaths reported, restarts used | `watch`: sweep for memory exhaustion, critical deaths, tolerated deaths, restarts, producers |
| OOM classification | `oom.py` | none | `is_oom_error`, `abort_worker_on_oom`, `raise_if_oom`, `process_oom_reason`, `thread_oom_reason` |
| pool shutdown | `processes.py` | one shared deadline per window | `shutdown_processes`, `graceful_shutdown`, `MonitoredThread.run` |
| signals | `lifecycle.py` | handlers, a flag that the cleanup runs | `register_shutdown_signals` |
| run directories | `run.py` | a directory, its manifest | `claim_run_dir`, `write_run_manifest` |
| hygiene | `hygiene.py` | variables of the process environment | `cuda_hidden_from_children`, `blas_threads_pinned`, `prepare_cpu_only_worker` |
| seeding | `seeding.py` | the seed, `PYTHONHASHSEED`, the streams | `setup_seed`, `seed_worker`, `worker_rng` |
| logging | `_log.py` | none | |

How they interact. A worker process holds a client; `call` writes its row if the
rpc is shared, puts a request on the queue all clients share, and blocks on its
own response queue, waking up now and then to look at the **stop event** of the
run. The service process takes requests in batches, serves them rpc by rpc, and
puts one response per request on the queue of its client. A put only reaches a
buffer of the process; a feeder thread moves it to the pipe, and a process that
ends by `os._exit` or a signal takes its buffer with it. Inside the service a
batch is collated, forwarded, by a captured CUDA graph if there is one, split,
and compared with what each request alone would be told. The service sets the
stop event when it fails, except when it runs out of memory or is killed: then
only the monitor, in the parent, finds it dead and sets the event. The monitor
also respawns dead workers within a budget, with the environment masked around
each start, and ends the run when the producers are done. When the watch has
ended, or a signal came, the parent shuts the pool down with `shutdown_processes`.

What is hard here: the interleavings of callers, service, feeder threads, monitor
and whoever sets the stop event; deaths between any two steps of the above; the
many spots where the monitor reads what changes under its eyes; time windows
shared by a pool; handlers that nest; buffers that keep rows of earlier batches; an
environment all threads share. `PROJECT.json` lists the hazards line by line, with
the properties that are about each. What makes each component correct:

- client and service: an answer is the answer to the call that got it; a client
  has one request in flight; nothing routable is lost; every call ends; no answer
  depends on the batch it was computed in when verification is on.
- rpcs and GraphRunner: a request is told of its own rows, all of them, with the
  weights of the last sync, whatever was there before; a graph changes nothing. Both
  have exceptions in the code, for fields whose batch is not on axis 0 (see below).
- loop: retries of a failing sync are bounded, the schedule is kept, a stop ends it.
- monitor: a verdict is true when it is given; memory exhaustion is never taken
  for something else; budgets are kept; a stop ends the watch.
- OOM classification: memory exhaustion in the chain is found and reaches the
  supervisor, and nothing else is reported as such.
- shutdown and signals: the cleanup runs once and ends in bounded time, whatever
  the processes do; it signals nobody too early and forgets nobody; one signal ends
  the parent, unless its exit has to wait, and a later one a cleanup that hangs.
- run directories: two runs never share one; a reader of the manifest never finds
  half of one.
- hygiene and seeding: the environment comes back as it was; a worker has the masks
  it was to have; no two streams coincide.

## The modules

**`BlockingCalls`** is the abstract contract of `ServiceClient.call`: a call
blocks, then returns the answer to its own payload, or raises, and raises only
once the run was stopped.

**`BatchedService`** models `client.py`, `batched.py`, `loop.py` with requests in
it, and the row discipline of `shared.py`. A payload is the token
`<<caller, number of the call>>`; an answer names the rpc and the token it was
computed from, and whether the other rows of the batch influenced it (a model
that mixes rows is a parameter, `MixingRpcs`). Correspondence:

- `pc`, `rpc`, `calls`, `want`, `got`, `raised` are one caller's place in
  `call`/`_await`, its arguments and what became of its last call. `Begin` is the
  row write and the increment; `Submit` and `StartAwait` read `self._counter` again,
  as the code does; `Receive` is the ordering guard; `Timeout` and `CheckStop` are
  the two halves of the wake-up, so that a response or a stop can come between.
- `svc` is the service's place in `run_worker_loop`, `_collect_batch`,
  `_partition_routable`, `_process_batch`; `batch`, `todo`, `group`, `outputs` are
  its locals, `verified` is `_verified_rpcs`.
- `outbox` and `respQ` are the two halves of a response queue, `Flush` its feeder.
  The feeder of the *request* queue has no variable: a request that is still in a
  worker's buffer is one the service has not collected yet, and one lost with its
  worker is a worker that died before `Submit`.
- `Exit` is every way the process ends, with what happens to unflushed responses.
- `Supervise` is what a `WorkerMonitor` does for a critical worker, `StopRun` is
  everybody else who holds the stop event, `SendSentinel` puts `QUEUE_STOP`.

`MCBatchedService` gives the client objects to the callers: one each, as
documented, or one for two threads.

**`ForwardPath`** models what `BatchedService` takes as one step: a batch of one
rpc in `_serve_queued` and `_forward`, `TensorRpc.collate` and `split`,
`GraphRunner`, and `_verify_row_independence`, which goes through the same forward
again, once per request. A row is a token; the model is what its output tells of:
the row, the weights, the layout it was traced for and, by `mixing`, the rows
beside it. `pc` is the place in the call chain, `of` whose forward it is, the
batch's or one request's. `graphs` holds a static input and a static output per
key, `(bucket, layout)`; `Replay` overwrites the first rows of the input only, and a
returned tensor is a *view*, resolved by `Value` when it is used, until `Split`
copies it. An output array is a record of what it has along its two axes: the rows
of the batch, and `other`, the part of the other axis that is left. `SliceOutput` is
`slice_outputs`: it cuts axis 0, whichever of the two that is for a field, so that a
field on axis 1 keeps every row of its bucket and may lose a part of `other`.
`Compare` is `_verify`, `Disable` the flag that every failure sets. `TakeRows`
chooses the axis as `_take_rows` does, and stops where the array does. `CloseEnough` is `np.allclose`: it
compares values, but stretches an axis of length one, raises on other shapes, and
has nothing against an array without elements. `Publish` and `Sync` are the trainer
and the replica: a graph reads the weights at the address it was captured with. A
payload has two arrays, whose rows may disagree, and a layout; the requests of a
batch have a layout each, and `Collate` fails if they differ (`SameLayout`).

**`AtomicBatches`** is the abstract contract of that path, and the way
`BatchedService` sees a forward: a batch is answered in one step, each request with
its own rows, in its layout and the weights of the last sync, or it ends the service.
It promises this of the `Fields` whose axis nothing can mistake; of `Others` it says
that a batch in which one is not as promised is answered without it. A batch of
several layouts, or whose requests disagree in rows, is not answered. `pure` says that the answers are what each request alone would be told, which only a
model that mixes rows may make false and, where batches are checked, only for a
request that came alone.

**`WorkerLoop`** models `run_worker_loop` with the weight syncs and without the
items; `BatchedService` has the same loop the other way round.

**`WorkerMonitor`** models `watch` with one spec looked at per step, `supply.py`'s
predicates, `MonitoredThread.run`'s order of recording and setting the event, and
workers that die, raise, return and are respawned in between. `stopper`, `before`
and `late` are history variables that the properties need.

**`OutOfMemory`** models the walk of `is_oom_error` over any graph of causes and
contexts (both can be assigned, so cycles are possible), one exception per step,
then what the handler makes of the verdict in a worker process or a thread, and what
the supervisor reads from the exit code or the recorded exception. The message
markers are one bit per exception, `direct`.

**`Shutdown`** models `shutdown_processes` with a clock: time passes only while a
join blocks. A process may end at any time, told or not, and may never end.
`graceful_shutdown` is the same escalation for one process: `N = 1`, `Grace = 0`
and `Floor = 0`, which the assumption of the module and so its theorems cover.

**`Signals`** EXTENDS `Shutdown` with the handler of `register_shutdown_signals`.
Python runs a handler between two instructions of whatever the main thread does,
the handler of an earlier signal included: `frames` is the stack of handlers, each
at a line, and only the innermost moves. `CleanupStep` is one step of the shutdown;
it may raise (`CleanupRaises`, logged, and `finally` exits) or hang; one that returns
has detached the feeders of the parent's queues (`detach_queue_feeder`). `Unwind` is
`sys.exit`, `ForceExit` is `os._exit`. After `sys.exit` the interpreter runs
`multiprocessing`'s exit hook: `TellDaemons` sends SIGTERM to the daemons that live
(`Daemons` are the processes started with `daemon=True`, as `batched.py:268-283` does
by default), and `Exits` is past the joins, without a timeout, of every worker and of
every feeder that has items for a dead consumer (`stuck`, the hang that
`processes.py:161-167` describes). A worker's `temper` is the mildest signal that ends
it, or `"never"`; `Heeds` says that it was sent such a signal, in the shutdown or at
the exit. `Held` is what this exit waits for without end.

**`RunDirectory`** models runs that start together under one base: `CheckTag`,
`Claim` and `FileExists` are `claim_run_dir` (`mkdir` tests and creates in one
step), `OpenTemp`, `WriteTemp`, `Replace`, `Unlink` and their failures are
`write_run_manifest`. A name is the sequence of its parts, so that a tag may be what
another run's suffix makes of its tag. Files are known by their creator, so that a
path opened by one run may be renamed by another before it writes.

**`Spawning`** models threads of one parent that each start a worker inside
`cuda_hidden_from_children` and `blas_threads_pinned`. A thread's program is a
sequence of save, mask, start and restore operations on single variables of the
environment they share; a worker gets `env` as it is at its start. The child's
stream is the pool of words `SeedSequence` fills from seed and offset, padded with
zeros; a seed of two words is no `PYTHONHASHSEED`, and its workers die at once.

How they compose. `BatchedService` composes clients, service, rows, queues and a
monitor reduced to one action, `ForwardPath` opens up its forward in a module of its
own and implements `AtomicBatches`, and `Signals` composes the handlers with the shutdown they run.
`OutOfMemory` is the inside of the deaths that `WorkerMonitor` and
`BatchedService` call `"oom"`.

## What is checked

All `pass` runs finish; bounds are given with the reason they suffice.

| run | bounds | shows |
|---|---|---|
| `service_safety` | 3 workers, 1 call each, batch of 3, 4 rpcs: over rows and over queues, one whose model mixes rows and one whose model does not | own answers, and none that depends on the batch it was computed in; the service may raise, be killed or be stopped |
| `service_live` | 2 workers, 2 calls each, 1 shared rpc, batch of 2 | rows owned by one side at a time, one request in flight, every call ends, each is answered while the run is healthy, a stop ends the service, and `BlockingCalls` is implemented; every fault but a kill, the sentinel and dying workers included |
| `forward` | 3 batches of up to 2 requests of 1 or 3 rows, each in one of 2 layouts, graphs of up to 4 rows, 2 weight versions, an output field on either axis, models that do not mix rows or mix by sum or mean, failures of capture, replay and model | own rows, synced weights, answers that are what the request alone would be told and graphs that are eager, with their exact exceptions; no false alarm but by a field on a mistaken axis; every batch ends; `AtomicBatches` is implemented |
| `monitor` | 4 workers: a wired critical thread, a critical and a plain restartable process, one never started; budgets of 1 and 2 | memory exhaustion is raised as such, what was said of a worker stands, one respawn at most follows a stop, a critical death or a stop ends the watch |
| `oom` | every graph of 3 exceptions, in a worker or a thread | the verdict is right, exhaustion is seen, nothing else is reported |
| `shutdown` | module `Signals`: 2 processes of every temper, one of them a daemon, a queue that may be stuck, windows of 3, 2 and 1 floors, 3 signals, a cleanup that may raise or hang | time bound, no early signal, the cleanup once, no orphans, one signal ends the parent unless its exit is held, a later one a hung cleanup |
| `worker_loop` | interval 4, burst 2, 9 items | bounded burst, schedule kept, stop ends it |
| `run_directory` | 2 runs, 2 pids they may share, tags that are empty, plain, default or already suffixed, an empty or a used base directory | distinct and first unused directories, a whole manifest, no litter |
| `spawning` | 2 threads, CUDA and 2 BLAS variables, words of 2 bits, seeds and offsets of one and two words | the environment returns, workers are masked as wanted and not otherwise, streams are apart |

The runs check what takes several steps to go wrong. The type invariants, and the
invariants that only lead up to another property (`NothingLost`, `RaiseMeansStopped`,
`NobodyForgotten`, `BurstMeansFailing`, `OneLateItem`, `EndedMeansStopped`,
`NeverRetried`), have no place in a run: they are proved for every instance, which says
more.

Why these bounds are enough for the cases that matter.

- *Service.* Three requests in a batch make two groups with two requests in one of
  them, which is what grouping, mixing and scattering need; two calls per caller
  let a late response meet the next call. A kill loses the buffered responses just
  as running out of memory does, but in any state of the service; `service_safety`
  has it, `service_live` leaves it out to stay small.
- *Forward.* One row fills its bucket and three do not; a batch of two requests has
  2, 4 or 6 rows: it fills one, or is too wide for any. Three batches are one that
  captures and verifies, one that leaves other rows behind, and one that is served
  over them. The arrays of two requests can disagree each and agree in sum. The field
  on axis 1 is the state of one recurrent layer, `[1, batch, hidden]`: with one layer
  the cut of axis 0 takes nothing away, so that a graph compared on a batch of any
  length that fills its bucket passes. With two layers a graph compared on one row is
  found wrong at once, and the case that matters, stale rows in an answer, needs
  larger batches; with one layer three batches reach it.
- *Monitor.* One worker of each kind, and the only coupling between workers is the
  order in which they are read.
- *OOM.* Three exceptions make a cycle that leads back to the start, and one that
  leads past it.
- *Shutdown.* Windows of different lengths, one equal to the floor, cover every
  order of "deadline passed" and "join too short"; two processes share a window.
  Three signals are the first, one between its test and its mark, and one that
  interrupts. One worker is a daemon and one is not: the exit tells the first only.
- *Loop.* Nine items cover two schedules and the bursts between them, the second of
  which begins out of an exhausted one.
- *Run directories.* Two writers show every race over one path; tag `train_2` meets
  the second `train`.
- *Spawning.* Two threads show every overlap, and two BLAS variables the state
  half way through a block. With words of two bits, 6 is two words, like a seed
  above 2^32.

Each of the `violation` runs shows a place where the text of the repository says
more than the code does; `PROJECT.json` quotes both.

| run | what TLC finds |
|---|---|
| `service_retry_rows` | a worker that calls again after a call raised on a stop gets the answer of the call it abandoned, through its row |
| `service_two_threads` | two threads on one client get each other's answers, unnoticed by the ordering guard |
| `service_unroutable` | a client that cannot be answered waits for ever, it does not time out |

The first two are exactly the two uses `DocumentedUse` excludes; the theorems
below assume it, and `service_safety`'s constants satisfy it.

Symmetry is used only in runs without liveness: `service_safety` and
`service_retry_rows` over callers and clients together, `spawning` over threads; no
definition tells them apart (`CHOOSE` is used for outputs that are equal, whichever
is chosen). `CHECK_DEADLOCK FALSE` is set everywhere because the systems stop: a
service that has ended and workers that have made their calls, a watch that
returned, a pool that is down, runs that have their directories.

### What the models say about the edges of the code

These are exceptions written into the properties, or facts of the models; a reader
of the code should know them.

- *Verification of graphs is once per key* (`cudagraph.py:143`). If the first batch
  of a key fills its bucket, or the model does not see rows of zeros, a model that
  mixes rows passes, and later, shorter batches are computed over rows of earlier
  ones. `GraphIsEager` says exactly this; `VerifyRows` finds such a model with the
  first batch of several requests, and a request that came alone before that
  and had to be padded is an exception of `AnswersPure`.
- *The check is once per rpc* (`batched.py:509`), and nothing asks the merged batch to
  tell anything: if the first one has an empty request in it, a model that mixes rows
  may answer the other one as it would alone, passes, and is never looked at again. This
  is the other exception of `AnswersPure`, for clients that send payloads without rows.
- *A batch without rows* gets a bucket of two (`cudagraph.py:67`: minus one has one
  bit), and verifies its key on nothing.
- *Graphs cut outputs on axis 0* (`cudagraph.py:236-238`), whatever `row_axis` says.
  For a field `[layers, batch, hidden]` that cuts layers. If the first batch of a key is
  padded, or has fewer rows than there are layers, `_verify` sees different shapes and
  disables the runner for the rest of the run. Otherwise there was nothing to cut, the
  comparison passes, and every later, shorter batch of this key keeps its *whole bucket*:
  `_take_rows` (`rpc.py:287`) no longer finds the batch on the declared axis and falls back
  to axis 0, so that the first client is handed all of the bucket's rows, those that earlier
  batches left in the static buffers included, and later ones some layers of them or
  nothing. In the check for row independence the same thing happens to a request that is
  forwarded alone: `np.allclose` raises on the shapes or finds other values, and the check
  stops a service whose model mixes nothing. `cudagraph.py:28-29` says that a graph is
  'never a behaviour change'. `Misread` is the exact case: `RowsAreOwn`, `AnswersPure` and
  `ServesAtomically` except it, `GraphIsEager` and `NoFalseAlarm` name it. Without
  the exception of `RowsAreOwn` TLC finds, in the run `forward`, an answer with rows of an
  earlier batch: the first batch is checked, the second fills a graph, the third is shorter.
- *Arrays that are empty or of length one pass the check*: `np.allclose` stretches an
  axis of length one, and nothing is to be compared in an array without elements
  (`batched.py:627`). A field that a mistaken axis left empty is not noticed.
- *Two layouts in one batch* (`batched.py:467-477`, `rpc.py:199-202`): requests are
  grouped by the name of the rpc only. `cudagraph.py:57-61` says that clients which
  disagree about a layout are 'handled automatically', by a graph for each; when they
  meet in a batch, `np.concatenate` raises and the service stops. `NoFalseAlarm` says
  that this happens to no batch of one layout, and `ServesAtomically` that such a batch is
  not answered.
- *Graphs need inputs with their batch on axis 0*, too: `cudagraph.py:131-143` copies
  into the first rows of axis 0. The inputs of `ForwardPath` are rows.
- *A tie of axes* (`rpc.py:283-285`): a field as long as the batch along both axes is
  sliced along the declared one; `Tie` is the case left to the user, and it can make
  the check for row independence stop a service whose model is independent.
- *`except Exception` around capture and replay* treats memory exhaustion of the
  graph as a reason to go on eagerly.
- *Two signals before the mark* (`lifecycle.py`): the handler of the second runs
  the cleanup, that of the first never goes on. If that cleanup hangs, only a third
  signal ends the parent.
- *The exit waits for what the cleanup left* (`lifecycle.py:67-68`): after `sys.exit` the
  interpreter joins the children that live and the feeders of the queues, without a
  timeout. A worker that survives SIGKILL holds the parent after an orderly cleanup
  already; after a cleanup that raised, so does a worker which is no daemon and was not
  told, one that ignores SIGTERM, or a queue that was not detached. `lifecycle.py:41-42`
  says that a cleanup that raises 'does not stop the exit'. `Held` is the exact case, and
  `FirstSignalEnds` excepts it; a second signal ends the parent even then.
- *An explicit cause hides the context* (`oom.py`): `raise X from Y` while memory
  exhaustion is handled is not classified as such.
- *The shutdown's bound* is three windows and the floors of its joins. The floor of
  50 ms (`processes.py:270`) is paid per process once a window is spent, so the cost grows
  with the pool, though `processes.py:227` says that it is bounded by the three windows
  however many workers there are.
- *A critical worker that runs out of memory between the sweep and the critical
  check* (`monitor.py:144-147`) is an ordinary critical death: the run stops, and the
  reason that is named is the wrong one. `OomIsRaised` states what does hold, of what
  was on record when the tick began and of a thread that stopped the run itself.
- *A model that will not build* (`loop.py:62-68`) stops the run and lets the process
  end with status zero, though `loop.py:10-11` says that it stops it non-zero.
- *An idle loop* on a scheduled iteration (`loop.py:138`) opens a new burst on every
  turn, since no item moves it off the schedule. `BurstBounded` is about the syncs off
  schedule.
- *Offset zero is the parent's stream*: `SeedSequence` pads with zeros, so worker 0 of
  a role with base 0 draws what `default_rng(seed)` in the parent draws. A seed of
  2^32 or more is exported as a `PYTHONHASHSEED` that ends every child.
- *The temporary manifest is named by pid*: two writers with one pid, on two hosts of
  a shared file system, can tear it. `ManifestWhole` names the exception.
- *The masks are the process's*: two threads inside one block at once can restore each
  other's mask and leave it for good; every property of `Spawning` that this voids
  names `overlap`.

### Fairness

- `BatchedService`: each caller inside a call, the service, the feeders and the
  monitor are scheduled (weakly fair): they are operating-system processes and
  threads, and a forward is taken to return. Nobody is obliged to make a call, to
  die, to fail or to stop the run.
- `ForwardPath`: the service goes on with its batch (`Serve`), which supposes that
  device calls return. No batch, sync or publication has to come.
- `WorkerMonitor`: the watch goes on, `restart_fn` returns, and a thread that
  recorded its exception reaches the end of `MonitoredThread.run`. No worker is
  obliged to die.
- `OutOfMemory`: the handler goes on and the supervisor polls. No process has to end
  by itself.
- `Signals`: the main thread goes on (`HandlerStep`), in the shutdown and at the exit
  too, and a worker that was sent a signal which ends it does end (`Heeds`): the kernel
  sees to it. No signal has to come and no other process has to end; a cleanup that hangs
  has no step, nor has an exit that waits.
- `WorkerLoop`: the loop goes on; `sync_fn`, `collect_fn` and `handle_fn` return.
- `RunDirectory` and `Spawning` state none: they have no liveness property.

## What is proved

Every theorem holds for every value of the constants that the named assumptions
of its module allow. Those about `BatchedService`, but for types, assume
`DocumentedUse` as well: one client object per thread of control, and no call after
one that raised. The runs `service_retry_rows` and `service_two_threads` show that
neither half can be dropped.

| module | theorem | property |
|---|---|---|
| `BatchedServiceProofs` | `TypeCorrect`, `AnswersAreOwn`, `SingleFlight`, `RaisesAreStops`, `NothingIsLost` | `TypeOK`, `AnswerIsOwn`, `OneInFlight`, `RaiseMeansStopped`, `NothingLost` |
| | `RowsAreExclusive`, `AnswersAreNotMixed`, `Implements` | `RowsExclusive`, `NoMixedAnswer` (with `VerifyRows`), `KeepsContract`: `BlockingCalls` is implemented |
| `ForwardPathProofs` | `TypeCorrect`, `AnswersAreOwn`, `AnswersAreCurrent`, `AnswersAreIndependent`, `GraphsAreEager`, `AlarmsAreTrue` | `TypeOK`, `RowsAreOwn`, `WeightsAreSynced`, `AnswersPure`, `GraphIsEager`, `NoFalseAlarm` |
| | `Implements` | `ServesAtomically`: `AtomicBatches` is implemented |
| `ShutdownProofs` | `TypeCorrect`, `CostIsBounded`, `SignalsWait`, `NobodyIsForgotten` | `TypeOK`, `Bounded`, `NoEarlySignal`, `NobodyForgotten` |
| | `HandlerRunsShutdown`, `HandlersTypeCorrect`, `CleanupRunsOnce`, `NoOrphanIsLeft` | what a handler does to the pool is a behaviour of `Shutdown`; `SignalsTypeOK`, `CleanupOnce`, `NoOrphans` |
| `WorkerLoopProofs` | `TypeCorrect`, `BurstIsBounded`, `ScheduleIsKept`, `BurstsFollowFailures`, `StopIsHeeded` | `TypeOK`, `BurstBounded`, `NeverUnsynced`, `BurstMeansFailing`, `OneLateItem` |
| `WorkerMonitorProofs` | `TypeCorrect`, `OomRaises`, `EndStops`, `VerdictsAreFinal`, `OneRespawnAfterStop` | `TypeOK`, `OomIsRaised` (on record, or of whoever stopped the run), `EndedMeansStopped`, `VerdictsStand`, `OneLateRespawn` |
| `OutOfMemoryProofs` | `TypeCorrect`, `Classification`, `OomIsFatal`, `NoFalseReport` | `TypeOK`, `VerdictIsRight`, `NeverRetried`, `ReasonIsTrue` |
| `RunDirectoryProofs` | `TypeCorrect`, `DirectoriesAreOwn`, `SuffixesAreDense`, `NoLitterIsLeft`, `ManifestIsWhole` | `TypeOK`, `ClaimsDistinct`, `FirstUnused`, `NoLitter`, `ManifestWhole` |
| `SpawningProofs` | `TypeCorrect`, `EnvironmentReturns`, `WorkersAreCheap`, `MasksDoNotStray`, `StreamsAreApart` | `TypeOK`, `EnvRestored`, `CheapWorker`, `NoStrayMask`, `StreamsApart` |

**The service.** That an answer is one's own is not inductive: a step that hands
a response over preserves it only if the response was right before, and so was
the request it came from. `IInv` therefore follows every message through the four
places it can be in (request queue, batch, outbox, response queue): a client has
at most one message in all of them together (`Single`), and only while its caller
waits, gave up or died (`Tracked`); each is the one its caller waits for
(`MessagesInv`), and so are the outputs of a group and what has been scattered to
the rows (`OutputsInv`); the caller's own variables agree with the counter
(`CallerInv`); what is awaited is somewhere (`Kept`). Rows carry no number, so
`OutputsInv` rests on `Single`: that is why the two misuses break it. There is
one lemma per action, and frame lemmas for the clients and callers it leaves alone.

**Mixed answers.** `MixInv` adds what verification gives: no verified rpc mixes, a
group about to be answered has clean outputs and rows, and a clean message or row
stays so until the next group, which by `IInv` is not of that client.

**Refinement.** A caller is `calling` while it is inside `call`, its answer is the
token it received, `stop` is itself. `Begin` and the steps that end a call are the
abstract ones; the others stutter, or set `stop`. The step that raises needs
`RaiseMeansStopped`, the one that answers needs `AnswerIsOwn`.

**The path of a batch.** The prover cannot use the library's induction theorems, which
take an operator; what the recursive definitions compute is proved from their *least
counterexample* instead (`Least`, from the well-founded order of the natural numbers).
So come the bounds of a bucket (`BucketBounds`: it holds the rows and is less than twice
as wide), and where the concatenation of any number of requests has the rows of each
(`Pieces`, `Located`), which makes `split` the inverse of `collate` (`SplitAll`,
`Piece`). `IInv` then follows the batch. `GraphTypes`: every graph reads the weights at
the address they still have. `OutputsInv`: what was returned is eager, or a view of a
graph whose static input begins with these rows. `HostInv`: the copy that `split` made
keeps its values while the check replays the same graphs; what it has in a field is eager
(`FieldOf`) unless the field was misread. `VerifiedInv`: a mean that
passed the comparison was compared on a full bucket or on no rows; and a field on another
axis, on a full bucket with as many rows as the field has on axis 0, or more. `CheckInv` is
why the check for row independence works although it goes through the padded graphs it is to
judge: a request whose answer alone equals its part of the batch had the whole batch
beside it, so that the batch fits into its own bucket (`Fits`, by pigeonhole); a bucket
is less than twice its rows, and two requests are not both more than half of a batch
(`NotTwice`). The refinement needs all of this in one step, `Put`.

**Shutdown and signals.** The first join of a window costs the window or a floor,
each later one at most a floor (`TimeInv`); what was joined and still runs is past
the deadline (`JoinInv`), which is what makes a signal not early (`SentInv`). Every
step of the handlers is one of the shutdown or leaves it alone, so all of this holds
of `Signals`. `HandlerInv` adds what the stack can be: one handler at most is in the cleanup or
past it, and one that is still at its mark when the flag is set lies below it
(`OnceInv`); whoever exits finished the cleanup, or it raised, and whoever has exited has
no worker left (`ExitInv`); a forced exit has had two signals (`CountInv`).

**Loop.** The attempts made off schedule and those left share one budget
(`BurstInv`). The items since the last attempt never exceed those since the last
scheduled iteration (`SyncInv`), which needs a lemma on remainders.

**Monitor.** The invariant relates the place in the tick to the workers already
looked at. `SweepInv`: of those out of memory when the tick began, the sweep has passed
none. `StopperInv`: nor has the last sweep passed the thread that stopped the run.
`ProducersInv` and `CriticalInv` carry a verdict from the rule that gives it to the
end, `ReportedInv` what was said of a worker; `LateInv` allows one respawn whose test
came before the stop. That these last needs a frame lemma: what workers do by
themselves revives nobody.

**OOM.** `WalkInv`: the set `seen` is a part of the chain without exhaustion, and
`seen` with `current` is closed under the link, so that a walk that runs out has seen
the whole chain; the chain is defined as the least closed set, without recursion.
`OutcomeInv` ties exit codes and recorded exceptions to the verdict.

**Run directories.** `ClaimInv`: what was tried and what was claimed is in the base
directory. `PidInv`: the file under a pid's temporary name, or open in a run of that
pid, was created by a run of that pid. `FilesInv`: the file of a run that shares its
pid with nobody holds what its writer has got to, and is the manifest only when whole.

**Spawning.** Each operation of a program has a rank (saves before masks before the
start before restores, per variable); `InsideInv` reads off the place in the program
which variables a thread is inside of, `EnvInv` what `env` and `saved` then are for a
variable that was never doubly held, and `SeedInv` the child's stream. That streams
are apart is arithmetic on words.

## Only model-checked

- Liveness: `EveryCallEnds`, `EveryCallAnswered`, `ServiceWindsDown`, `BatchEnds`,
  `CriticalDeathEnds`, `StopEndsWatch`, `OomIsSeen`, `FirstSignalEnds`,
  `CleanupInterruptible`, `StopEndsLoop`. The prover does not reason
  about `ENABLED`, which weak fairness is defined by.

Every other property of a passing run is a theorem.

## Not modelled, and why

- Shapes, dtypes and devices are data, and so is the layout a shared row declares.
- A payload that is malformed (`ValueError`, `KeyError` in `call`) is refused before
  anything is submitted and changes no state.
- Time in `BatchedService`: the batch window may close at any moment.
- CUDA streams and warm-up runs of a capture; numeric tolerance of the comparisons.
- Batch-fill statistics, status lines, logging.
- In `Shutdown`, scanning the list for stragglers is one step: a process that ends
  during the scan is skipped by the `is_alive` test before it is signalled, so the
  finer interleaving gives the same outcomes.
- In `Signals`, threads of the parent's that are not daemons: the exit joins them, too,
  and the library starts none. `atexit` hooks and `finally` blocks of the user's return.
- The shared transport in `ForwardPath`: a shared row has its batch on axis 0, where a
  graph cuts rightly. `BatchedService` has this transport.
- In `WorkerMonitor`, a thread that is no `MonitoredThread`, and a SIGKILL sent by
  the run's own shutdown: the shutdown begins when the watch has ended.
- In seeding, the global generators of `random`, `numpy` and `torch` and the
  determinism switches: calls into libraries. A seed of `None` asks for nothing.
- `multiprocessing.Queue`, `Process` and `Event` themselves: external, modelled
  as `BatchedService` describes.
- `scripts/`, `examples/` and the tests: they are not part of the library.

Three hazards have no property, for the reasons `PROJECT.json` notes: a service that
dies unwatched (`client.py:136`: without a monitor nothing is promised), a worker that
runs out of memory between the sweep and the later rules of a tick (`monitor.py:162`: it
is named a plain death, as above), and a producer that dies between the restart rule and
the producer rule (`monitor.py:243`).

## What is left

- `WorkerMonitor` composed with `BatchedService` in place of `Supervise`, with the
  deaths of workers coupled to both. The two meet in the stop event and in the deaths
  of critical workers only, which each module has; the product is beyond what TLC
  finishes at the present bounds.
- An abstract supervisor that `WorkerMonitor` implements, as `BlockingCalls` and
  `AtomicBatches` are for the service; it would be what `Supervise` stands for.
- Batches of several rpcs in `ForwardPath`, each with graphs and a check of its own.
