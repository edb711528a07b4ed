------------------------------- MODULE Signals -------------------------------
(***************************************************************************)
(* register_shutdown_signals: a signal handler in the main thread of the   *)
(* parent, whose cleanup is shutdown_processes.  Python runs a handler     *)
(* between two instructions of whatever the thread does, the handler of an *)
(* earlier signal included: handlers nest, and the innermost one runs.     *)
(*                                                                         *)
(* The cleanup stops the pool and then detaches the feeders of the         *)
(* parent's queues.  What it left undone the interpreter's exit waits for, *)
(* without a timeout.  Threads of the parent's are left out.               *)
(***************************************************************************)
EXTENDS Shutdown, Sequences

CONSTANTS
  MaxSignals,      \* bound: signals that are sent
  CleanupFaults,   \* what the cleanup may do but return: a subset of {"raise", "hang"}
  Daemons          \* the processes started with daemon=True

ASSUME SignalsAssumption ==
  MaxSignals \in Nat /\ CleanupFaults \subseteq {"raise", "hang"} /\ Daemons \subseteq Procs

VARIABLES
  frames,      \* the handlers that run, innermost last: the line each is at
  cleaningUp,  \* state["cleaning_up"]
  process,     \* the parent: running, leaving through sys.exit, joining what is left of
               \* it, exited, forced out
  temper,      \* per worker: the mildest signal that ends it
  atExit,      \* the workers that the exit sent SIGTERM
  stuck,       \* a queue's feeder has items for a consumer that will not read them
  sent,        \* signals sent
  cleanups,    \* history: times cleanup_fn was called
  ended        \* history: how the cleanup ended, but for a return

exitVars   == <<temper, atExit, stuck>>
signalVars == <<frames, cleaningUp, process, exitVars, sent, cleanups, ended>>
allVars    == <<vars, signalVars>>

Lines   == {"test", "mark", "cleanup", "hang", "exit"}
Tempers == {"term", "kill", "never"}     \* "never": not even SIGKILL

SignalsInit ==
  /\ Init
  /\ frames = <<>> /\ cleaningUp = FALSE /\ process = "running"
  /\ temper \in [Procs -> Tempers] /\ atExit = {} /\ stuck \in BOOLEAN
  /\ sent = 0 /\ cleanups = 0 /\ ended = "no"

At(line)   == frames # <<>> /\ frames[Len(frames)] = line
GoTo(line) == frames' = [frames EXCEPT ![Len(frames)] = line]
Gone       == process \in {"exited", "forced"}

-----------------------------------------------------------------------------

\* SIGINT, SIGTERM or SIGHUP: one handler for all of them.
SignalArrives ==
  /\ ~Gone /\ sent < MaxSignals
  /\ sent' = sent + 1
  /\ frames' = Append(frames, "test")
  /\ UNCHANGED <<vars, cleaningUp, process, exitVars, cleanups, ended>>

\* Mutant: every signal starts the cleanup.
NotYet == TRUE

FirstOne == ~cleaningUp

\* The first signal goes on to the cleanup, ...
TestFirst ==
  /\ At("test") /\ FirstOne
  /\ GoTo("mark")
  /\ UNCHANGED <<vars, cleaningUp, process, exitVars, sent, cleanups, ended>>

\* Mutant: the second signal waits for the cleanup, too.
Ignored == frames' = SubSeq(frames, 1, Len(frames) - 1) /\ UNCHANGED process

\* os._exit(1): no finally block, no atexit hook, and no frame is left.
ForceExit == frames' = <<>> /\ process' = "forced"

\* ... a later one forces the process out.
TestSecond ==
  /\ At("test") /\ ~FirstOne
  /\ ForceExit
  /\ UNCHANGED <<vars, cleaningUp, exitVars, sent, cleanups, ended>>

MarkCleaningUp ==
  /\ At("mark")
  /\ cleaningUp' = TRUE
  /\ cleanups' = cleanups + 1
  /\ GoTo("cleanup")
  /\ UNCHANGED <<vars, process, exitVars, sent, ended>>

\* One step of shutdown_processes.
CleanupStep ==
  /\ At("cleanup") /\ Step
  /\ UNCHANGED signalVars

\* ... after which detach_queue_feeder discards what the parent's queues still hold.
CleanupReturns ==
  /\ At("cleanup") /\ phase = "done"
  /\ stuck' = FALSE
  /\ GoTo("exit")
  /\ UNCHANGED <<vars, cleaningUp, process, temper, atExit, sent, cleanups, ended>>

\* Mutant: only a cleanup that returned is followed by the exit.
StaysUp == frames' = SubSeq(frames, 1, Len(frames) - 1)

ThenExit == GoTo("exit")

\* The exception is logged, and finally does the rest.
CleanupRaises ==
  /\ "raise" \in CleanupFaults /\ At("cleanup")
  /\ ended' = "raised"
  /\ ThenExit
  /\ UNCHANGED <<vars, cleaningUp, process, exitVars, sent, cleanups>>

CleanupHangs ==
  /\ "hang" \in CleanupFaults /\ At("cleanup")
  /\ ended' = "hung"
  /\ GoTo("hang")
  /\ UNCHANGED <<vars, cleaningUp, process, exitVars, sent, cleanups>>

\* SystemExit unwinds the handlers below, none of which is in its try, and then the
\* interrupted program, whose finally blocks and atexit hooks run.
EveryFrame == frames' = <<>>

\* sys.exit(exit_code)
Unwind ==
  /\ At("exit")
  /\ EveryFrame /\ process' = "leaving"
  /\ UNCHANGED <<vars, cleaningUp, exitVars, sent, cleanups, ended>>

\* multiprocessing's atexit hook: SIGTERM to the daemons that are left, ...
TellDaemons ==
  /\ process = "leaving" /\ frames = <<>>
  /\ process' = "joining"
  /\ atExit' = {p \in Daemons : alive[p]}
  /\ UNCHANGED <<vars, frames, cleaningUp, temper, stuck, sent, cleanups, ended>>

\* ... and a join of every worker, and of every feeder that was not detached, for as long
\* as they take.
Exits ==
  /\ process = "joining" /\ frames = <<>>
  /\ ~stuck /\ \A p \in Procs : ~alive[p]
  /\ process' = "exited"
  /\ UNCHANGED <<vars, frames, cleaningUp, exitVars, sent, cleanups, ended>>

HandlerStep ==
  \/ TestFirst \/ TestSecond \/ MarkCleaningUp \/ CleanupStep \/ CleanupReturns
  \/ Unwind \/ TellDaemons \/ Exits

WorkerEnds(p) == Dies(p) /\ UNCHANGED signalVars

SignalsNext ==
  \/ SignalArrives \/ HandlerStep \/ CleanupRaises \/ CleanupHangs
  \/ \E p \in Procs : WorkerEnds(p)

\* A worker was sent a signal that ends it.
Heeds(p) ==
  \/ temper[p] = "term" /\ (signal[p] # "none" \/ p \in atExit)
  \/ temper[p] = "kill" /\ signal[p] = "kill"

\* The main thread is scheduled, and a worker that heeds what it was sent ends.  No signal
\* has to come, and no other worker has to end.
SignalsSpec ==
  /\ SignalsInit /\ [][SignalsNext]_allVars
  /\ WF_allVars(HandlerStep)
  /\ \A p \in Procs : WF_allVars(Heeds(p) /\ WorkerEnds(p))

-----------------------------------------------------------------------------
(* Properties *)

\* The variables keep to their types, and whoever leaves runs no handler but those of
\* signals that came later.
SignalsTypeOK ==
  /\ frames \in Seq(Lines) /\ cleaningUp \in BOOLEAN
  /\ process \in {"running", "leaving", "joining", "exited", "forced"}
  /\ temper \in [Procs -> Tempers] /\ atExit \subseteq Daemons /\ stuck \in BOOLEAN
  /\ sent \in 0..MaxSignals /\ cleanups \in Nat /\ ended \in {"no", "raised", "hung"}
  /\ process # "running" => \A i \in 1..Len(frames) : frames[i] = "test"

\* The cleanup is started once, even if the second signal arrives after the first one
\* has tested the flag and before it has set it.
CleanupOnce == cleanups <= 1

\* A parent that leaves in order has killed every worker that still runs; one that is gone
\* while a worker runs that it has not killed was told twice.
NoOrphans ==
  /\ process \in {"leaving", "joining", "exited"} /\ ended = "no" =>
       \A p \in Procs : alive[p] => signal[p] = "kill"
  /\ Gone /\ (\E p \in Procs : alive[p] /\ signal[p] # "kill") => sent >= 2

\* What the exit waits for without end: a worker that survives SIGKILL; and, after a cleanup
\* that raised, a worker that was not told in a way it heeds, or a feeder.
Held ==
  /\ process = "joining"
  /\ \/ \E p \in Procs : alive[p] /\ temper[p] = "never"
     \/ ended = "raised" /\ (stuck \/ \E p \in Procs : alive[p] /\ ~Heeds(p))

\* One signal ends the parent, whether the cleanup returns or raises, unless its exit is
\* held.
FirstSignalEnds == sent > 0 ~> Gone \/ ended = "hung" \/ Held

\* A signal that arrives during the cleanup ends the parent, even if the cleanup hangs.
CleanupInterruptible == cleaningUp /\ At("test") ~> Gone

=============================================================================
