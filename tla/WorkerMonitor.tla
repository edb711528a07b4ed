---------------------------- MODULE WorkerMonitor ----------------------------
(***************************************************************************)
(* WorkerMonitor.watch: one thread that polls a list of worker specs, in   *)
(* their order and one after the other, while the workers live, die, record *)
(* exceptions and set the stop event in between.  One step of the monitor  *)
(* looks at one spec.                                                      *)
(*                                                                         *)
(* The wall clock (the check interval, the status cadence) and the log are *)
(* left out.  Every thread is a MonitoredThread; whether it was given the  *)
(* stop event is a parameter.                                              *)
(***************************************************************************)
EXTENDS Naturals

CONSTANTS
  N,                \* number of specs; a worker is the index of its spec
  Threads,          \* workers that are threads; the others are processes
  Wired,            \* threads that were given the stop event
  Critical,         \* spec.critical
  Producers,        \* spec.producer
  Restartable,      \* spec.restart_fn is set
  MaxRestarts,      \* spec.max_restarts
  Unstarted,        \* workers whose handle is None when the watch begins
  RequireProducers, \* the argument of watch
  Faults,           \* what may go wrong, a subset of FaultKinds
  Nobody            \* no cause of death, and no thread set the stop event

Workers    == 1..N
Deaths     == {"clean", "crash", "oom", "killed"}
FaultKinds == Deaths \cup {"none", "raise", "stop"}

\* restart_fn returns a process, so a restartable worker is one.
ASSUME SpecsAssumption ==
  /\ N \in Nat
  /\ Wired \subseteq Threads /\ Threads \subseteq Workers
  /\ Critical \subseteq Workers /\ Producers \subseteq Workers
  /\ Unstarted \subseteq Workers
  /\ Restartable \subseteq Workers \ Threads
  /\ MaxRestarts \in [Workers -> Nat]
  /\ RequireProducers \in BOOLEAN
  /\ Faults \subseteq FaultKinds
  /\ Nobody \notin Deaths /\ Nobody \notin Workers

VARIABLES
  started, alive,      \* per worker: the handle is not None; it is running
  death,               \* per worker: exit code, or the exception the thread recorded
  stop,                \* the stop event
  mpc, at,             \* the monitor: its phase, and the spec it looks at next
  reported, restarts,  \* per worker: death_reported, restarts_used
  outcome,             \* how watch ended
  stopper,             \* history: the thread that set the stop event, if one did
  before,              \* history: the OOM deaths on record at the last loop test
  late                 \* history: respawns with the stop event already set

workerVars == <<started, alive, death>>
stopVars   == <<stop, stopper>>
policyVars == <<reported, restarts>>
ghostVars  == <<before, late>>
vars == <<workerVars, stopVars, mpc, at, policyVars, outcome, ghostVars>>

Phases   == {"top", "sweep", "critical", "report", "restart", "respawn",
             "producers", "sleep", "last", "done"}
Outcomes == {"watching", "oom", "critical", "finished", "stopped", "callback"}

SetStop(who) == stop' = TRUE /\ stopper' = IF stop THEN stopper ELSE who

Init ==
  /\ started = [w \in Workers |-> w \notin Unstarted]
  /\ alive = [w \in Workers |-> w \notin Unstarted]
  /\ death = [w \in Workers |-> Nobody]
  /\ stop = FALSE /\ stopper = Nobody
  /\ mpc = "top" /\ at = 1
  /\ reported = {} /\ restarts = [w \in Workers |-> 0]
  /\ outcome = "watching"
  /\ before = {} /\ late = 0

-----------------------------------------------------------------------------
(* The workers *)

ProcessDies(w, how) ==
  /\ w \notin Threads /\ alive[w]
  /\ alive' = [alive EXCEPT ![w] = FALSE]
  /\ death' = [death EXCEPT ![w] = how]
  /\ UNCHANGED <<started, stopVars, mpc, at, policyVars, outcome, ghostVars>>

\* MonitoredThread.run: the exception is recorded ...
ThreadRaises(w, how) ==
  /\ w \in Threads /\ alive[w] /\ death[w] = Nobody /\ how \in {"crash", "oom"}
  /\ death' = [death EXCEPT ![w] = how]
  /\ UNCHANGED <<started, alive, stopVars, mpc, at, policyVars, outcome, ghostVars>>

\* ... then the stop event is set, and the thread ends.
ThreadEnds(w) ==
  /\ w \in Threads /\ alive[w] /\ death[w] # Nobody
  /\ alive' = [alive EXCEPT ![w] = FALSE]
  /\ IF w \in Wired THEN SetStop(w) ELSE UNCHANGED stopVars
  /\ UNCHANGED <<started, death, mpc, at, policyVars, outcome, ghostVars>>

ThreadReturns(w) ==
  /\ w \in Threads /\ alive[w] /\ death[w] = Nobody
  /\ alive' = [alive EXCEPT ![w] = FALSE]
  /\ death' = [death EXCEPT ![w] = "clean"]
  /\ UNCHANGED <<started, stopVars, mpc, at, policyVars, outcome, ghostVars>>

\* A signal handler, or any worker that holds the event.
StopRun ==
  /\ "stop" \in Faults /\ ~stop
  /\ SetStop(Nobody)
  /\ UNCHANGED <<workerVars, mpc, at, policyVars, outcome, ghostVars>>

-----------------------------------------------------------------------------
(* What the monitor reads *)

CanRestart(w) == w \in Restartable /\ restarts[w] < MaxRestarts[w]

\* thread_oom_reason and process_oom_reason: SIGKILL on a running node counts.
OomReason(w) ==
  started[w] /\ death[w] \in IF w \in Threads THEN {"oom"} ELSE {"oom", "killed"}

\* _death_reason: a thread with a recorded exception is dead while it still runs.
DeathReason(w) ==
  started[w] /\ (~alive[w] \/ (w \in Threads /\ death[w] \in {"crash", "oom"}))

-----------------------------------------------------------------------------
(* watch *)

Enter(phase) == mpc' = phase /\ at' = 1
Advance      == at' = at + 1 /\ UNCHANGED mpc
End(how)     == mpc' = "done" /\ outcome' = how /\ UNCHANGED at

\* Mutant: the sweep after the loop looks at nobody.
SweptNobody == {}

\* The sweep after the loop is for threads only.
SweptAtEnd == Threads

\* Mutants: the stop event is not looked at; the critical workers are judged first.
NeverLeave    == FALSE
CriticalFirst == "critical"

Leave     == stop
FirstRule == "sweep"

\* The loop test.
Top ==
  /\ mpc = "top"
  /\ Enter(IF Leave THEN "last" ELSE FirstRule)
  /\ before' = {w \in Workers : OomReason(w) /\ (stop => w \in Threads)}
  /\ UNCHANGED <<workerVars, stopVars, policyVars, outcome, late>>

\* _raise_on_oom_death, in the loop and after it.
Sweep ==
  /\ mpc \in {"sweep", "last"} /\ at \in Workers
  /\ IF OomReason(at) /\ (mpc = "last" => at \in SweptAtEnd)
       THEN SetStop(Nobody) /\ End("oom")
       ELSE Advance /\ UNCHANGED <<stopVars, outcome>>
  /\ UNCHANGED <<workerVars, policyVars, ghostVars>>

\* Mutant: a budget does not save a critical worker.
FatalAnyway(w) == w \in Critical /\ DeathReason(w)

Fatal(w) == w \in Critical /\ DeathReason(w) /\ ~CanRestart(w)

\* _any_critical_death: watch returns at once, without the sweep after the loop.
JudgeCritical ==
  /\ mpc = "critical" /\ at \in Workers
  /\ IF Fatal(at)
       THEN SetStop(Nobody) /\ End("critical")
       ELSE Advance /\ UNCHANGED <<stopVars, outcome>>
  /\ UNCHANGED <<workerVars, policyVars, ghostVars>>

\* Mutant: a worker that is about to be restarted is written off first.
WrittenOffTooEarly(w) == w \notin Critical /\ w \notin reported

WrittenOff(w) == w \notin Critical /\ w \notin reported /\ ~CanRestart(w)

\* _report_tolerated_deaths
Report ==
  /\ mpc = "report" /\ at \in Workers
  /\ reported' = IF WrittenOff(at) /\ DeathReason(at) THEN reported \cup {at} ELSE reported
  /\ Advance
  /\ UNCHANGED <<workerVars, stopVars, restarts, outcome, ghostVars>>

\* Mutant: the stop event is read once, before the first spec.
StopSeenAtFirst == stop /\ at = 1

StopSeen == stop

AfterRestarts == IF RequireProducers THEN "producers" ELSE "sleep"

\* _restart_dead_workers, the tests for one spec.
JudgeRestart ==
  /\ mpc = "restart" /\ at \in Workers
  /\ IF StopSeen THEN Enter(AfterRestarts)
     ELSE IF started[at] /\ ~alive[at] /\ CanRestart(at)
       THEN mpc' = "respawn" /\ UNCHANGED at
       ELSE Advance
  /\ UNCHANGED <<workerVars, stopVars, policyVars, outcome, ghostVars>>

Respawning ==
  /\ mpc = "respawn"
  /\ mpc' = "restart" /\ at' = at + 1
  /\ restarts' = [restarts EXCEPT ![at] = restarts[at] + 1]
  /\ late' = IF stop THEN late + 1 ELSE late
  /\ UNCHANGED <<stopVars, reported, outcome, before>>

\* ... and the call of restart_fn, which takes time, and returns a new process,
Respawn ==
  /\ Respawning
  /\ alive' = [alive EXCEPT ![at] = TRUE]
  /\ death' = [death EXCEPT ![at] = Nobody]
  /\ UNCHANGED started

\* Mutant: the handle becomes the None that restart_fn returned.
NoHandle(w) == FALSE

HandleKept(w) == started[w]

\* ... or None: the dead handle is kept,
RespawnReturnsNone ==
  /\ "none" \in Faults /\ Respawning
  /\ started' = [started EXCEPT ![at] = HandleKept(at)]
  /\ UNCHANGED <<alive, death>>

\* ... or raises, which nobody catches.
RespawnRaises ==
  /\ "raise" \in Faults /\ mpc = "respawn"
  /\ End("callback")
  /\ UNCHANGED <<workerVars, stopVars, policyVars, ghostVars>>

\* A handle of None is no producer.
StartedProducers == {w \in Producers : started[w]}

\* _producers_are_done: one that lives is enough to go on.
JudgeProducers ==
  /\ mpc = "producers" /\ at \in Workers
  /\ IF at \in StartedProducers /\ alive[at] THEN Enter("sleep") ELSE Advance
  /\ UNCHANGED <<workerVars, stopVars, policyVars, outcome, ghostVars>>

\* The last spec of a phase has been looked at.
PhaseEnds(phase) == mpc = phase /\ at = N + 1

NextPhase ==
  /\ \/ PhaseEnds("sweep") /\ Enter("critical")
     \/ PhaseEnds("critical") /\ Enter("report")
     \/ PhaseEnds("report") /\ Enter("restart")
     \/ PhaseEnds("restart") /\ Enter(AfterRestarts)
     \/ PhaseEnds("producers") /\ StartedProducers = {} /\ Enter("sleep")
  /\ UNCHANGED <<workerVars, stopVars, policyVars, outcome, ghostVars>>

\* No producer is alive: the run is complete.
Finish ==
  /\ PhaseEnds("producers") /\ StartedProducers # {}
  /\ SetStop(Nobody)
  /\ Enter("last") /\ outcome' = "finished"
  /\ UNCHANGED <<workerVars, policyVars, ghostVars>>

\* The sleep is over, or the stop event has cut it short.
Wake ==
  /\ mpc = "sleep"
  /\ Enter("top")
  /\ UNCHANGED <<workerVars, stopVars, policyVars, outcome, ghostVars>>

\* on_status_tick raises, before the sleep.
StatusRaises ==
  /\ "raise" \in Faults /\ mpc = "sleep"
  /\ End("callback")
  /\ UNCHANGED <<workerVars, stopVars, policyVars, ghostVars>>

\* The sweep after the loop has found nothing.
Return ==
  /\ PhaseEnds("last")
  /\ End(IF outcome = "finished" THEN "finished" ELSE "stopped")
  /\ UNCHANGED <<workerVars, stopVars, policyVars, ghostVars>>

MonitorStep ==
  \/ Top \/ Sweep \/ JudgeCritical \/ Report \/ JudgeRestart
  \/ Respawn \/ RespawnReturnsNone
  \/ JudgeProducers \/ NextPhase \/ Finish \/ Wake \/ Return

WorkerStep ==
  \E w \in Workers :
    \/ \E how \in Deaths \cap Faults : ProcessDies(w, how) \/ ThreadRaises(w, how)
    \/ ThreadEnds(w) \/ ThreadReturns(w)

Next == MonitorStep \/ RespawnRaises \/ StatusRaises \/ WorkerStep \/ StopRun

Spec == Init /\ [][Next]_vars

\* The monitor's thread is scheduled, and restart_fn returns.  A thread that has
\* recorded its exception ends.  No worker has to die.
Fairness == WF_vars(MonitorStep) /\ \A w \in Workers : WF_vars(ThreadEnds(w))

FairSpec == Spec /\ Fairness

-----------------------------------------------------------------------------
(* Properties *)

WorkerTypes ==
  /\ started \in [Workers -> BOOLEAN] /\ alive \in [Workers -> BOOLEAN]
  /\ death \in [Workers -> Deaths \cup {Nobody}]
  /\ \A w \in Workers : alive[w] => started[w] /\ (w \notin Threads => death[w] = Nobody)

MonitorTypes ==
  /\ mpc \in Phases /\ at \in 1..(N + 1) /\ outcome \in Outcomes
  /\ mpc = "respawn" => at \in Workers /\ started[at] /\ ~alive[at] /\ CanRestart(at)
  /\ outcome \notin {"watching", "finished"} => mpc = "done"
  /\ outcome = "finished" => mpc \in {"last", "done"}
  /\ mpc = "done" => outcome # "watching"
  /\ reported \subseteq Workers \ Critical
  /\ restarts \in [Workers -> Nat] /\ \A w \in Workers : restarts[w] <= MaxRestarts[w]

\* The variables keep to their types; a restart budget is never overdrawn; a process
\* that runs has no exit code.
TypeOK ==
  /\ WorkerTypes /\ MonitorTypes
  /\ stop \in BOOLEAN /\ stopper \in Threads \cup {Nobody}
  /\ before \subseteq Workers /\ late \in Nat

\* An out-of-memory death on record when a tick begins is never taken for anything
\* else: the tick raises, before the death can be tolerated, restarted, judged
\* critical or counted as a producer that is done.
OldOomIsRaised ==
  before # {} => mpc \in {"sweep", "last"} \/ (mpc = "done" /\ outcome = "oom")

\* A thread that ran out of memory sets the stop event itself; if it was the one that
\* stopped the run, the watch does not return as if a stop had been requested,
\* except where a rule of the same tick has already ended it.
StoppingOomIsRaised ==
  mpc = "done" /\ stopper \in Threads /\ death[stopper] = "oom" =>
    outcome \notin {"stopped", "finished"}

\* Memory exhaustion the monitor could know of ends the watch as such: what was on
\* record when the tick began, and what stopped the run.
OomIsRaised == OldOomIsRaised /\ StoppingOomIsRaised

\* However the watch ends, but for an exception of a callback, the run is stopped.
EndedMeansStopped ==
  mpc = "done" => stop \/ outcome = "callback"

\* The verdict is true when it is given and stays true: a critical worker is dead and
\* past its budget, or there were producers and all that were started are dead.
VerdictHolds ==
  /\ outcome = "critical" => \E w \in Critical : DeathReason(w) /\ ~CanRestart(w)
  /\ outcome = "finished" =>
       \E w \in Producers : started[w] /\ \A v \in StartedProducers : ~alive[v]

\* A worker that was reported as gone stays gone.
ReportedIsGone ==
  \A w \in reported : DeathReason(w) /\ ~CanRestart(w)

\* What the monitor has said of its workers, when it ended the watch or gave one up,
\* stays true while they die and are restarted.
VerdictsStand == VerdictHolds /\ ReportedIsGone

\* The stop event is read again before every respawn, so at most one is started after
\* the run was stopped: the one whose test was already passed.
OneLateRespawn == late <= 1

\* A dead critical worker is replaced or ends the watch; it is never lost from sight.
CriticalDeathEnds ==
  \A w \in Critical : DeathReason(w) ~> alive[w] \/ mpc = "done"

\* The watch ends when the run is stopped.
StopEndsWatch == stop ~> mpc = "done"

=============================================================================
