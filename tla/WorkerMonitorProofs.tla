-------------------------- MODULE WorkerMonitorProofs -------------------------
(***************************************************************************)
(* What watch decides, for every list of specs.  The monitor reads workers *)
(* that move while it reads: the proofs first say what a worker can change *)
(* under it (WorkersMove), and then take the steps of the monitor, which   *)
(* change no worker but by a respawn.                                      *)
(***************************************************************************)
EXTENDS WorkerMonitor, TLAPS

\* A thread that has set the stop event has recorded why, and it was started.
StopInv ==
  /\ stopper \in Threads => stop /\ started[stopper] /\ death[stopper] # Nobody
  /\ mpc = "last" => stop
  /\ mpc = "done" => stop \/ outcome = "callback"

\* What was out of memory at the loop test still is, and the sweep has not passed it.
SweepInv ==
  /\ before # {} => mpc \in {"sweep", "last"} \/ (mpc = "done" /\ outcome = "oom")
  /\ mpc \in {"sweep", "last"} =>
       \A w \in before : OomReason(w) /\ at <= w /\ (mpc = "last" => w \in Threads)

\* The sweep after the loop has not passed the thread that stopped the run.
StopperInv ==
  /\ mpc = "last" /\ stopper \in Threads /\ death[stopper] = "oom" => at <= stopper
  /\ mpc = "done" /\ stopper \in Threads /\ death[stopper] = "oom" =>
       outcome \notin {"stopped", "finished"}

\* The producers the monitor has passed are dead, and nobody is respawned any more.
ProducersInv ==
  /\ mpc = "producers" => \A v \in StartedProducers : v < at => ~alive[v]
  /\ outcome = "finished" =>
       \E w \in Producers : started[w] /\ \A v \in StartedProducers : ~alive[v]

CriticalInv ==
  outcome = "critical" => \E w \in Critical : DeathReason(w) /\ ~CanRestart(w)

ReportedInv == \A w \in reported : DeathReason(w) /\ ~CanRestart(w)

\* A respawn after the stop is the last.
LateInv ==
  /\ late <= 1
  /\ late > 0 => stop /\ mpc # "respawn"

Inv ==
  /\ TypeOK /\ StopInv /\ SweepInv /\ StopperInv
  /\ ProducersInv /\ CriticalInv /\ ReportedInv /\ LateInv

-----------------------------------------------------------------------------
(* What a worker can change under the monitor *)

OnlyWorkers == WorkerStep \/ StopRun \/ UNCHANGED vars

\* Workers die and are not revived; what a thread records stays; the stop event stays
\* set, and keeps the name of who set it.
WorkersMove ==
  /\ UNCHANGED <<started, mpc, at, reported, restarts, outcome, before, late>>
  /\ alive' \in [Workers -> BOOLEAN] /\ death' \in [Workers -> Deaths \cup {Nobody}]
  /\ \A w \in Workers : alive'[w] => alive[w]
  /\ \A w \in Workers : death'[w] # death[w] => alive[w] /\ death[w] = Nobody
  /\ \A w \in Workers : alive'[w] /\ w \notin Threads => death'[w] = death[w]
  /\ stop' \in BOOLEAN /\ stopper' \in Threads \cup {Nobody}
  /\ stop => stop' /\ stopper' = stopper
  /\ stopper' # stopper /\ stopper' \in Threads =>
       stop' /\ started[stopper'] /\ death[stopper'] # Nobody

LEMMA WorkersMoved ==
  ASSUME TypeOK, StopInv, OnlyWorkers
  PROVE  WorkersMove
<1> USE SpecsAssumption DEF TypeOK, WorkerTypes, StopInv, WorkersMove, workerVars, stopVars, policyVars,
        ghostVars, SetStop
<1>1. ASSUME NEW w \in Workers, NEW how \in Deaths \cap Faults, ProcessDies(w, how)
      PROVE  WorkersMove
  BY <1>1 DEF ProcessDies
<1>2. ASSUME NEW w \in Workers, NEW how \in Deaths \cap Faults, ThreadRaises(w, how)
      PROVE  WorkersMove
  BY <1>2 DEF ThreadRaises
<1>3. ASSUME NEW w \in Workers, ThreadEnds(w)
      PROVE  WorkersMove
  BY <1>3 DEF ThreadEnds
<1>4. ASSUME NEW w \in Workers, ThreadReturns(w)
      PROVE  WorkersMove
  BY <1>4 DEF ThreadReturns, Deaths
<1>5. CASE StopRun
  BY <1>5 DEF StopRun
<1>6. CASE UNCHANGED vars
  BY <1>6 DEF vars
<1>7. QED
  BY <1>1, <1>2, <1>3, <1>4, <1>5, <1>6 DEF OnlyWorkers, WorkerStep

\* Death is for good as far as a worker's own steps go.
LEMMA DeadStayDead ==
  ASSUME TypeOK, WorkersMove, NEW w \in Workers
  PROVE  /\ OomReason(w) => OomReason(w)'
         /\ DeathReason(w) => DeathReason(w)'
         /\ CanRestart(w)' = CanRestart(w)
<1>1. OomReason(w) => OomReason(w)'
  BY SpecsAssumption DEF TypeOK, WorkerTypes, WorkersMove, OomReason, Deaths
<1>2. DeathReason(w) => DeathReason(w)'
  BY SpecsAssumption DEF TypeOK, WorkerTypes, WorkersMove, DeathReason, Deaths
<1>3. CanRestart(w)' = CanRestart(w)
  BY DEF WorkersMove, CanRestart
<1>4. QED
  BY <1>1, <1>2, <1>3

LEMMA WorkersKeepInv ==
  ASSUME Inv, OnlyWorkers
  PROVE  Inv'
<1>1. WorkersMove
  BY WorkersMoved DEF Inv
<1> USE <1>1 DEF Inv
<1>2. TypeOK'
  <2>1. WorkerTypes'
    BY DEF TypeOK, WorkerTypes, WorkersMove
  <2>2. MonitorTypes'
    BY DEF TypeOK, MonitorTypes, WorkersMove, CanRestart
  <2>3. QED
    BY <2>1, <2>2 DEF TypeOK, WorkersMove
<1>3. StopInv'
  <2>1. ASSUME stopper' \in Threads
        PROVE  stop' /\ started'[stopper'] /\ death'[stopper'] # Nobody
    <3>1. stopper' \in Workers
      BY <2>1, SpecsAssumption
    <3>2. CASE stopper' = stopper
      BY <2>1, <3>1, <3>2 DEF StopInv, WorkersMove
    <3>3. CASE stopper' # stopper
      BY <2>1, <3>1, <3>3 DEF WorkersMove
    <3>4. QED
      BY <3>2, <3>3
  <2>2. QED
    BY <2>1 DEF StopInv, WorkersMove
<1>4. SweepInv'
  <2>1. \A w \in before : OomReason(w) => OomReason(w)'
    BY DeadStayDead DEF TypeOK
  <2>2. QED
    BY <2>1 DEF SweepInv, WorkersMove
<1>5. StopperInv'
  <2>1. CASE mpc \in {"last", "done"} /\ stop
    <3>1. stopper' = stopper
      BY <2>1 DEF WorkersMove
    <3>2. stopper \in Threads => stopper \in Workers /\ death[stopper] # Nobody
      BY SpecsAssumption DEF StopInv
    <3>3. stopper \in Threads => death'[stopper] = death[stopper]
      BY <3>2 DEF WorkersMove
    <3>4. QED
      BY <3>1, <3>3 DEF StopperInv, WorkersMove
  <2>2. CASE mpc = "done" /\ outcome = "callback"
    BY <2>2 DEF StopperInv, WorkersMove
  <2>3. CASE mpc \notin {"last", "done"}
    BY <2>3 DEF StopperInv, WorkersMove
  <2>4. QED
    BY <2>1, <2>2, <2>3 DEF StopInv
<1>6. ProducersInv'
  <2>1. StartedProducers' = StartedProducers /\ StartedProducers \subseteq Workers
    BY SpecsAssumption DEF StartedProducers, WorkersMove
  <2>2. QED
    BY <2>1 DEF ProducersInv, WorkersMove
<1>7. CriticalInv'
  <2>1. Critical \subseteq Workers /\ outcome' = outcome
    BY SpecsAssumption DEF WorkersMove
  <2>2. QED
    BY <2>1, DeadStayDead DEF CriticalInv
<1>8. ReportedInv'
  <2>1. reported \subseteq Workers /\ reported' = reported
    BY DEF TypeOK, MonitorTypes, WorkersMove
  <2>2. QED
    BY <2>1, DeadStayDead DEF ReportedInv
<1>9. LateInv'
  BY DEF LateInv, WorkersMove
<1>10. QED
  BY <1>2, <1>3, <1>4, <1>5, <1>6, <1>7, <1>8, <1>9

-----------------------------------------------------------------------------
(* What the monitor changes *)

OnlyMonitor == MonitorStep \/ RespawnRaises \/ StatusRaises

LEMMA TypesMonitor ==
  ASSUME Inv, OnlyMonitor
  PROVE  TypeOK'
<1> USE SpecsAssumption DEF Inv, TypeOK, WorkerTypes, MonitorTypes, Workers, Phases, Outcomes, Enter,
        Advance, End, SetStop, CanRestart, workerVars, stopVars, policyVars, ghostVars
<1>1. CASE Top
  BY <1>1 DEF Top, FirstRule
<1>2. CASE Sweep
  <2>1. CASE End("oom") /\ SetStop(Nobody)
    BY <1>2, <2>1 DEF Sweep
  <2>2. CASE Advance /\ UNCHANGED <<stopVars, outcome>>
    <3>1. at' \in 1..(N + 1)
      BY <1>2, <2>2 DEF Sweep
    <3>2. QED
      BY <1>2, <2>2, <3>1 DEF Sweep
  <2>3. QED
    BY <1>2, <2>1, <2>2 DEF Sweep
<1>3. CASE JudgeCritical
  <2>1. CASE End("critical") /\ SetStop(Nobody)
    BY <1>3, <2>1 DEF JudgeCritical
  <2>2. CASE Advance /\ UNCHANGED <<stopVars, outcome>>
    <3>1. at' \in 1..(N + 1)
      BY <1>3, <2>2 DEF JudgeCritical
    <3>2. QED
      BY <1>3, <2>2, <3>1 DEF JudgeCritical
  <2>3. QED
    BY <1>3, <2>1, <2>2 DEF JudgeCritical
<1>4. CASE Report
  BY <1>4 DEF Report, WrittenOff
<1>5. CASE JudgeRestart
  BY <1>5 DEF JudgeRestart, AfterRestarts
<1>6. CASE Respawn
  BY <1>6 DEF Respawn, Respawning
<1>7. CASE RespawnReturnsNone
  BY <1>7 DEF RespawnReturnsNone, Respawning, HandleKept
<1>8. CASE JudgeProducers
  <2>1. at' \in 1..(N + 1)
    BY <1>8 DEF JudgeProducers
  <2>2. QED
    BY <1>8, <2>1 DEF JudgeProducers
<1>9. CASE NextPhase
  BY <1>9 DEF NextPhase, PhaseEnds, AfterRestarts
<1>10. CASE Finish
  BY <1>10 DEF Finish, PhaseEnds
<1>11. CASE Wake
  BY <1>11 DEF Wake
<1>12. CASE Return
  BY <1>12 DEF Return, PhaseEnds
<1>13. CASE RespawnRaises
  BY <1>13 DEF RespawnRaises
<1>14. CASE StatusRaises
  BY <1>14 DEF StatusRaises
<1>15. QED
  BY <1>1, <1>2, <1>3, <1>4, <1>5, <1>6, <1>7, <1>8, <1>9, <1>10, <1>11, <1>12, <1>13, <1>14
     DEF OnlyMonitor, MonitorStep

\* A step of the monitor, but for a respawn, leaves the workers alone.
LEMMA WorkersAlone ==
  ASSUME OnlyMonitor, ~Respawn, ~RespawnReturnsNone
  PROVE  UNCHANGED workerVars
  BY DEF OnlyMonitor, MonitorStep, Top, Sweep, JudgeCritical, Report, JudgeRestart,
         JudgeProducers, NextPhase, Finish, Wake, Return, RespawnRaises, StatusRaises

\* A handle is never lost, and a worker is revived only as a restartable one that was dead.
LEMMA OnlyRespawnRevives ==
  ASSUME Inv, OnlyMonitor
  PROVE  /\ started' = started
         /\ \/ UNCHANGED workerVars
            \/ /\ mpc = "respawn" /\ at \in Workers \ Threads /\ ~alive[at] /\ CanRestart(at)
               /\ \A w \in Workers \ {at} : alive'[w] = alive[w] /\ death'[w] = death[w]
               /\ mpc' = "restart" /\ ~(mpc \in {"sweep", "last", "done"})
<1> USE SpecsAssumption DEF Inv, TypeOK, WorkerTypes, MonitorTypes
<1>1. CASE Respawn
  BY <1>1 DEF Respawn, Respawning, CanRestart
<1>2. CASE RespawnReturnsNone
  BY <1>2 DEF RespawnReturnsNone, Respawning, HandleKept, CanRestart
<1>3. CASE ~Respawn /\ ~RespawnReturnsNone
  BY <1>3, WorkersAlone DEF workerVars
<1>4. QED
  BY <1>1, <1>2, <1>3

LEMMA StopMonitor ==
  ASSUME Inv, OnlyMonitor
  PROVE  StopInv'
<1>1. ASSUME stopper \in Threads
      PROVE  death'[stopper] = death[stopper] /\ started'[stopper] = started[stopper]
  BY <1>1, OnlyRespawnRevives, SpecsAssumption DEF workerVars
<1>2. \/ UNCHANGED stopVars
      \/ SetStop(Nobody)
  BY DEF OnlyMonitor, MonitorStep, Top, Sweep, JudgeCritical, Report, JudgeRestart, Respawn,
         RespawnReturnsNone, Respawning, JudgeProducers, NextPhase, Finish, Wake, Return,
         RespawnRaises, StatusRaises
<1>3. stopper' = stopper \/ stopper' = Nobody
  BY <1>2 DEF stopVars, SetStop
<1>4. stop => stop'
  BY <1>2 DEF stopVars, SetStop
<1>5. stopper' \in Threads => stop' /\ started'[stopper'] /\ death'[stopper'] # Nobody
  BY <1>1, <1>3, <1>4, SpecsAssumption DEF Inv, StopInv
<1>6. /\ mpc' = "last" => stop'
      /\ mpc' = "done" => stop' \/ outcome' = "callback"
  BY <1>4 DEF Inv, StopInv, OnlyMonitor, MonitorStep, Top, Leave, FirstRule, Sweep, JudgeCritical,
         Report, JudgeRestart, AfterRestarts, Respawn, RespawnReturnsNone, Respawning,
         JudgeProducers, NextPhase, PhaseEnds, Finish, Wake, Return, RespawnRaises, StatusRaises,
         Enter, Advance, End, SetStop, stopVars
<1>7. QED
  BY <1>5, <1>6 DEF StopInv

LEMMA SweepMonitor ==
  ASSUME Inv, OnlyMonitor
  PROVE  SweepInv'
<1> USE DEF Inv, SweepInv, Enter, Advance, End, ghostVars
<1>1. CASE Top
  <2>1. UNCHANGED workerVars /\ at' = 1 /\ mpc' = IF stop THEN "last" ELSE "sweep"
    BY <1>1 DEF Top, Leave, FirstRule
  <2>2. before' = {w \in Workers : OomReason(w) /\ (stop => w \in Threads)}
    BY <1>1 DEF Top
  <2>3. \A w \in Workers : OomReason(w)' = OomReason(w) /\ 1 <= w
    BY <2>1, SpecsAssumption DEF workerVars, OomReason, Workers
  <2>4. QED
    BY <2>1, <2>2, <2>3
<1>2. CASE Sweep
  <2>1. UNCHANGED <<workerVars, before>> /\ mpc \in {"sweep", "last"} /\ at \in Workers
    BY <1>2 DEF Sweep
  <2>2. CASE OomReason(at) /\ (mpc = "last" => at \in SweptAtEnd)
    BY <1>2, <2>1, <2>2 DEF Sweep
  <2>3. CASE ~(OomReason(at) /\ (mpc = "last" => at \in SweptAtEnd))
    <3>1. at' = at + 1 /\ mpc' = mpc
      BY <1>2, <2>3 DEF Sweep
    <3>2. at \notin before
      BY <2>1, <2>3 DEF SweptAtEnd
    <3>3. before \subseteq Workers
      BY DEF TypeOK
    <3>4. \A w \in before : at <= w => at + 1 <= w
      BY <2>1, <3>2, <3>3, SpecsAssumption DEF Workers
    <3>5. \A w \in before : OomReason(w)' = OomReason(w)
      BY <2>1 DEF workerVars, OomReason
    <3>6. QED
      BY <2>1, <3>1, <3>4, <3>5
  <2>4. QED
    BY <2>2, <2>3
<1>3. CASE mpc \in {"sweep", "last"} /\ at = N + 1 /\ before' = before
  <2>1. before = {}
    BY <1>3, SpecsAssumption DEF TypeOK, Workers
  <2>2. QED
    BY <1>3, <2>1
<1>4. CASE mpc \notin {"sweep", "last", "done"} /\ before' = before
  BY <1>4
<1>5. Top \/ Sweep \/ ((mpc \in {"sweep", "last"} => at = N + 1) /\ mpc # "done" /\ before' = before)
  BY DEF OnlyMonitor, MonitorStep, JudgeCritical, Report, JudgeRestart, Respawn,
         RespawnReturnsNone, Respawning, JudgeProducers, NextPhase, PhaseEnds, Finish, Wake, Return,
         RespawnRaises, StatusRaises
<1>6. QED
  BY <1>1, <1>2, <1>3, <1>4, <1>5

LEMMA StopperMonitor ==
  ASSUME Inv, OnlyMonitor
  PROVE  StopperInv'
<1> DEFINE Oom == stopper \in Threads /\ death[stopper] = "oom"
<1> USE DEF Inv, StopperInv, Enter, Advance, End, SetStop, stopVars, workerVars
<1>1. CASE Top
  <2>1. UNCHANGED workerVars /\ stopper' = stopper /\ at' = 1 /\ mpc' # "done"
    BY <1>1 DEF Top, FirstRule, Leave
  <2>2. stopper \in Threads => 1 <= stopper
    BY SpecsAssumption DEF Workers
  <2>3. QED
    BY <2>1, <2>2
<1>2. CASE Sweep
  <2>1. UNCHANGED workerVars /\ mpc \in {"sweep", "last"} /\ at \in Workers
    BY <1>2 DEF Sweep
  <2>2. CASE OomReason(at) /\ (mpc = "last" => at \in SweptAtEnd)
    BY <1>2, <2>1, <2>2 DEF Sweep
  <2>3. CASE ~(OomReason(at) /\ (mpc = "last" => at \in SweptAtEnd))
    <3>1. at' = at + 1 /\ mpc' = mpc /\ stopper' = stopper
      BY <1>2, <2>3 DEF Sweep
    <3>2. mpc = "last" /\ Oom => OomReason(stopper) /\ stopper # at
      BY <2>3 DEF SweptAtEnd, OomReason, StopInv
    <3>3. mpc = "last" /\ Oom => at + 1 <= stopper
      BY <2>1, <3>2, SpecsAssumption DEF Workers
    <3>4. QED
      BY <2>1, <3>1, <3>3
  <2>4. QED
    BY <2>2, <2>3
<1>3. CASE Return
  <2>1. UNCHANGED workerVars /\ stopper' = stopper /\ mpc = "last" /\ at = N + 1 /\ mpc' = "done"
    BY <1>3 DEF Return, PhaseEnds
  <2>2. ~Oom
    <3>1. Oom => stopper \in 1..N /\ at <= stopper
      BY <2>1, SpecsAssumption DEF Workers
    <3>2. \A w \in 1..N : ~(N + 1 <= w)
      BY SpecsAssumption
    <3>3. QED
      BY <2>1, <3>1, <3>2
  <2>3. QED
    BY <2>1, <2>2
<1>4. CASE Finish
  <2>1. UNCHANGED workerVars /\ at' = 1 /\ mpc' = "last"
    BY <1>4 DEF Finish
  <2>2. stopper' \in Threads => 1 <= stopper'
    BY SpecsAssumption DEF Workers
  <2>3. QED
    BY <2>1, <2>2
<1>5. CASE mpc' # "last" /\ (mpc' = "done" => outcome' \in {"critical", "callback"})
  BY <1>5
<1>6. Top \/ Sweep \/ Return \/ Finish \/
      (mpc' # "last" /\ (mpc' = "done" => outcome' \in {"critical", "callback"}))
  BY DEF OnlyMonitor, MonitorStep, JudgeCritical, Report, JudgeRestart, AfterRestarts, Respawn,
         RespawnReturnsNone, Respawning, JudgeProducers, NextPhase, PhaseEnds, Wake,
         RespawnRaises, StatusRaises
<1>7. QED
  BY <1>1, <1>2, <1>3, <1>4, <1>5, <1>6

LEMMA ProducersMonitor ==
  ASSUME Inv, OnlyMonitor
  PROVE  ProducersInv'
<1>1. StartedProducers' = StartedProducers /\ StartedProducers \subseteq Workers
  BY OnlyRespawnRevives, SpecsAssumption DEF StartedProducers
<1> USE DEF Inv, ProducersInv, Enter, Advance, End
<1>2. CASE JudgeProducers
  <2>1. UNCHANGED workerVars /\ outcome' = outcome /\ mpc = "producers" /\ at \in Workers
    BY <1>2 DEF JudgeProducers
  <2>2. CASE at \in StartedProducers /\ alive[at]
    BY <1>1, <1>2, <2>1, <2>2 DEF JudgeProducers, workerVars
  <2>3. CASE ~(at \in StartedProducers /\ alive[at])
    <3>1. at' = at + 1
      BY <1>2, <2>3 DEF JudgeProducers
    <3>2. \A v \in StartedProducers : v < at + 1 => v < at \/ v = at
      BY <1>1, <2>1, SpecsAssumption DEF Workers
    <3>3. QED
      BY <1>1, <2>1, <2>3, <3>1, <3>2 DEF workerVars
  <2>4. QED
    BY <2>2, <2>3
<1>3. CASE Finish
  <2>1. UNCHANGED workerVars /\ mpc = "producers" /\ at = N + 1 /\ mpc' = "last"
    BY <1>3 DEF Finish, PhaseEnds
  <2>2. \A v \in StartedProducers : ~alive[v]
    BY <1>1, <2>1, SpecsAssumption DEF Workers
  <2>3. PICK w \in StartedProducers : TRUE
    BY <1>3 DEF Finish
  <2>4. w \in Producers /\ started[w]
    BY <2>3 DEF StartedProducers
  <2>5. QED
    BY <1>1, <2>1, <2>2, <2>4 DEF workerVars
<1>4. CASE mpc' = "producers" /\ at' = 1 /\ outcome' = outcome /\ outcome # "finished"
  <2>1. \A v \in StartedProducers : ~(v < 1)
    BY <1>1, SpecsAssumption DEF Workers
  <2>2. QED
    BY <1>1, <1>4, <2>1
<1>5. CASE mpc' # "producers" /\ outcome' # "finished"
  BY <1>5
<1>6. CASE mpc \in {"last", "done"} /\ mpc' # "producers" /\ UNCHANGED workerVars /\
           (outcome' = "finished" => outcome = "finished")
  BY <1>1, <1>6 DEF workerVars
<1>7. outcome = "finished" => mpc \in {"last", "done"}
  BY DEF TypeOK, MonitorTypes
<1>8. \/ JudgeProducers \/ Finish
      \/ mpc' = "producers" /\ at' = 1 /\ outcome' = outcome /\ outcome # "finished"
      \/ mpc' # "producers" /\ outcome' # "finished"
      \/ mpc \in {"last", "done"} /\ mpc' # "producers" /\ UNCHANGED workerVars /\
           (outcome' = "finished" => outcome = "finished")
  BY <1>7 DEF OnlyMonitor, MonitorStep, Top, FirstRule, Sweep, JudgeCritical, Report, JudgeRestart,
         AfterRestarts, Respawn, RespawnReturnsNone, Respawning, NextPhase, PhaseEnds, Wake, Return,
         RespawnRaises, StatusRaises
<1>9. QED
  BY <1>2, <1>3, <1>4, <1>5, <1>6, <1>8

\* What the monitor has judged dead and past its budget is not respawned.
LEMMA JudgedStays ==
  ASSUME Inv, OnlyMonitor, NEW w \in Workers, DeathReason(w), ~CanRestart(w)
  PROVE  DeathReason(w)' /\ ~CanRestart(w)'
<1>1. \/ restarts' = restarts
      \/ mpc = "respawn" /\ restarts' = [restarts EXCEPT ![at] = restarts[at] + 1]
  BY DEF OnlyMonitor, MonitorStep, Top, Sweep, JudgeCritical, Report, JudgeRestart, policyVars,
         Respawn, RespawnReturnsNone, Respawning, JudgeProducers, NextPhase, Finish, Wake, Return,
         RespawnRaises, StatusRaises
<1>2. mpc = "respawn" => CanRestart(at) /\ at \in Workers
  BY DEF Inv, TypeOK, MonitorTypes
<1>3. ~CanRestart(w)'
  <2>1. restarts'[w] = restarts[w]
    BY <1>1, <1>2 DEF Inv, TypeOK, MonitorTypes
  <2>2. QED
    BY <2>1 DEF CanRestart
<1>4. DeathReason(w)'
  BY OnlyRespawnRevives DEF DeathReason, workerVars
<1>5. QED
  BY <1>3, <1>4

LEMMA VerdictsMonitor ==
  ASSUME Inv, OnlyMonitor
  PROVE  CriticalInv' /\ ReportedInv' /\ LateInv'
<1>1. CriticalInv'
  <2>1. ASSUME outcome' = "critical"
        PROVE  \E w \in Critical : DeathReason(w) /\ ~CanRestart(w)
    <3>1. outcome = "critical" \/ (JudgeCritical /\ Fatal(at))
      BY <2>1 DEF OnlyMonitor, MonitorStep, Top, Sweep, JudgeCritical, Report, JudgeRestart, End,
         Respawn, RespawnReturnsNone, Respawning, JudgeProducers, NextPhase, Finish, Wake, Return,
         RespawnRaises, StatusRaises
    <3>2. QED
      BY <3>1 DEF Fatal, Inv, CriticalInv
  <2>2. Critical \subseteq Workers
    BY SpecsAssumption
  <2>3. QED
    BY <2>1, <2>2, JudgedStays DEF CriticalInv
<1>2. ReportedInv'
  <2>1. \/ reported' = reported
        \/ /\ reported' = reported \cup {at} /\ at \in Workers
           /\ DeathReason(at) /\ ~CanRestart(at)
    BY DEF OnlyMonitor, MonitorStep, Top, Sweep, JudgeCritical, Report, WrittenOff, JudgeRestart,
         Respawn, RespawnReturnsNone, Respawning, JudgeProducers, NextPhase, Finish, Wake, Return,
         RespawnRaises, StatusRaises, policyVars
  <2>2. reported \subseteq Workers
    BY DEF Inv, TypeOK, MonitorTypes
  <2>3. QED
    BY <2>1, <2>2, JudgedStays DEF Inv, ReportedInv
<1>3. LateInv'
  <2> USE DEF Inv, LateInv, TypeOK
  <2>1. CASE mpc = "respawn" /\ late' = IF stop THEN late + 1 ELSE late
    <3>1. late = 0 /\ mpc' # "respawn" /\ stop' = stop
      BY <2>1 DEF OnlyMonitor, MonitorStep, Top, Sweep, JudgeCritical, Report, JudgeRestart,
         Respawn, RespawnReturnsNone, Respawning, JudgeProducers, NextPhase, PhaseEnds, Finish,
         Wake, Return, RespawnRaises, StatusRaises, End, stopVars
    <3>2. QED
      BY <2>1, <3>1
  <2>2. CASE late' = late /\ (stop => stop' /\ mpc' # "respawn")
    BY <2>2
  <2>3. \/ mpc = "respawn" /\ late' = IF stop THEN late + 1 ELSE late
        \/ late' = late /\ (stop => stop' /\ mpc' # "respawn")
    BY DEF OnlyMonitor, MonitorStep, Top, FirstRule, Sweep, JudgeCritical, Report, JudgeRestart,
         AfterRestarts, StopSeen, Respawn, RespawnReturnsNone, Respawning, JudgeProducers,
         NextPhase, PhaseEnds, Finish, Wake, Return, RespawnRaises, StatusRaises, Enter, Advance,
         End, SetStop, stopVars, ghostVars
  <2>4. QED
    BY <2>1, <2>2, <2>3
<1>4. QED
  BY <1>1, <1>2, <1>3

-----------------------------------------------------------------------------
(* The invariant *)

LEMMA InitInv == Init => Inv
<1> SUFFICES ASSUME Init PROVE Inv
  OBVIOUS
<1>1. TypeOK
  <2>1. WorkerTypes
    BY SpecsAssumption DEF Init, WorkerTypes, Workers
  <2>2. MonitorTypes
    BY SpecsAssumption DEF Init, MonitorTypes, Phases, Outcomes, Workers
  <2>3. QED
    BY <2>1, <2>2 DEF Init, TypeOK
<1>2. StopInv /\ SweepInv /\ StopperInv /\ ProducersInv /\ CriticalInv /\ ReportedInv /\ LateInv
  BY SpecsAssumption DEF Init, StopInv, SweepInv, StopperInv, ProducersInv, CriticalInv,
         ReportedInv, LateInv
<1>3. QED
  BY <1>1, <1>2 DEF Inv

LEMMA Invariance == Spec => []Inv
<1>1. Inv /\ [Next]_vars => Inv'
  <2> SUFFICES ASSUME Inv, [Next]_vars PROVE Inv'
    OBVIOUS
  <2>1. CASE OnlyWorkers
    BY <2>1, WorkersKeepInv
  <2>2. CASE OnlyMonitor
    BY <2>2, TypesMonitor, StopMonitor, SweepMonitor, StopperMonitor, ProducersMonitor,
       VerdictsMonitor DEF Inv
  <2>3. QED
    BY <2>1, <2>2 DEF Next, OnlyWorkers, OnlyMonitor
<1>2. QED
  BY InitInv, <1>1, PTL DEF Spec

-----------------------------------------------------------------------------
(* The results *)

\* The variables keep to their types, and no restart budget is overdrawn.
THEOREM TypeCorrect == Spec => []TypeOK
  BY Invariance, PTL DEF Inv

\* An out-of-memory death that is on record when a tick begins makes the tick raise,
\* however many workers there are and wherever in the list it is.
THEOREM OldOomRaises == Spec => []OldOomIsRaised
<1>1. Inv => OldOomIsRaised
  BY DEF Inv, SweepInv, OldOomIsRaised
<1>2. QED
  BY Invariance, <1>1, PTL

\* A thread that ran out of memory and stopped the run is not lost by the sweep after
\* the loop.
THEOREM StoppingOomRaises == Spec => []StoppingOomIsRaised
<1>1. Inv => StoppingOomIsRaised
  BY DEF Inv, StopperInv, StoppingOomIsRaised
<1>2. QED
  BY Invariance, <1>1, PTL

\* Memory exhaustion the monitor could know of ends the watch as such, for any workers.
THEOREM OomRaises == Spec => []OomIsRaised
<1>1. OldOomIsRaised /\ StoppingOomIsRaised <=> OomIsRaised
  BY DEF OomIsRaised
<1>2. QED
  BY OldOomRaises, StoppingOomRaises, <1>1, PTL

\* A watch that has returned has stopped the run.
THEOREM EndStops == Spec => []EndedMeansStopped
<1>1. Inv => EndedMeansStopped
  BY DEF Inv, StopInv, EndedMeansStopped
<1>2. QED
  BY Invariance, <1>1, PTL

\* The verdict of a watch is true when it is given, and stays true.
THEOREM VerdictIsTrue == Spec => []VerdictHolds
<1>1. Inv => VerdictHolds
  BY DEF Inv, CriticalInv, ProducersInv, VerdictHolds
<1>2. QED
  BY Invariance, <1>1, PTL

\* A worker that was written off is not restarted.
THEOREM WrittenOffForGood == Spec => []ReportedIsGone
<1>1. Inv => ReportedIsGone
  BY DEF Inv, ReportedInv, ReportedIsGone
<1>2. QED
  BY Invariance, <1>1, PTL

\* What the monitor has said of its workers stays true, for any workers and budgets.
THEOREM VerdictsAreFinal == Spec => []VerdictsStand
<1>1. VerdictHolds /\ ReportedIsGone <=> VerdictsStand
  BY DEF VerdictsStand
<1>2. QED
  BY VerdictIsTrue, WrittenOffForGood, <1>1, PTL

\* At most one respawn follows the stop, however many workers are dead.
THEOREM OneRespawnAfterStop == Spec => []OneLateRespawn
<1>1. Inv => OneLateRespawn
  BY DEF Inv, LateInv, OneLateRespawn
<1>2. QED
  BY Invariance, <1>1, PTL

=============================================================================
