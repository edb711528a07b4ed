------------------------------- MODULE Shutdown -------------------------------
(***************************************************************************)
(* shutdown_processes: a pool of processes is stopped in three windows of  *)
(* time that all of them share.  Wait for everybody, SIGTERM the           *)
(* stragglers and wait for them, SIGKILL the survivors and wait for them,  *)
(* release the handles.                                                    *)
(*                                                                         *)
(* Time is a whole number and passes only while a join blocks; everything  *)
(* else the caller does takes no time.  A process ends at any time, or     *)
(* never: because it was told, or for a cause of its own.  Logging is left *)
(* out.                                                                    *)
(***************************************************************************)
EXTENDS Integers

CONSTANTS
  N,        \* number of processes, in the order of the list
  Grace,    \* graceful_timeout
  Term,     \* terminate_timeout
  Kill,     \* kill_timeout
  Floor     \* the least timeout of a join, 0.05 s

Procs == 1..N

ASSUME WindowsAssumption ==
  /\ N \in Nat
  /\ Grace \in Nat /\ Term \in Nat /\ Kill \in Nat
  /\ Floor \in Nat

VARIABLES
  alive,       \* per process
  signal,      \* per process: the hardest signal it was sent
  sentAt,      \* history: when it was sent; at first, when the shutdown began
  closed,      \* the handles released
  phase, at,   \* where shutdown_processes is, and the process it is at
  named,       \* the processes this phase is about: all, the stragglers, the survivors
  deadline,    \* the end of the window
  until,       \* the end of the join that blocks, -1 while none does
  now          \* time.monotonic()

procVars == <<alive, signal, sentAt>>
vars     == <<procVars, closed, phase, at, named, deadline, until, now>>

Signals == {"none", "term", "kill"}
Phases  == {"grace", "terminate", "term", "killing", "kill", "close", "done"}
Windows == {"grace", "term", "kill"}     \* the phases that join

Window(s) == CASE s = "none" -> Grace [] s = "term" -> Term [] s = "kill" -> Kill

Greater(a, b) == IF a > b THEN a ELSE b

Init ==
  /\ alive \in [Procs -> BOOLEAN]
  /\ signal = [p \in Procs |-> "none"]
  /\ sentAt = [p \in Procs |-> 0]
  /\ closed = {}
  /\ phase = "grace" /\ at = 1 /\ named = Procs
  /\ deadline = Grace /\ until = -1 /\ now = 0

-----------------------------------------------------------------------------

\* A process ends, told or not.
Dies(p) ==
  /\ alive[p]
  /\ alive' = [alive EXCEPT ![p] = FALSE]
  /\ UNCHANGED <<signal, sentAt, closed, phase, at, named, deadline, until, now>>

Enter(p, set) == phase' = p /\ at' = 1 /\ named' = set

InPhase(set) == phase \in set /\ at \in Procs

\* Mutants: a window for each process; only a poll.
OwnWindow(p)  == now + Window(signal[p])
OnlyFloor(p)  == now + Floor

\* _join_all_within: what is left of the window, but never less than the floor.
JoinUntil(p) == Greater(now + Floor, deadline)

\* A process not in the list, or dead (safe_join), costs nothing.
Skip ==
  /\ InPhase(Windows) /\ until = -1
  /\ at \notin named \/ ~alive[at]
  /\ at' = at + 1
  /\ UNCHANGED <<procVars, closed, phase, named, deadline, until, now>>

StartJoin ==
  /\ InPhase(Windows) /\ until = -1
  /\ at \in named /\ alive[at]
  /\ until' = JoinUntil(at)
  /\ UNCHANGED <<procVars, closed, phase, at, named, deadline, now>>

\* The join blocks ...
Tick ==
  /\ until # -1 /\ alive[at] /\ now < until
  /\ now' = now + 1
  /\ UNCHANGED <<procVars, closed, phase, at, named, deadline, until>>

TimedOut == now >= until

\* ... and returns: the process has ended, or the timeout is over.
JoinReturns ==
  /\ until # -1 /\ (~alive[at] \/ TimedOut)
  /\ until' = -1
  /\ at' = at + 1
  /\ UNCHANGED <<procVars, closed, phase, named, deadline, now>>

\* Mutant: only the process joined last is looked at again.
LastAlive == {p \in named : alive[p] /\ p = N}

StillAlive == {p \in named : alive[p]}

\* The grace window is over: the stragglers, or nobody.
GraceEnds ==
  /\ phase = "grace" /\ at = N + 1
  /\ IF StillAlive = {} THEN Enter("close", Procs) ELSE Enter("terminate", StillAlive)
  /\ UNCHANGED <<procVars, closed, deadline, until, now>>

\* safe_terminate and safe_kill, for one process of the list.
Send(how) ==
  /\ IF at \in named /\ alive[at]
       THEN /\ signal' = [signal EXCEPT ![at] = how]
            /\ sentAt' = [sentAt EXCEPT ![at] = now]
       ELSE UNCHANGED <<signal, sentAt>>
  /\ at' = at + 1
  /\ UNCHANGED <<alive, closed, phase, named, deadline, until, now>>

Terminate == InPhase({"terminate"}) /\ Send("term")
KillOne   == InPhase({"killing"}) /\ Send("kill")

\* Everybody has been sent the signal: the next window begins.
WindowOpens ==
  /\ at = N + 1
  /\ \/ phase = "terminate" /\ Enter("term", named) /\ deadline' = now + Term
     \/ phase = "killing" /\ Enter("kill", named) /\ deadline' = now + Kill
  /\ UNCHANGED <<procVars, closed, until, now>>

TermEnds ==
  /\ phase = "term" /\ at = N + 1
  /\ Enter("killing", StillAlive)
  /\ UNCHANGED <<procVars, closed, deadline, until, now>>

KillEnds ==
  /\ phase = "kill" /\ at = N + 1
  /\ Enter("close", Procs)
  /\ UNCHANGED <<procVars, closed, deadline, until, now>>

\* safe_close: the handle of a process that still runs cannot be released, and the
\* exception is swallowed.
Close ==
  /\ InPhase({"close"})
  /\ closed' = IF alive[at] THEN closed ELSE closed \cup {at}
  /\ at' = at + 1
  /\ UNCHANGED <<procVars, phase, named, deadline, until, now>>

Done ==
  /\ phase = "close" /\ at = N + 1
  /\ phase' = "done"
  /\ UNCHANGED <<procVars, closed, at, named, deadline, until, now>>

Step ==
  \/ Skip \/ StartJoin \/ Tick \/ JoinReturns
  \/ GraceEnds \/ Terminate \/ WindowOpens \/ TermEnds \/ KillOne \/ KillEnds
  \/ Close \/ Done

Next == Step \/ \E p \in Procs : Dies(p)

Spec == Init /\ [][Next]_vars

-----------------------------------------------------------------------------
(* Properties *)

\* The variables keep to their types.
TypeOK ==
  /\ alive \in [Procs -> BOOLEAN]
  /\ signal \in [Procs -> Signals] /\ sentAt \in [Procs -> Nat]
  /\ closed \subseteq Procs /\ named \subseteq Procs
  /\ phase \in Phases /\ at \in 1..(N + 1)
  /\ deadline \in Nat /\ until \in Nat \cup {-1} /\ now \in Nat
  /\ until # -1 => phase \in Windows /\ at \in Procs

\* The most one window can cost: the joins after its end cost the floor each.
Cost(window) == Greater(window, Floor) + N * Floor - Floor

\* The pool is down in three windows and the floors of their joins, however many
\* processes there are and whatever they do.
Bounded == N > 0 => now <= Cost(Grace) + Cost(Term) + Cost(Kill)

\* A process is only sent a harder signal when the whole window of the milder one has
\* passed since: nobody is terminated in its grace, or killed while it terminates.
NoEarlySignal ==
  [][\A p \in Procs : signal'[p] # signal[p] =>
       /\ now >= sentAt[p] + Window(signal[p])
       /\ signal'[p] = "kill" => signal[p] = "term"]_vars

\* Nobody outlives the shutdown but a process that was killed and is slow to go; and
\* every handle is released but that of a process that was.
NobodyForgotten ==
  phase = "done" =>
    \A p \in Procs : /\ alive[p] => signal[p] = "kill"
                     /\ ~alive[p] => p \in closed \/ signal[p] = "kill"

=============================================================================
