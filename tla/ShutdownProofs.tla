---------------------------- MODULE ShutdownProofs ----------------------------
(***************************************************************************)
(* The shutdown of a pool of any size, with windows of any length: what it *)
(* costs, when it signals, and that it forgets nobody; and the handlers    *)
(* that run it, for any number of signals.                                 *)
(***************************************************************************)
EXTENDS Signals, SequenceTheorems, TLAPS

-----------------------------------------------------------------------------
(* The inductive invariant *)

\* Whoever runs is on the list of the phase.
NamedInv ==
  /\ phase = "grace" => named = Procs
  /\ phase \in {"terminate", "term", "killing", "kill"} => \A p \in Procs : alive[p] => p \in named

\* Who has been sent what, and since when.
SentInv ==
  /\ phase = "grace" =>
       /\ \A p \in Procs : signal[p] = "none" /\ sentAt[p] = 0
       /\ deadline = Grace
  /\ phase = "terminate" =>
       /\ now >= Grace
       /\ \A p \in Procs : p >= at => signal[p] = "none" /\ sentAt[p] = 0
       /\ \A p \in Procs : p < at /\ alive[p] => signal[p] = "term" /\ sentAt[p] <= now
  /\ phase = "term" => \A p \in Procs : alive[p] => signal[p] = "term" /\ sentAt[p] + Term <= deadline
  /\ phase = "killing" =>
       /\ \A p \in Procs : p >= at /\ alive[p] => signal[p] = "term" /\ sentAt[p] + Term <= now
       /\ \A p \in Procs : p < at /\ alive[p] => signal[p] = "kill"
  /\ phase \in {"kill", "close", "done"} => \A p \in Procs : alive[p] => signal[p] = "kill"

\* A join lasts until the deadline at least: what was joined and still runs is late.
JoinInv ==
  /\ until # -1 => until >= deadline
  /\ phase \in Windows => \A p \in Procs : p \in named /\ p < at /\ alive[p] => now >= deadline

\* A handle that was not released belongs to a process that was killed.
CloseInv ==
  /\ phase = "close" => \A p \in Procs : p < at => p \in closed \/ signal[p] = "kill"
  /\ phase = "done" => \A p \in Procs : p \in closed \/ signal[p] = "kill"

\* The window of the phase, and the latest that the phase can begin.
Length == IF phase = "grace" THEN Grace ELSE IF phase = "term" THEN Term ELSE Kill

Base ==
  IF phase = "grace" THEN 0
  ELSE IF phase \in {"terminate", "term"} THEN Cost(Grace)
  ELSE IF phase \in {"killing", "kill"} THEN Cost(Grace) + Cost(Term)
  ELSE Cost(Grace) + Cost(Term) + Cost(Kill)

\* The first join costs the window or the floor, each later one at most the floor.
Floors(k) == k * Floor

AfterJoins(k) == Greater(Length, Floor) + Floors(k) - Floors(2)

TimeInv ==
  /\ phase \in Windows =>
       LET start == deadline - Length IN
       /\ start <= Base
       /\ until = -1 => now <= IF at = 1 THEN start ELSE start + AfterJoins(at)
       /\ until # -1 => now <= until /\ until <= start + AfterJoins(at + 1)
  /\ phase \notin Windows => now <= Base

IInv == TypeOK /\ NamedInv /\ SentInv /\ JoinInv /\ CloseInv /\ (N > 0 => TimeInv)

-----------------------------------------------------------------------------
(* Arithmetic *)

\* One more join, one more floor; and costs are whole numbers.
LEMMA Arithmetic ==
  /\ \A k \in Nat : Floors(k) \in Nat /\ Floors(k + 1) = Floors(k) + Floor
  /\ Floors(2) = Floor + Floor
  /\ \A k \in 1..(N + 1) : Floor <= Floors(k) /\ Floors(k) <= Floors(N) + Floor
  /\ \A window \in Nat : Cost(window) = Greater(window, Floor) + Floors(N) - Floor
<1> USE WindowsAssumption DEF WindowsAssumption, Floors
<1>1. \A k \in Nat : Floors(k) \in Nat /\ Floors(k + 1) = Floors(k) + Floor
  OBVIOUS
<1>2. \A window \in Nat : Cost(window) = Greater(window, Floor) + Floors(N) - Floor
  BY DEF Cost
<1>3. ASSUME NEW k \in 1..(N + 1) PROVE Floor <= Floors(k) /\ Floors(k) <= Floors(N) + Floor
  <2>1. k - 1 \in Nat /\ N - (k - 1) \in Nat
    OBVIOUS
  <2>2. (k - 1) * Floor \in Nat /\ (N - (k - 1)) * Floor \in Nat
    BY <2>1
  <2>3. k * Floor = (k - 1) * Floor + Floor
    OBVIOUS
  <2>4. N * Floor = (k - 1) * Floor + (N - (k - 1)) * Floor
    OBVIOUS
  <2> QED BY <2>2, <2>3, <2>4
<1> QED BY <1>1, <1>2, <1>3

LEMMA CostIsWhole == N > 0 => \A window \in Nat : Cost(window) \in Nat
<1> SUFFICES ASSUME N > 0, NEW window \in Nat PROVE Cost(window) \in Nat
  OBVIOUS
<1>1. N \in 1..(N + 1)
  BY WindowsAssumption DEF WindowsAssumption
<1>2. Floors(N) \in Nat /\ Floor <= Floors(N)
  BY <1>1, WindowsAssumption, Arithmetic DEF WindowsAssumption
<1>3. Cost(window) = Greater(window, Floor) + Floors(N) - Floor
  BY Arithmetic
<1> QED BY <1>2, <1>3, WindowsAssumption DEF WindowsAssumption, Greater

-----------------------------------------------------------------------------
(* Types *)

LEMMA TypeInit == Init => TypeOK
<1> SUFFICES ASSUME Init PROVE TypeOK
  OBVIOUS
<1> USE WindowsAssumption DEF WindowsAssumption, Init, TypeOK, Procs, Signals, Phases, Windows
<1>1. alive \in [Procs -> BOOLEAN]
  BY Zenon
<1> QED BY <1>1

\* At the end of a list no join is open; and a list of those who still run is a list.
LEMMA ListEnds == TypeOK => (at = N + 1 => until = -1) /\ StillAlive \subseteq Procs
<1> SUFFICES ASSUME TypeOK PROVE (at = N + 1 => until = -1) /\ StillAlive \subseteq Procs
  OBVIOUS
<1>1. ASSUME at = N + 1 PROVE until = -1
  <2>1. at \notin Procs
    BY <1>1, WindowsAssumption DEF WindowsAssumption, Procs
  <2> QED BY <2>1 DEF TypeOK
<1>2. StillAlive \subseteq Procs
  BY DEF StillAlive, TypeOK
<1> QED BY <1>1, <1>2

LEMMA TypeStep == TypeOK /\ [Next]_vars => TypeOK'
<1> SUFFICES ASSUME TypeOK, [Next]_vars PROVE TypeOK'
  OBVIOUS
<1> USE WindowsAssumption DEF WindowsAssumption, TypeOK, Procs, Signals, Phases, Windows, procVars
<1>1. ASSUME NEW p \in Procs, Dies(p) PROVE TypeOK'
  <2>1. alive' \in [Procs -> BOOLEAN]
    BY <1>1, Zenon DEF Dies
  <2> QED BY <1>1, <2>1 DEF Dies
<1>2. CASE Skip
  BY <1>2 DEF Skip, InPhase
<1>3. CASE StartJoin
  <2>1. until' \in Nat
    BY <1>3 DEF StartJoin, JoinUntil, Greater, InPhase
  <2> QED BY <1>3, <2>1 DEF StartJoin, InPhase
<1>4. CASE Tick
  BY <1>4 DEF Tick
<1>5. CASE JoinReturns
  BY <1>5 DEF JoinReturns
<1>6. CASE GraceEnds \/ TermEnds \/ KillEnds
  <2>1. until = -1 /\ StillAlive \subseteq Procs
    BY <1>6, ListEnds DEF GraceEnds, TermEnds, KillEnds
  <2>2. at' = 1 /\ phase' \in Phases /\ (named' = Procs \/ named' = StillAlive)
    BY <1>6 DEF GraceEnds, TermEnds, KillEnds, Enter
  <2>3. UNCHANGED <<alive, signal, sentAt, closed, deadline, until, now>>
    BY <1>6 DEF GraceEnds, TermEnds, KillEnds
  <2>4. at' \in 1..(N + 1)
    BY <2>2
  <2>5. named' \subseteq Procs
    BY <2>1, <2>2, Zenon
  <2> QED BY <2>1, <2>2, <2>3, <2>4, <2>5
<1>8. CASE Terminate \/ KillOne
  <2>1. until = -1 /\ at' \in 1..(N + 1)
    BY <1>8 DEF Terminate, KillOne, Send, InPhase
  <2>2. sentAt' \in [Procs -> Nat] /\ signal' \in [Procs -> Signals]
    BY <1>8 DEF Terminate, KillOne, Send
  <2> QED BY <1>8, <2>1, <2>2 DEF Terminate, KillOne, Send
<1>12. CASE WindowOpens
  <2>1. until = -1
    BY <1>12, ListEnds DEF WindowOpens
  <2>2. deadline' \in Nat /\ at' \in 1..(N + 1) /\ phase' \in Phases /\ named' = named
    BY <1>12 DEF WindowOpens, Enter
  <2>3. UNCHANGED <<alive, signal, sentAt, closed, until, now>>
    BY <1>12 DEF WindowOpens
  <2> QED BY <2>1, <2>2, <2>3
<1>9. CASE Close
  BY <1>9 DEF Close, InPhase
<1>10. CASE Done
  BY <1>10 DEF Done
<1>11. CASE UNCHANGED vars
  BY <1>11 DEF vars
<1> QED BY <1>1, <1>2, <1>3, <1>4, <1>5, <1>6, <1>8, <1>9, <1>10, <1>11, <1>12 DEF Next, Step

-----------------------------------------------------------------------------
(* Who runs, who was told what, who was released *)

LEMMA FactsInit == Init => NamedInv /\ SentInv /\ JoinInv /\ CloseInv
BY WindowsAssumption DEF WindowsAssumption, Init, NamedInv, SentInv, JoinInv, CloseInv, Windows, Procs

LEMMA FactsStep ==
  TypeOK /\ NamedInv /\ SentInv /\ JoinInv /\ CloseInv /\ [Next]_vars
    => NamedInv' /\ SentInv' /\ JoinInv' /\ CloseInv'
<1> SUFFICES ASSUME TypeOK, NamedInv, SentInv, JoinInv, CloseInv, [Next]_vars
             PROVE NamedInv' /\ SentInv' /\ JoinInv' /\ CloseInv'
  OBVIOUS
<1> USE WindowsAssumption
    DEF WindowsAssumption, TypeOK, NamedInv, SentInv, JoinInv, CloseInv, Procs, Signals, Phases, Windows,
        procVars
<1>1. ASSUME NEW p \in Procs, Dies(p) PROVE NamedInv' /\ SentInv' /\ JoinInv' /\ CloseInv'
  <2>1. ~alive'[p] /\ \A q \in Procs : alive'[q] => alive[q]
    BY <1>1 DEF Dies
  <2> QED BY <1>1, <2>1 DEF Dies
<1>2. CASE Skip
  BY <1>2 DEF Skip, InPhase
<1>3. CASE StartJoin
  BY <1>3 DEF StartJoin, JoinUntil, Greater, InPhase
<1>4. CASE Tick
  BY <1>4 DEF Tick
<1>5. CASE JoinReturns
  BY <1>5 DEF JoinReturns, TimedOut
<1>6. CASE GraceEnds
  BY <1>6 DEF GraceEnds, Enter, StillAlive
<1>7. CASE TermEnds
  BY <1>7 DEF TermEnds, Enter, StillAlive
<1>8. CASE KillEnds
  BY <1>8 DEF KillEnds, Enter
<1>9. CASE Terminate
  BY <1>9 DEF Terminate, Send, InPhase
<1>10. CASE KillOne
  BY <1>10 DEF KillOne, Send, InPhase
<1>11. CASE WindowOpens
  BY <1>11 DEF WindowOpens, Enter
<1>12. CASE Close
  BY <1>12 DEF Close, InPhase
<1>13. CASE Done
  BY <1>13 DEF Done
<1>14. CASE UNCHANGED vars
  BY <1>14 DEF vars
<1> QED BY <1>1, <1>2, <1>3, <1>4, <1>5, <1>6, <1>7, <1>8, <1>9, <1>10, <1>11, <1>12, <1>13, <1>14
        DEF Next, Step

-----------------------------------------------------------------------------
(* What it costs *)

LEMMA TimeInit == Init /\ N > 0 => TimeInv
<1> SUFFICES ASSUME Init, N > 0 PROVE TimeInv
  OBVIOUS
<1> QED BY WindowsAssumption DEF WindowsAssumption, Init, TimeInv, Windows, Length, Base

LEMMA TimeStep == N > 0 /\ TypeOK /\ TimeInv /\ [Next]_vars => TimeInv'
<1> SUFFICES ASSUME N > 0, TypeOK, TimeInv, [Next]_vars PROVE TimeInv'
  OBVIOUS
<1>a. /\ Cost(Grace) \in Nat /\ Cost(Term) \in Nat /\ Cost(Kill) \in Nat
      /\ Floors(2) = Floor + Floor /\ Floors(N) \in Nat
  BY WindowsAssumption, Arithmetic, CostIsWhole DEF WindowsAssumption
<1>b. /\ Floors(at) \in Nat /\ Floors(at + 1) = Floors(at) + Floor /\ Floors(at + 2) = Floors(at) + Floor + Floor
      /\ Floor <= Floors(at) /\ Floors(at) <= Floors(N) + Floor
  <2>1. at \in Nat /\ at + 1 \in Nat /\ at + 2 = (at + 1) + 1 /\ at \in 1..(N + 1)
    BY WindowsAssumption DEF WindowsAssumption, TypeOK
  <2> QED BY <2>1, Arithmetic
<1>c. Length \in Nat /\ Base \in Nat
  BY <1>a, WindowsAssumption DEF WindowsAssumption, TypeOK, Phases, Windows, Length, Base
<1>d. phase' = phase => Length' = Length /\ Base' = Base
  BY DEF Length, Base
<1>e. at \in Nat /\ now \in Nat /\ until \in Int /\ deadline \in Nat /\ at >= 1 /\ Floor \in Nat
  BY WindowsAssumption DEF WindowsAssumption, TypeOK
<1>1. CASE UNCHANGED <<phase, at, until, now, deadline>>
  BY <1>1, <1>d DEF TimeInv, AfterJoins
<1>2. CASE Skip \/ StartJoin \/ Tick \/ JoinReturns
  <2>1. /\ phase' = phase /\ phase \in Windows /\ deadline' = deadline
        /\ at' = at + 1 \/ at' = at
    BY <1>2 DEF Skip, StartJoin, Tick, JoinReturns, InPhase, TypeOK
  <2>2. Floors(at') \in Nat /\ Floors(at' + 1) = Floors(at') + Floor
    BY <1>b, <2>1, WindowsAssumption DEF WindowsAssumption, TypeOK
  <2> DEFINE start == deadline - Length
             most  == Greater(Length, Floor)
             Early(x, k) == x <= IF k = 1 THEN start ELSE start + (most + Floors(k) - Floor - Floor)
  <2>3. start \in Int /\ most \in Nat /\ start <= Base /\ most >= Length /\ most >= Floor /\ start + Length = deadline
    BY <1>c, <2>1, WindowsAssumption DEF WindowsAssumption, TypeOK, TimeInv, Greater
  <2>4. /\ until = -1 => Early(now, at)
        /\ until # -1 => now <= until /\ until <= start + (most + Floors(at) - Floor)
    BY <1>a, <1>b, <1>e, <2>1 DEF TimeInv, AfterJoins
  <2> HIDE DEF start, most
  <2>6. /\ until' = -1 => Early(now', at')
        /\ until' # -1 => now' <= until' /\ until' <= start + (most + Floors(at') - Floor)
    <3>1. CASE Skip
      BY <1>b, <2>2, <2>3, <2>4, <1>e, <3>1 DEF Skip
    <3>2. CASE StartJoin
      <4>1. until' = Greater(now + Floor, deadline)
        BY <3>2 DEF StartJoin, JoinUntil
      <4>2. at' = at /\ until = -1 /\ now' = now
        BY <3>2 DEF StartJoin
      <4>3. now <= start + (most + Floors(at) - Floor - Floor) \/ now <= start
        BY <2>4, <4>2
      <4>4. now + Floor <= start + (most + Floors(at) - Floor) /\ deadline <= start + (most + Floors(at) - Floor)
        BY <1>b, <1>c, <1>e, <2>3, <4>3
      <4> QED BY <1>e, <4>1, <4>2, <4>4 DEF Greater
    <3>3. CASE Tick
      BY <2>3, <2>4, <1>e, <3>3 DEF Tick
    <3>4. CASE JoinReturns
      BY <1>b, <2>2, <2>3, <2>4, <1>e, <3>4 DEF JoinReturns
    <3> QED BY <1>2, <3>1, <3>2, <3>3, <3>4
  <2>7. /\ AfterJoins(at)' = most + Floors(at') - Floors(2)
        /\ AfterJoins(at + 1)' = most + Floors(at' + 1) - Floors(2)
    BY <1>d, <2>1 DEF AfterJoins, most, Greater, Floors
  <2>8. deadline' - Length' = start /\ Base' = Base /\ phase' \in Windows
    BY <1>d, <2>1 DEF start
  <2>9. /\ until' = -1 => now' <= IF at' = 1 THEN start ELSE start + AfterJoins(at)'
        /\ until' # -1 => now' <= until' /\ until' <= start + AfterJoins(at + 1)'
    BY <1>a, <1>e, <2>2, <2>3, <2>6, <2>7
  <2> QED BY <2>3, <2>8, <2>9 DEF TimeInv
<1>3. CASE GraceEnds \/ TermEnds \/ KillEnds
  <2>1. /\ phase \in Windows /\ until = -1 /\ phase' \notin Windows /\ now' = now /\ at = N + 1
    BY <1>3, ListEnds DEF GraceEnds, TermEnds, KillEnds, Enter, Windows
  <2>2. now <= deadline - Length + (Greater(Length, Floor) + Floors(N) - Floor)
    <3>1. at # 1 /\ Greater(Length, Floor) \in Nat
      BY <1>c, <2>1, WindowsAssumption DEF WindowsAssumption, Greater
    <3>2. now <= deadline - Length + AfterJoins(at)
      BY <2>1, <3>1 DEF TimeInv
    <3> QED BY <1>a, <1>b, <1>c, <1>e, <3>1, <3>2 DEF AfterJoins
  <2>3. now <= Base + Cost(Length)
    BY <1>a, <1>c, <2>1, <2>2, Arithmetic, WindowsAssumption
       DEF WindowsAssumption, TypeOK, TimeInv, Greater
  <2>4. Base' \in Nat /\ Base' >= Base + Cost(Length)
    BY <1>3, <1>a DEF GraceEnds, TermEnds, KillEnds, Enter, Base, Length
  <2>5. now <= Base'
    BY <1>c, <1>e, <2>3, <2>4, CostIsWhole
  <2> QED BY <2>1, <2>5 DEF TimeInv
<1>4. CASE Terminate \/ KillOne \/ Close \/ Done
  <2>1. phase \notin Windows /\ phase' \notin Windows /\ now' = now /\ Base' = Base
    BY <1>4 DEF Terminate, KillOne, Close, Done, Send, InPhase, Windows, Base
  <2> QED BY <2>1 DEF TimeInv
<1>5. CASE WindowOpens
  <2>1. /\ phase \notin Windows /\ phase' \in Windows /\ now' = now /\ Base' = Base /\ at' = 1 /\ until' = until
        /\ deadline' = now + Length' /\ Length' \in Nat
    BY <1>5, WindowsAssumption DEF WindowsAssumption, WindowOpens, Enter, Windows, Base, Length
  <2>2. until = -1
    BY <1>5, ListEnds DEF WindowOpens
  <2>3. now <= Base
    BY <2>1 DEF TimeInv
  <2>4. deadline' - Length' = now
    <3>1. PICK length \in Nat : length = Length' /\ deadline' = now + length
      BY <2>1
    <3>2. (now + length) - length = now
      BY <1>e
    <3> QED BY <3>1, <3>2
  <2>5. until' = -1 /\ deadline' - Length' <= Base' /\ now' <= deadline' - Length'
    <3>1. now <= now
      BY <1>e
    <3> QED BY <2>1, <2>2, <2>3, <2>4, <3>1
  <2> QED BY <2>1, <2>5 DEF TimeInv
<1> QED BY <1>1, <1>2, <1>3, <1>4, <1>5 DEF Next, Step, Dies, vars

-----------------------------------------------------------------------------
(* The theorems *)

LEMMA Invariance == Spec => []IInv
<1>1. Init => IInv
  BY TypeInit, FactsInit, TimeInit DEF IInv
<1>2. IInv /\ [Next]_vars => IInv'
  BY TypeStep, FactsStep, TimeStep DEF IInv
<1> QED BY <1>1, <1>2, PTL DEF Spec

\* Type correctness of shutdown_processes, for a pool of any size and any windows.
THEOREM TypeCorrect == Spec => []TypeOK
<1>1. IInv => TypeOK
  BY DEF IInv
<1> QED BY Invariance, <1>1, PTL

\* The shutdown of a pool of any size costs its three windows and, for each process but
\* the first, the floor of a join in each of them (_join_all_within).
THEOREM CostIsBounded == Spec => []Bounded
<1>1. IInv => Bounded
  <2> SUFFICES ASSUME IInv, N > 0 PROVE now <= Cost(Grace) + Cost(Term) + Cost(Kill)
    BY DEF Bounded
  <2>1. /\ Cost(Grace) \in Nat /\ Cost(Term) \in Nat /\ Cost(Kill) \in Nat
        /\ Floors(2) = Floor + Floor
    BY WindowsAssumption, Arithmetic, CostIsWhole DEF WindowsAssumption
  <2>2. Base + (IF phase \in Windows THEN Cost(Length) ELSE 0) <= Cost(Grace) + Cost(Term) + Cost(Kill)
    BY <2>1 DEF IInv, TypeOK, Phases, Windows, Base, Length
  <2>3. CASE phase \notin Windows
    <3>1. Base \in Nat
      BY <2>1 DEF Base
    <3> QED BY <2>1, <2>2, <2>3, <3>1 DEF IInv, TypeOK, TimeInv
  <2>4. CASE phase \in Windows
    <3>1. Base \in Nat /\ Length \in Nat /\ Cost(Length) \in Nat
      BY <2>1, WindowsAssumption DEF WindowsAssumption, Base, Length
    <3>2. at \in 1..(N + 1) /\ now \in Nat /\ deadline \in Nat /\ (until # -1 => at \in 1..N /\ until \in Nat)
      BY DEF IInv, TypeOK, Procs
    <3>3. /\ Floors(N) \in Nat /\ Floors(at) <= Floors(N) + Floor /\ (at \in 1..N => Floors(at) <= Floors(N))
      <4>1. N \in Nat /\ Floor \in Nat /\ (at \in 1..N => at + 1 \in 1..(N + 1) /\ at \in Nat)
        BY WindowsAssumption DEF WindowsAssumption
      <4>2. Floors(N) \in Nat /\ Floors(at) <= Floors(N) + Floor
        BY <3>2, <4>1, Arithmetic
      <4>3. ASSUME at \in 1..N PROVE Floors(at) <= Floors(N)
        <5>1. Floors(at + 1) <= Floors(N) + Floor /\ Floors(at + 1) = Floors(at) + Floor /\ Floors(at) \in Nat
          BY <4>1, <4>3, Arithmetic
        <5> QED BY <4>1, <4>2, <5>1
      <4> QED BY <4>2, <4>3
    <3>4. now <= deadline - Length + (Greater(Length, Floor) + Floors(N) - Floor)
      <4> DEFINE most == Greater(Length, Floor)
      <4>1. /\ most \in Nat /\ Floor \in Nat /\ Floors(at) \in Nat /\ Floors(at + 1) = Floors(at) + Floor
            /\ Floor <= Floors(N)
        <5>1. at \in Nat /\ N \in 1..(N + 1)
          BY <3>2, WindowsAssumption DEF WindowsAssumption
        <5> QED BY <3>1, <5>1, Arithmetic, WindowsAssumption DEF WindowsAssumption, Greater
      <4>2. AfterJoins(at) = most + Floors(at) - Floor - Floor /\ AfterJoins(at + 1) = most + Floors(at) - Floor
        BY <2>1, <4>1 DEF AfterJoins
      <4>3. /\ until = -1 => now <= IF at = 1 THEN deadline - Length ELSE deadline - Length + AfterJoins(at)
            /\ until # -1 => now <= until /\ until <= deadline - Length + AfterJoins(at + 1)
        BY <2>4 DEF IInv, TimeInv
      <4> HIDE DEF most
      <4>4. now <= deadline - Length + (most + Floors(N) - Floor)
        BY <3>1, <3>2, <3>3, <4>1, <4>2, <4>3
      <4> QED BY <4>4 DEF most
    <3>5. Cost(Length) = Greater(Length, Floor) + Floors(N) - Floor
      BY <3>1, Arithmetic
    <3>6. now <= Base + Cost(Length)
      <4>1. deadline - Length <= Base
        BY <2>4 DEF IInv, TimeInv
      <4> QED BY <3>1, <3>2, <3>4, <3>5, <4>1
    <3> QED BY <2>1, <2>2, <2>4, <3>1, <3>2, <3>6
  <2> QED BY <2>3, <2>4
<1> QED BY Invariance, <1>1, PTL

\* Nobody is sent SIGTERM within its grace, nor SIGKILL within the time to terminate,
\* nor SIGKILL before SIGTERM (shutdown_processes).
THEOREM SignalsWait == Spec => NoEarlySignal
<1> DEFINE Waits ==
      \A p \in Procs : signal'[p] # signal[p] =>
        /\ now >= sentAt[p] + Window(signal[p])
        /\ signal'[p] = "kill" => signal[p] = "term"
<1>1. IInv /\ [Next]_vars => Waits
  <2> SUFFICES ASSUME IInv, [Next]_vars, NEW p \in Procs, signal'[p] # signal[p]
               PROVE /\ now >= sentAt[p] + Window(signal[p])
                     /\ signal'[p] = "kill" => signal[p] = "term"
    OBVIOUS
  <2>1. signal \in [Procs -> Signals]
    BY DEF IInv, TypeOK
  <2>2. CASE Terminate
    <3>1. p = at /\ alive[p] /\ signal'[p] = "term"
      BY <2>1, <2>2 DEF Terminate, Send, InPhase
    <3>2. phase = "terminate" /\ now >= Grace /\ signal[p] = "none" /\ sentAt[p] = 0
      BY <2>2, <3>1 DEF Terminate, InPhase, IInv, SentInv, TypeOK, Procs
    <3>3. Window(signal[p]) = Grace
      BY <3>2 DEF Window
    <3> QED
      BY <3>1, <3>2, <3>3, WindowsAssumption DEF WindowsAssumption
  <2>3. CASE KillOne
    <3>1. p = at /\ alive[p] /\ signal'[p] = "kill"
      BY <2>1, <2>3 DEF KillOne, Send, InPhase
    <3>2. phase = "killing" /\ signal[p] = "term" /\ sentAt[p] + Term <= now
      BY <2>3, <3>1 DEF KillOne, InPhase, IInv, SentInv, TypeOK, Procs
    <3>3. Window(signal[p]) = Term
      BY <3>2 DEF Window
    <3>4. sentAt[p] \in Nat /\ now \in Nat
      BY DEF IInv, TypeOK
    <3> QED
      BY <3>1, <3>2, <3>3, <3>4, WindowsAssumption DEF WindowsAssumption
  <2>4. signal' # signal
    OBVIOUS
  <2> QED BY <2>2, <2>3, <2>4
          DEF procVars, Next, Step, Dies, Skip, StartJoin, Tick, JoinReturns, GraceEnds,
              WindowOpens, TermEnds, KillEnds, Close, Done, vars
<1>2. IInv /\ [Next]_vars => [Waits]_vars
  BY <1>1
<1> QED BY Invariance, <1>2, PTL DEF Spec, NoEarlySignal

\* Whoever is left when shutdown_processes returns was killed, and every handle that
\* was not released is of such a process.
THEOREM NobodyIsForgotten == Spec => []NobodyForgotten
<1>1. IInv => NobodyForgotten
  BY DEF IInv, SentInv, CloseInv, NobodyForgotten
<1> QED BY Invariance, <1>1, PTL

-----------------------------------------------------------------------------
(* The handlers: the composition is a shutdown *)

LEMMA SignalsStep == [SignalsNext]_allVars => [Next]_vars
BY DEF SignalsNext, allVars, vars, procVars, Next, SignalArrives, HandlerStep, TestFirst,
       TestSecond, MarkCleaningUp, CleanupStep, CleanupReturns, Unwind, TellDaemons, Exits,
       CleanupRaises, CleanupHangs, WorkerEnds

\* Whatever signals arrive and whatever the cleanup does, what it does to the pool is what
\* shutdown_processes does: every theorem above holds of it.
THEOREM HandlerRunsShutdown == SignalsSpec => Spec
<1>1. SignalsInit => Init
  BY DEF SignalsInit
<1> QED BY <1>1, SignalsStep, PTL DEF SignalsSpec, Spec

-----------------------------------------------------------------------------
(* The inductive invariant of the handlers *)

\* The handlers on the stack, innermost last.
Stack == 1..Len(frames)

\* The lines at and after the call of the cleanup.
Busy == {"cleanup", "hang", "exit"}

\* Until the flag is set nobody has called the cleanup; once it is, a handler that has
\* tested it before lies below the one that called it, and will be unwound with it.
OnceInv ==
  /\ ~cleaningUp => /\ cleanups = 0 /\ ended = "no" /\ process = "running"
                    /\ \A i \in Stack : frames[i] \in {"test", "mark"}
  /\ cleaningUp => /\ cleanups = 1
                   /\ \A i \in Stack : frames[i] = "mark" =>
                        \E j \in Stack : i < j /\ frames[j] \in Busy
  /\ \A i, j \in Stack : frames[i] \in Busy /\ frames[j] \in Busy => i = j

Exiting == process \in {"leaving", "joining", "exited"} \/ \E i \in Stack : frames[i] = "exit"

\* An exit follows a cleanup that is over, and a cleanup that hangs is followed by none; and
\* whoever has joined the workers has none.
ExitInv ==
  /\ ended = "no" /\ Exiting => phase = "done"
  /\ ended = "hung" => ~Exiting /\ \A i \in Stack : frames[i] # "cleanup"
  /\ process = "exited" => \A p \in Procs : ~alive[p]

\* A handler for every frame, and for the flag; a process is forced out by the second.
CountInv ==
  /\ sent >= Len(frames)
  /\ cleaningUp => sent >= 1
  /\ cleaningUp /\ (\E i \in Stack : frames[i] = "test") => sent >= 2
  /\ process = "forced" => sent >= 2

HandlerInv == SignalsTypeOK /\ OnceInv /\ ExitInv /\ CountInv

\* What the innermost handler goes on to leaves the others where they are.
LEMMA WentOn ==
  ASSUME NEW line \in Lines, frames \in Seq(Lines), frames # <<>>, GoTo(line)
  PROVE  /\ frames' \in Seq(Lines) /\ Len(frames) \in Stack /\ Len(frames) \in Nat
         /\ Len(frames') = Len(frames)
         /\ \A i \in Stack : frames'[i] = IF i = Len(frames) THEN line ELSE frames[i]
<1>1. Len(frames) \in Nat \ {0}
  BY EmptySeq, LenProperties
<1>2. Len(frames) \in 1..Len(frames)
  BY <1>1
<1> QED BY <1>1, <1>2, ExceptSeq DEF GoTo, Stack

LEMMA NoFrame == <<>> \in Seq(Lines) /\ Len(<<>>) = 0
BY EmptySeq

LEMMA HandlerInit == SignalsInit => HandlerInv
<1> SUFFICES ASSUME SignalsInit PROVE HandlerInv
  OBVIOUS
<1>1. /\ frames \in Seq(Lines) /\ Len(frames) = 0 /\ Stack = {}
  BY NoFrame DEF SignalsInit, Stack
<1>2. SignalsTypeOK
  <2>1. cleaningUp \in BOOLEAN
    BY DEF SignalsInit
  <2>2. temper \in [Procs -> Tempers] /\ atExit \subseteq Daemons /\ stuck \in BOOLEAN
    BY Zenon DEF SignalsInit
  <2> QED BY <1>1, <2>1, <2>2, SignalsAssumption DEF SignalsAssumption, SignalsInit, SignalsTypeOK, Stack
<1>3. OnceInv /\ ExitInv /\ CountInv
  BY <1>1 DEF SignalsInit, OnceInv, ExitInv, CountInv, Exiting
<1> QED BY <1>2, <1>3 DEF HandlerInv

LEMMA SignalStep == HandlerInv /\ SignalArrives => HandlerInv'
<1> SUFFICES ASSUME HandlerInv, SignalArrives PROVE HandlerInv'
  OBVIOUS
<1> DEFINE n == Len(frames)
<1>1. /\ frames \in Seq(Lines) /\ n \in Nat /\ "test" \in Lines
  BY LenProperties DEF HandlerInv, SignalsTypeOK, Lines
<1>2. /\ frames' \in Seq(Lines) /\ Len(frames') = n + 1 /\ frames'[n + 1] = "test"
      /\ \A i \in Stack : frames'[i] = frames[i]
  BY <1>1, AppendProperties DEF SignalArrives, Stack
<1>3. \A i \in Stack' : i \in Stack \/ i = n + 1
  BY <1>1, <1>2 DEF Stack
<1>4. \A i \in Stack : i \in Stack'
  BY <1>1, <1>2 DEF Stack
<1> HIDE DEF n
<1>5. SignalsTypeOK'
  BY <1>1, <1>2, <1>3, SignalsAssumption
     DEF SignalsAssumption, HandlerInv, SignalsTypeOK, SignalArrives, Stack, exitVars
<1>6. OnceInv'
  BY <1>1, <1>2, <1>3, <1>4 DEF HandlerInv, OnceInv, SignalArrives, Busy
<1>7. ExitInv'
  BY <1>1, <1>2, <1>3, <1>4 DEF HandlerInv, ExitInv, Exiting, SignalArrives, vars, procVars
<1>8. CountInv'
  BY <1>1, <1>2, <1>3, <1>4 DEF HandlerInv, CountInv, SignalArrives, SignalsTypeOK, n
<1> QED BY <1>5, <1>6, <1>7, <1>8 DEF HandlerInv

\* A handler that goes on: to mark, to call the cleanup, and on to the exit, unless the
\* cleanup hangs.
LEMMA GoesOnStep ==
  HandlerInv /\ (TestFirst \/ MarkCleaningUp \/ CleanupReturns \/ CleanupRaises \/ CleanupHangs)
    => HandlerInv'
<1> SUFFICES ASSUME HandlerInv,
                    TestFirst \/ MarkCleaningUp \/ CleanupReturns \/ CleanupRaises \/ CleanupHangs
             PROVE  HandlerInv'
  OBVIOUS
<1> DEFINE n == Len(frames)
<1>0. /\ frames \in Seq(Lines) /\ frames # <<>>
      /\ frames[n] = IF TestFirst THEN "test" ELSE IF MarkCleaningUp THEN "mark" ELSE "cleanup"
      /\ \E line \in {"mark", "cleanup", "hang", "exit"} : GoTo(line)
  BY DEF HandlerInv, SignalsTypeOK, TestFirst, MarkCleaningUp, CleanupReturns, CleanupRaises,
         CleanupHangs, At, ThenExit
<1>1. \A line \in Lines : GoTo(line) =>
        /\ frames' \in Seq(Lines) /\ n \in Stack /\ n \in Nat /\ Len(frames') = n
        /\ \A i \in Stack : frames'[i] = IF i = n THEN line ELSE frames[i]
  BY <1>0, WentOn
<1>2. /\ frames' \in Seq(Lines) /\ n \in Stack /\ n \in Nat /\ Len(frames') = n /\ Stack' = Stack
      /\ \A i \in Stack : i # n => frames'[i] = frames[i] /\ ~(n < i)
      /\ \A i \in Stack : i # n => i < n
  BY <1>0, <1>1 DEF Lines, Stack
<1> HIDE DEF n
<1>3. CASE TestFirst
  <2>1. /\ frames'[n] = "mark" /\ ~cleaningUp /\ UNCHANGED <<cleaningUp, process, exitVars, sent, cleanups, ended>>
    BY <1>1, <1>3 DEF TestFirst, FirstOne, Lines
  <2>2. SignalsTypeOK'
    BY <1>2, <2>1 DEF HandlerInv, SignalsTypeOK, OnceInv, exitVars
  <2>3. OnceInv'
    BY <1>2, <2>1 DEF HandlerInv, OnceInv, Busy
  <2>4. ExitInv' /\ CountInv'
    BY <1>2, <2>1, <1>3 DEF HandlerInv, ExitInv, Exiting, CountInv, OnceInv, n, Stack, TestFirst, vars, procVars
  <2> QED BY <2>2, <2>3, <2>4 DEF HandlerInv
<1>4. CASE MarkCleaningUp
  <2>1. /\ frames'[n] = "cleanup" /\ frames[n] = "mark" /\ cleaningUp' = TRUE
        /\ cleanups' = cleanups + 1 /\ UNCHANGED <<alive, process, exitVars, sent, ended>>
    BY <1>1, <1>4 DEF MarkCleaningUp, Lines, At, n, vars, procVars
  <2>2. ~cleaningUp
    BY <1>2, <2>1 DEF HandlerInv, OnceInv, Busy
  <2>3. SignalsTypeOK'
    BY <1>2, <2>1, <2>2 DEF HandlerInv, SignalsTypeOK, OnceInv, exitVars
  <2>4. OnceInv'
    BY <1>2, <2>1, <2>2 DEF HandlerInv, OnceInv, Busy
  <2>5. ExitInv'
    BY <1>2, <2>1, <2>2 DEF HandlerInv, OnceInv, ExitInv, Exiting
  <2>6. CountInv'
    <3>1. sent >= n /\ n >= 1
      BY <1>2 DEF HandlerInv, CountInv, n, Stack
    <3>2. ASSUME NEW i \in Stack, frames'[i] = "test" PROVE n >= 2
      BY <1>2, <2>1, <3>2 DEF Stack
    <3> QED BY <1>2, <2>1, <2>2, <3>1, <3>2 DEF HandlerInv, SignalsTypeOK, OnceInv, CountInv
  <2> QED BY <2>3, <2>4, <2>5, <2>6 DEF HandlerInv
<1>5. CASE CleanupReturns \/ CleanupRaises \/ CleanupHangs
  <2>1. /\ frames[n] = "cleanup" /\ UNCHANGED <<alive, phase, cleaningUp, process, temper, atExit, sent, cleanups>>
        /\ stuck' = FALSE \/ stuck' = stuck
        /\ \/ frames'[n] = "exit" /\ ended' = ended /\ phase = "done"
           \/ frames'[n] = "exit" /\ ended' = "raised"
           \/ frames'[n] = "hang" /\ ended' = "hung"
    BY <1>1, <1>5 DEF CleanupReturns, CleanupRaises, CleanupHangs, ThenExit, Lines, At, n, vars, procVars, exitVars
  <2>2. cleaningUp /\ process = "running" /\ ended # "hung"
    BY <1>2, <2>1 DEF HandlerInv, OnceInv, SignalsTypeOK, ExitInv, Stack, n
  <2>3. \A i \in Stack : i # n => frames[i] \notin Busy
    BY <1>2, <2>1 DEF HandlerInv, OnceInv, Busy
  <2>4. SignalsTypeOK'
    BY <1>2, <2>1, <2>2 DEF HandlerInv, SignalsTypeOK
  <2>5. OnceInv'
    <3>1. \A i \in Stack : frames'[i] = "mark" => frames[i] = "mark"
      BY <1>2, <2>1
    <3>2. \A j \in Stack : frames[j] \in Busy => frames'[j] \in Busy
      BY <1>2, <2>1 DEF Busy
    <3>3. \A i \in Stack : frames'[i] \in Busy => i = n
      BY <1>2, <2>1, <2>3 DEF Busy
    <3> QED BY <1>2, <2>1, <2>2, <3>1, <3>2, <3>3 DEF HandlerInv, OnceInv
  <2>6. ExitInv'
    BY <1>2, <2>1, <2>2, <2>3 DEF HandlerInv, ExitInv, Exiting, Busy
  <2>7. CountInv'
    BY <1>2, <2>1, <2>2 DEF HandlerInv, CountInv, n
  <2> QED BY <2>4, <2>5, <2>6, <2>7 DEF HandlerInv
<1> QED BY <1>3, <1>4, <1>5

\* The ends of the stack: forced out, unwound; and then the exit.
LEMMA LeavesStep == HandlerInv /\ (TestSecond \/ Unwind \/ TellDaemons \/ Exits) => HandlerInv'
<1> SUFFICES ASSUME HandlerInv, TestSecond \/ Unwind \/ TellDaemons \/ Exits PROVE HandlerInv'
  OBVIOUS
<1>1. frames' = <<>> /\ frames' \in Seq(Lines) /\ Len(frames') = 0 /\ Stack' = {}
  <2>1. frames' = <<>>
    BY DEF TestSecond, ForceExit, Unwind, EveryFrame, TellDaemons, Exits
  <2>2. Len(frames') = 0 /\ frames' \in Seq(Lines)
    BY <2>1, NoFrame
  <2> QED BY <2>1, <2>2 DEF Stack
<1>2. cleaningUp
  <2>1. CASE TestSecond
    BY <2>1 DEF TestSecond, FirstOne
  <2>2. CASE Unwind
    <3>1. Len(frames) \in Stack /\ frames[Len(frames)] = "exit"
      BY <2>2, EmptySeq DEF HandlerInv, SignalsTypeOK, Unwind, At, Stack
    <3> QED BY <3>1 DEF HandlerInv, OnceInv
  <2>3. CASE TellDaemons \/ Exits
    BY <2>3 DEF TellDaemons, Exits, HandlerInv, OnceInv
  <2> QED BY <2>1, <2>2, <2>3
<1>3. /\ UNCHANGED <<alive, phase, cleaningUp, temper, stuck, sent, cleanups, ended>>
      /\ process' \in {"forced", "leaving", "joining", "exited"}
      /\ atExit' = atExit \/ atExit' = {p \in Daemons : alive[p]}
      /\ process' = "exited" => \A p \in Procs : ~alive[p]
  BY DEF TestSecond, ForceExit, Unwind, TellDaemons, Exits, vars, procVars, exitVars
<1>4. SignalsTypeOK'
  <2>1. atExit' \subseteq Daemons
    BY <1>3 DEF HandlerInv, SignalsTypeOK
  <2> QED BY <1>1, <1>3, <2>1 DEF HandlerInv, SignalsTypeOK
<1>5. OnceInv'
  BY <1>1, <1>2, <1>3 DEF HandlerInv, OnceInv
<1>6. ExitInv'
  <2>1. process' = "forced" \/ Exiting
    <3>1. CASE Unwind
      <4>1. Len(frames) \in Stack /\ frames[Len(frames)] = "exit"
        BY <3>1, EmptySeq DEF HandlerInv, SignalsTypeOK, Unwind, At, Stack
      <4> QED BY <4>1 DEF Exiting
    <3> QED BY <3>1 DEF TestSecond, ForceExit, TellDaemons, Exits, Exiting
  <2> QED BY <1>1, <1>3, <2>1 DEF HandlerInv, ExitInv, Exiting
<1>7. CountInv'
  <2>1. process' = "forced" => sent >= 2
    <3>1. CASE TestSecond
      <4>1. Len(frames) \in Stack /\ frames[Len(frames)] = "test"
        BY <3>1, EmptySeq DEF HandlerInv, SignalsTypeOK, TestSecond, At, Stack
      <4> QED BY <4>1, <1>2 DEF HandlerInv, CountInv
    <3> QED BY <3>1 DEF Unwind, TellDaemons, Exits
  <2> QED BY <1>1, <1>2, <1>3, <2>1 DEF HandlerInv, CountInv, SignalsTypeOK
<1> QED BY <1>4, <1>5, <1>6, <1>7 DEF HandlerInv

\* What happens to the pool: it does not leave the last phase.
Pool ==
  \/ CleanupStep
  \/ \E p \in Procs : WorkerEnds(p)
  \/ UNCHANGED allVars

LEMMA PoolStep == HandlerInv /\ TypeOK /\ Pool => HandlerInv'
<1> SUFFICES ASSUME HandlerInv, TypeOK, Pool PROVE HandlerInv'
  OBVIOUS
<1>1. UNCHANGED <<frames, cleaningUp, process, temper, atExit, stuck, sent, cleanups, ended>>
  BY DEF Pool, CleanupStep, WorkerEnds, signalVars, exitVars, allVars
<1>2. phase = "done" => phase' = "done"
  BY DEF Pool, CleanupStep, WorkerEnds, Step, Dies, allVars, vars, procVars, Skip, StartJoin, Tick, JoinReturns,
         GraceEnds, Terminate, WindowOpens, TermEnds, KillOne, KillEnds, Close, Done, Enter, InPhase,
         Send, TypeOK, Windows
<1>3. \A p \in Procs : alive'[p] => alive[p]
  <2>1. CASE \E p \in Procs : WorkerEnds(p)
    BY <2>1 DEF WorkerEnds, Dies, TypeOK
  <2>2. CASE CleanupStep \/ UNCHANGED allVars
    BY <2>2 DEF CleanupStep, Step, allVars, vars, procVars, Skip, StartJoin, Tick, JoinReturns,
           GraceEnds, Terminate, WindowOpens, TermEnds, KillOne, KillEnds, Close, Done, Send
  <2> QED BY <2>1, <2>2 DEF Pool
<1> QED BY <1>1, <1>2, <1>3
        DEF HandlerInv, SignalsTypeOK, OnceInv, ExitInv, Exiting, CountInv, Stack

LEMMA HandlerInvariance == SignalsSpec => [](HandlerInv /\ IInv)
<1>1. TypeOK /\ HandlerInv /\ [SignalsNext]_allVars => HandlerInv'
  <2> SUFFICES ASSUME TypeOK, HandlerInv, [SignalsNext]_allVars PROVE HandlerInv'
    OBVIOUS
  <2>1. CASE SignalArrives
    BY <2>1, SignalStep
  <2>2. CASE TestFirst \/ MarkCleaningUp \/ CleanupReturns \/ CleanupRaises \/ CleanupHangs
    BY <2>2, GoesOnStep
  <2>3. CASE TestSecond \/ Unwind \/ TellDaemons \/ Exits
    BY <2>3, LeavesStep
  <2>4. CASE Pool
    BY <2>4, PoolStep
  <2> QED BY <2>1, <2>2, <2>3, <2>4 DEF SignalsNext, HandlerStep, Pool
<1>2. IInv => TypeOK
  BY DEF IInv
<1> QED BY HandlerInit, HandlerRunsShutdown, Invariance, <1>1, <1>2, PTL DEF SignalsSpec

-----------------------------------------------------------------------------
(* The theorems about the handlers *)

\* Type correctness of the handlers, and a parent that leaves runs none that has not just
\* begun.
THEOREM HandlersTypeCorrect == SignalsSpec => []SignalsTypeOK
<1>1. HandlerInv => SignalsTypeOK
  BY DEF HandlerInv
<1> QED BY HandlerInvariance, <1>1, PTL

\* cleanup_fn is called once, for any number of signals at any instruction of the handlers
\* (register_shutdown_signals).
THEOREM CleanupRunsOnce == SignalsSpec => []CleanupOnce
<1>1. HandlerInv => CleanupOnce
  BY DEF HandlerInv, OnceInv, CleanupOnce, SignalsTypeOK
<1> QED BY HandlerInvariance, <1>1, PTL

\* A parent that leaves after a cleanup that did not raise has killed every worker that still
\* runs; and one that is gone leaves a worker that it has not killed only if a second signal
\* forced it out.
THEOREM NoOrphanIsLeft == SignalsSpec => []NoOrphans
<1>1. HandlerInv /\ IInv => NoOrphans
  <2> SUFFICES ASSUME HandlerInv, IInv PROVE NoOrphans
    OBVIOUS
  <2>1. phase = "done" => \A p \in Procs : alive[p] => signal[p] = "kill"
    BY DEF IInv, SentInv
  <2>2. process \in {"leaving", "joining", "exited"} /\ ended = "no" => phase = "done"
    BY DEF HandlerInv, ExitInv, Exiting
  <2>3. process = "exited" => \A p \in Procs : ~alive[p]
    BY DEF HandlerInv, ExitInv
  <2> QED BY <2>1, <2>2, <2>3 DEF HandlerInv, CountInv, NoOrphans, Gone
<1> QED BY HandlerInvariance, <1>1, PTL

=============================================================================
