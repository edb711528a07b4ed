----------------------------- MODULE SpawningProofs -----------------------------
(***************************************************************************)
(* The environment comes back, and workers get what they were to get, for  *)
(* any number of threads and variables; streams are apart for any seed and *)
(* any offsets.                                                            *)
(*                                                                         *)
(* The program of a thread is known by what it does and in which order:    *)
(* each operation has a rank, and the program has each operation once, by  *)
(* rank.  Then what a thread is inside of is what it has saved and not yet *)
(* restored; and as long as no two are inside of one variable, the thread  *)
(* that is has the user's value in hand, and nobody else touches it.       *)
(***************************************************************************)
EXTENDS Spawning, SequenceTheorems, TLAPS

Op == [op : {"save", "mask", "start", "restore"}, var : Vars]

Do(name, v) == [op |-> name, var |-> v]

\* The place of an operation in a program.
Rank(o) ==
  IF o.op = "start" THEN 5
  ELSE IF o.var = Cuda
    THEN IF o.op = "save" THEN 1 ELSE IF o.op = "mask" THEN 2 ELSE 7
    ELSE IF o.op = "save" THEN 3 ELSE IF o.op = "mask" THEN 4 ELSE 6

\* A piece of a program: operations of these ranks, in order, each once.
Tidy(s, low, high) ==
  /\ s \in Seq(Op)
  /\ \A i \in 1..Len(s) : Rank(s[i]) \in low..high
  /\ \A i, j \in 1..Len(s) : i < j => Rank(s[i]) <= Rank(s[j])
  /\ \A i, j \in 1..Len(s) : s[i] = s[j] => i = j

Has(s, o) == \E i \in 1..Len(s) : s[i] = o

\* The variables a worker is started without.
Own(want) == (IF want.hide THEN {Cuda} ELSE {}) \cup (IF want.pin THEN Range(BlasVars) ELSE {})

-----------------------------------------------------------------------------
(* The program *)

LEMMA RankType == \A o \in Op : Rank(o) \in 1..7
  BY DEF Rank

LEMMA Ranks ==
  ASSUME NEW v
  PROVE  /\ Rank(Do("save", v)) \in {1, 3} /\ Rank(Do("mask", v)) = Rank(Do("save", v)) + 1
         /\ Rank(Do("start", v)) = 5 /\ Rank(Do("restore", v)) \in {6, 7}
  BY DEF Rank, Do

LEMMA DoEqual == \A n, v, m, w : Do(n, v) = Do(m, w) <=> n = m /\ v = w
  BY DEF Do

\* Pieces one after the other.
LEMMA Joined ==
  ASSUME NEW a \in Int, NEW b \in Int, NEW c \in Int, NEW d \in Int, a <= b, b < c, c <= d,
         NEW s, Tidy(s, a, b), NEW t, Tidy(t, c, d)
  PROVE  /\ Tidy(s \o t, a, d)
         /\ \A o : Has(s \o t, o) <=> Has(s, o) \/ Has(t, o)
<1>1. s \in Seq(Op) /\ t \in Seq(Op)
  BY DEF Tidy
<1> DEFINE u == s \o t
           m == Len(s)
           n == Len(t)
<1>2. /\ u \in Seq(Op) /\ Len(u) = m + n /\ m \in Nat /\ n \in Nat
      /\ \A i \in 1..(m + n) : u[i] = IF i <= m THEN s[i] ELSE t[i - m]
  BY <1>1, ConcatProperties, LenProperties
<1> HIDE DEF u, m, n
<1>3. \A i \in 1..(m + n) : i <= m => i \in 1..m /\ u[i] = s[i]
  BY <1>2
<1>4. \A i \in 1..(m + n) : ~(i <= m) => i - m \in 1..n /\ u[i] = t[i - m]
  BY <1>2
<1>5. \A i \in 1..m : Rank(s[i]) \in a..b
  BY DEF Tidy, m
<1>6. \A i \in 1..n : Rank(t[i]) \in c..d
  BY DEF Tidy, n
<1>7. \A i \in 1..(m + n) : Rank(u[i]) \in a..d
  <2> SUFFICES ASSUME NEW i \in 1..(m + n) PROVE Rank(u[i]) \in a..d
    OBVIOUS
  <2>1. CASE i <= m
    BY <2>1, <1>3, <1>5
  <2>2. CASE ~(i <= m)
    BY <2>2, <1>4, <1>6
  <2> QED
    BY <2>1, <2>2
<1>8. \A i, j \in 1..(m + n) : i < j => Rank(u[i]) <= Rank(u[j])
  <2> SUFFICES ASSUME NEW i \in 1..(m + n), NEW j \in 1..(m + n), i < j
               PROVE  Rank(u[i]) <= Rank(u[j])
    OBVIOUS
  <2>1. CASE j <= m
    <3>1. i \in 1..m /\ j \in 1..m /\ u[i] = s[i] /\ u[j] = s[j]
      BY <2>1, <1>2, <1>3
    <3> QED
      BY <3>1 DEF Tidy, m
  <2>2. CASE ~(i <= m)
    <3>1. i - m \in 1..n /\ j - m \in 1..n /\ u[i] = t[i - m] /\ u[j] = t[j - m] /\ i - m < j - m
      BY <2>2, <1>2, <1>4
    <3> QED
      BY <3>1 DEF Tidy, n
  <2>3. CASE i <= m /\ ~(j <= m)
    <3>1. Rank(u[i]) \in a..b /\ Rank(u[j]) \in c..d
      BY <2>3, <1>3, <1>4, <1>5, <1>6
    <3> QED
      BY <3>1
  <2> QED
    BY <2>1, <2>2, <2>3, <1>2
<1>9. \A i, j \in 1..(m + n) : u[i] = u[j] => i = j
  <2> SUFFICES ASSUME NEW i \in 1..(m + n), NEW j \in 1..(m + n), u[i] = u[j]
               PROVE  i = j
    OBVIOUS
  <2>1. CASE i <= m /\ j <= m
    <3>1. i \in 1..m /\ j \in 1..m /\ s[i] = s[j]
      BY <2>1, <1>3
    <3> QED
      BY <3>1 DEF Tidy, m
  <2>2. CASE ~(i <= m) /\ ~(j <= m)
    <3>1. i - m \in 1..n /\ j - m \in 1..n /\ t[i - m] = t[j - m]
      BY <2>2, <1>4
    <3>2. i - m = j - m
      BY <3>1 DEF Tidy, n
    <3> QED
      BY <3>2, <1>2
  <2>3. CASE (i <= m) # (j <= m)
    <3>1. \/ Rank(u[i]) \in a..b /\ Rank(u[j]) \in c..d
          \/ Rank(u[j]) \in a..b /\ Rank(u[i]) \in c..d
      BY <2>3, <1>3, <1>4, <1>5, <1>6
    <3> QED
      BY <3>1
  <2> QED
    BY <2>1, <2>2, <2>3
<1>10. \A o : Has(u, o) <=> Has(s, o) \/ Has(t, o)
  <2>1. ASSUME NEW o, Has(s, o) PROVE Has(u, o)
    <3>1. PICK i \in 1..m : s[i] = o
      BY <2>1 DEF Has, m
    <3>2. i \in 1..(m + n) /\ u[i] = o
      BY <3>1, <1>2
    <3> QED
      BY <3>2, <1>2 DEF Has
  <2>2. ASSUME NEW o, Has(t, o) PROVE Has(u, o)
    <3>1. PICK i \in 1..n : t[i] = o
      BY <2>2 DEF Has, n
    <3>2. i + m \in 1..(m + n) /\ ~(i + m <= m) /\ (i + m) - m = i
      BY <3>1, <1>2
    <3>3. u[i + m] = o
      BY <3>1, <3>2, <1>4
    <3> QED
      BY <3>2, <3>3, <1>2 DEF Has
  <2>3. ASSUME NEW o, Has(u, o) PROVE Has(s, o) \/ Has(t, o)
    <3>1. PICK i \in 1..(m + n) : u[i] = o
      BY <2>3, <1>2 DEF Has
    <3> QED
      BY <3>1, <1>3, <1>4 DEF Has, m, n
  <2> QED
    BY <2>1, <2>2, <2>3
<1>11. Tidy(u, a, d)
  BY <1>2, <1>7, <1>8, <1>9 DEF Tidy
<1> QED
  BY <1>10, <1>11 DEF u

\* The operations of one kind on some variables.
LEMMA Piece ==
  ASSUME NEW name \in {"save", "mask", "start", "restore"},
         NEW names \in Seq(Vars), IsInjective(names),
         NEW r \in Int, \A v \in Range(names) : Rank(Do(name, v)) = r
  PROVE  /\ Tidy(Ops(name, names), r, r)
         /\ \A n, v : Has(Ops(name, names), Do(n, v)) <=> n = name /\ v \in Range(names)
<1> DEFINE s == Ops(name, names)
<1>1. /\ Len(names) \in Nat /\ DOMAIN names = 1..Len(names)
      /\ \A i \in 1..Len(names) : names[i] \in Vars
  BY LenProperties, ElementOfSeq
<1>2. s = [i \in 1..Len(names) |-> Do(name, names[i])]
  BY <1>1 DEF Ops, Do
<1>3. s \in Seq(Op) /\ Len(s) = Len(names)
  <2>1. \A i \in 1..Len(names) : Do(name, names[i]) \in Op
    BY <1>1 DEF Do, Op
  <2> QED
    BY <1>1, <1>2, <2>1
<1>4. \A i \in 1..Len(s) : s[i] = Do(name, names[i]) /\ names[i] \in Range(names)
  BY <1>1, <1>2, <1>3 DEF Range
<1>5. \A i, j \in 1..Len(s) : s[i] = s[j] => i = j
  <2> SUFFICES ASSUME NEW i \in 1..Len(s), NEW j \in 1..Len(s), s[i] = s[j] PROVE i = j
    OBVIOUS
  <2>1. names[i] = names[j]
    BY <1>4, DoEqual
  <2> QED
    BY <2>1, <1>1, <1>3 DEF IsInjective
<1>6. \A n, v : Has(s, Do(n, v)) <=> n = name /\ v \in Range(names)
  <2> SUFFICES ASSUME NEW n, NEW v PROVE Has(s, Do(n, v)) <=> n = name /\ v \in Range(names)
    OBVIOUS
  <2>1. v \in Range(names) <=> \E i \in 1..Len(s) : names[i] = v
    BY <1>1, <1>3 DEF Range
  <2>2. \A i \in 1..Len(s) : s[i] = Do(n, v) <=> n = name /\ names[i] = v
    BY <1>4, DoEqual
  <2> HIDE DEF s
  <2> QED
    BY <2>1, <2>2 DEF Has
<1>7. \A i \in 1..Len(s) : Rank(s[i]) = r
  BY <1>4
<1> HIDE DEF s
<1>8. Tidy(s, r, r)
  BY <1>3, <1>5, <1>7 DEF Tidy
<1> QED
  BY <1>6, <1>8 DEF s

LEMMA BlasNames ==
  /\ BlasVars \in Seq(Vars) /\ IsInjective(BlasVars)
  /\ Cuda \in Vars /\ Range(BlasVars) \subseteq Vars /\ Cuda \notin Range(BlasVars)
<1>1. BlasVars \in Seq(STRING) /\ IsInjective(BlasVars) /\ Cuda \notin Range(BlasVars)
  BY SeedsAssumption DEF SeedsAssumption
<1>2. BlasVars \in Seq(Range(BlasVars))
  BY <1>1, SeqOfRange
<1>3. Range(BlasVars) \subseteq Vars /\ Cuda \in Vars
  BY DEF Vars
<1>4. BlasVars \in Seq(Vars)
  BY <1>2, <1>3, SeqMonotonic
<1> QED
  BY <1>1, <1>3, <1>4

\* What is masked is saved before, and is so at the start; and it is restored after it.
LEMMA ProgramOf ==
  ASSUME NEW want \in Wants
  PROVE  /\ Tidy(Programs[want], 1, 7)
         /\ \A v : Has(Programs[want], Do("save", v)) <=> v \in Own(want)
         /\ \A v : Has(Programs[want], Do("mask", v)) <=> v \in Own(want)
         /\ \A v : Has(Programs[want], Do("restore", v)) <=> v \in Own(want)
<1> DEFINE cuda == IF want.hide THEN <<Cuda>> ELSE <<>>
           blas == IF want.pin THEN BlasVars ELSE <<>>
           p1 == Ops("save", cuda)
           p2 == Ops("mask", cuda)
           p3 == Ops("save", blas)
           p4 == Ops("mask", blas)
           p5 == <<[op |-> "start", var |-> Cuda]>>
           p6 == Ops("restore", blas)
           p7 == Ops("restore", cuda)
<1>1. want.hide \in BOOLEAN /\ want.pin \in BOOLEAN
  BY DEF Wants
<1>2. /\ cuda \in Seq(Vars) /\ IsInjective(cuda)
      /\ Range(cuda) = IF want.hide THEN {Cuda} ELSE {}
  BY <1>1, BlasNames DEF IsInjective, Range
<1>3. /\ blas \in Seq(Vars) /\ IsInjective(blas)
      /\ Range(blas) = IF want.pin THEN Range(BlasVars) ELSE {}
  BY <1>1, BlasNames DEF IsInjective, Range
<1>4. \A v \in Range(cuda) : v = Cuda
  BY <1>1, <1>2
<1>5. \A v \in Range(blas) : v # Cuda
  BY <1>1, <1>3, BlasNames
<1>6. Own(want) = Range(cuda) \cup Range(blas)
  BY <1>2, <1>3 DEF Own
<1>7. Programs[want] = ((((p1 \o p2) \o p3) \o p4) \o p5) \o (p6 \o p7)
  BY DEF Programs, Block, Within
<1>8. /\ \A v \in Range(cuda) : Rank(Do("save", v)) = 1 /\ Rank(Do("mask", v)) = 2
                                /\ Rank(Do("restore", v)) = 7
      /\ \A v \in Range(blas) : Rank(Do("save", v)) = 3 /\ Rank(Do("mask", v)) = 4
                                /\ Rank(Do("restore", v)) = 6
  BY <1>4, <1>5 DEF Rank, Do
<1> HIDE DEF cuda, blas
<1>9. /\ Tidy(p1, 1, 1) /\ Tidy(p2, 2, 2) /\ Tidy(p7, 7, 7)
      /\ \A n, v : /\ Has(p1, Do(n, v)) <=> n = "save" /\ v \in Range(cuda)
                   /\ Has(p2, Do(n, v)) <=> n = "mask" /\ v \in Range(cuda)
                   /\ Has(p7, Do(n, v)) <=> n = "restore" /\ v \in Range(cuda)
  BY <1>2, <1>8, Piece
<1>10. /\ Tidy(p3, 3, 3) /\ Tidy(p4, 4, 4) /\ Tidy(p6, 6, 6)
       /\ \A n, v : /\ Has(p3, Do(n, v)) <=> n = "save" /\ v \in Range(blas)
                    /\ Has(p4, Do(n, v)) <=> n = "mask" /\ v \in Range(blas)
                    /\ Has(p6, Do(n, v)) <=> n = "restore" /\ v \in Range(blas)
  BY <1>3, <1>8, Piece
<1>11. /\ Tidy(p5, 5, 5)
       /\ \A n, v : Has(p5, Do(n, v)) <=> n = "start" /\ v = Cuda
  <2>1. p5 = <<Do("start", Cuda)>> /\ Do("start", Cuda) \in Op
    BY BlasNames DEF Do, Op
  <2>2. Len(p5) = 1 /\ p5 \in Seq(Op) /\ p5[1] = Do("start", Cuda)
    BY <2>1
  <2>3. Rank(Do("start", Cuda)) = 5
    BY DEF Rank, Do
  <2>4. Tidy(p5, 5, 5)
    BY <2>2, <2>3 DEF Tidy
  <2>5. \A n, v : Has(p5, Do(n, v)) <=> n = "start" /\ v = Cuda
    BY <2>2, DoEqual DEF Has
  <2> QED
    BY <2>4, <2>5
<1> HIDE DEF p1, p2, p3, p4, p5, p6, p7
<1>12. /\ Tidy(p1 \o p2, 1, 2)
       /\ \A o : Has(p1 \o p2, o) <=> Has(p1, o) \/ Has(p2, o)
  BY <1>9, Joined
<1>13. /\ Tidy((p1 \o p2) \o p3, 1, 3)
       /\ \A o : Has((p1 \o p2) \o p3, o) <=> Has(p1 \o p2, o) \/ Has(p3, o)
  BY <1>12, <1>10, Joined
<1>14. /\ Tidy(((p1 \o p2) \o p3) \o p4, 1, 4)
       /\ \A o : Has(((p1 \o p2) \o p3) \o p4, o) <=> Has((p1 \o p2) \o p3, o) \/ Has(p4, o)
  BY <1>13, <1>10, Joined
<1>15. /\ Tidy((((p1 \o p2) \o p3) \o p4) \o p5, 1, 5)
       /\ \A o : Has((((p1 \o p2) \o p3) \o p4) \o p5, o)
                  <=> Has(((p1 \o p2) \o p3) \o p4, o) \/ Has(p5, o)
  BY <1>14, <1>11, Joined
<1>16. /\ Tidy(p6 \o p7, 6, 7)
       /\ \A o : Has(p6 \o p7, o) <=> Has(p6, o) \/ Has(p7, o)
  BY <1>9, <1>10, Joined
<1>17. /\ Tidy(Programs[want], 1, 7)
       /\ \A o : Has(Programs[want], o)
                  <=> Has((((p1 \o p2) \o p3) \o p4) \o p5, o) \/ Has(p6 \o p7, o)
  BY <1>7, <1>15, <1>16, Joined
<1>18. \A o : Has(Programs[want], o) <=>
                \/ Has(p1, o) \/ Has(p2, o) \/ Has(p3, o) \/ Has(p4, o) \/ Has(p5, o)
                \/ Has(p6, o) \/ Has(p7, o)
  BY <1>12, <1>13, <1>14, <1>15, <1>16, <1>17
<1>19. \A v : \A n \in {"save", "mask", "restore"} :
         Has(Programs[want], Do(n, v)) <=> v \in Range(cuda) \/ v \in Range(blas)
  BY <1>9, <1>10, <1>11, <1>18
<1> QED
  BY <1>6, <1>17, <1>19

-----------------------------------------------------------------------------
(* A thread in its program *)

\* The thread has done this.
Past(t, name, v) == \E i \in 1..(at[t] - 1) : Program(t)[i] = Do(name, v)

Types(t) == wanted[t] \in Wants /\ at[t] \in 1..(Len(Program(t)) + 1)

\* Where an operation stands, its neighbours of lower and higher rank are past and to come.
LEMMA InOrder ==
  ASSUME NEW t \in Threads, Types(t), NEW name, Does(t, name)
  PROVE  /\ at[t] \in 1..Len(Program(t)) /\ Program(t)[at[t]] = Do(name, Var(t))
         /\ Do(name, Var(t)) \in Op
         /\ ~Past(t, name, Var(t))
         /\ \A n, v : Past(t, n, v) => Do(n, v) \in Op /\ Rank(Do(n, v)) <= Rank(Do(name, Var(t)))
         /\ \A n, v : Has(Program(t), Do(n, v)) /\ Rank(Do(n, v)) < Rank(Do(name, Var(t)))
                       => Past(t, n, v)
<1> DEFINE P == Program(t)
           here == at[t]
<1>1. Tidy(P, 1, 7)
  BY ProgramOf DEF Types, Program
<1>2. P \in Seq(Op) /\ Len(P) \in Nat /\ \A i \in 1..Len(P) : P[i] \in Op
  BY <1>1, LenProperties, ElementOfSeq DEF Tidy
<1>3. here \in 1..Len(P)
  BY <1>2 DEF Types, Does
<1>4. P[here] = Do(name, Var(t)) /\ P[here] \in Op
  BY <1>2, <1>3 DEF Does, Var, Do, Op
<1> HIDE DEF P, here
<1>5. \A i \in 1..(here - 1) : i \in 1..Len(P) /\ i < here
  BY <1>2, <1>3
<1>6. ~Past(t, name, Var(t))
  BY <1>1, <1>3, <1>4, <1>5 DEF Past, P, here, Tidy
<1>7. ASSUME NEW n, NEW v, Past(t, n, v)
      PROVE  Do(n, v) \in Op /\ Rank(Do(n, v)) <= Rank(Do(name, Var(t)))
  <2>1. PICK i \in 1..(here - 1) : P[i] = Do(n, v)
    BY <1>7 DEF Past, P, here
  <2> QED
    BY <2>1, <1>1, <1>2, <1>3, <1>4, <1>5 DEF Tidy
<1>8. ASSUME NEW n, NEW v, Has(P, Do(n, v)), Rank(Do(n, v)) < Rank(Do(name, Var(t)))
      PROVE  Past(t, n, v)
  <2>1. PICK i \in 1..Len(P) : P[i] = Do(n, v)
    BY <1>8 DEF Has
  <2>2. Rank(P[i]) \in 1..7 /\ Rank(P[here]) \in 1..7
    BY <1>2, <1>3, <2>1, RankType
  <2>3. ~(here <= i)
    <3>1. here # i
      BY <2>1, <2>2, <1>4, <1>8
    <3>2. ASSUME here < i PROVE FALSE
      <4>1. Rank(P[here]) <= Rank(P[i])
        BY <3>2, <1>1, <1>3, <2>1 DEF Tidy
      <4> QED
        BY <4>1, <2>1, <2>2, <1>4, <1>8
    <3> QED
      BY <3>1, <3>2, <1>2, <1>3
  <2>4. i \in 1..(here - 1)
    BY <2>3, <1>2, <1>3
  <2> QED
    BY <2>1, <2>4 DEF Past, P, here
<1>9. /\ at[t] \in 1..Len(Program(t)) /\ Program(t)[at[t]] = Do(name, Var(t))
      /\ Do(name, Var(t)) \in Op
  BY <1>3, <1>4 DEF P, here
<1> QED
  BY <1>6, <1>7, <1>8, <1>9 DEF P

\* What is past when a thread saves, masks, starts and restores.
LEMMA AtSave ==
  ASSUME NEW t \in Threads, Types(t), Does(t, "save")
  PROVE  Var(t) \in Vars /\ ~Past(t, "save", Var(t)) /\ ~Past(t, "mask", Var(t))
         /\ ~Past(t, "restore", Var(t))
<1>1. Var(t) \in Vars
  BY InOrder DEF Op, Do
<1> QED
  BY <1>1, InOrder, Ranks

LEMMA AtMask ==
  ASSUME NEW t \in Threads, Types(t), Does(t, "mask")
  PROVE  Var(t) \in Vars /\ Past(t, "save", Var(t)) /\ ~Past(t, "restore", Var(t))
<1>1. Program(t) = Programs[wanted[t]] /\ wanted[t] \in Wants
  BY DEF Types, Program
<1>2. Has(Program(t), Do("save", Var(t)))
  BY <1>1, ProgramOf, InOrder DEF Has
<1>3. Var(t) \in Vars
  BY InOrder DEF Op, Do
<1> QED
  BY <1>2, <1>3, InOrder, Ranks

LEMMA AtRestore ==
  ASSUME NEW t \in Threads, Types(t), Does(t, "restore")
  PROVE  Var(t) \in Vars /\ Past(t, "save", Var(t)) /\ ~Past(t, "restore", Var(t))
<1>1. Program(t) = Programs[wanted[t]] /\ wanted[t] \in Wants
  BY DEF Types, Program
<1>2. Has(Program(t), Do("save", Var(t)))
  BY <1>1, ProgramOf, InOrder DEF Has
<1>3. Var(t) \in Vars
  BY InOrder DEF Op, Do
<1> QED
  BY <1>2, <1>3, InOrder, Ranks

LEMMA AtStart ==
  ASSUME NEW t \in Threads, Types(t), Does(t, "start")
  PROVE  \A v \in Vars :
           /\ v \in Own(wanted[t]) => Past(t, "save", v) /\ Past(t, "mask", v)
           /\ Past(t, "save", v) => v \in Own(wanted[t])
           /\ ~Past(t, "restore", v)
<1> SUFFICES ASSUME NEW v \in Vars
             PROVE  /\ v \in Own(wanted[t]) => Past(t, "save", v) /\ Past(t, "mask", v)
                    /\ Past(t, "save", v) => v \in Own(wanted[t])
                    /\ ~Past(t, "restore", v)
  OBVIOUS
<1>1. Program(t) = Programs[wanted[t]] /\ wanted[t] \in Wants
  BY DEF Types, Program
<1>2. Rank(Do("start", Var(t))) = 5 /\ Rank(Do("save", v)) < 5 /\ Rank(Do("mask", v)) < 5
      /\ Rank(Do("restore", v)) \in {6, 7}
  BY Ranks
<1>3. v \in Own(wanted[t]) => Past(t, "save", v) /\ Past(t, "mask", v)
  BY <1>1, <1>2, ProgramOf, InOrder
<1>4. Past(t, "save", v) => v \in Own(wanted[t])
  <2>1. Past(t, "save", v) => Has(Program(t), Do("save", v))
    <3>1. \A i \in 1..(at[t] - 1) : i \in 1..Len(Program(t))
      <4>1. Len(Program(t)) \in Nat
        BY <1>1, ProgramOf, LenProperties DEF Tidy
      <4> QED
        BY <4>1 DEF Types
    <3> QED
      BY <3>1 DEF Past, Has
  <2> QED
    BY <2>1, <1>1, ProgramOf
<1>5. ~Past(t, "restore", v)
  BY <1>2, InOrder
<1> QED
  BY <1>3, <1>4, <1>5

\* An operation that is done is past, and the rest is as it was.
LEMMA PastStep ==
  ASSUME NEW t \in Threads, Types(t), NEW name, Does(t, name), Goes(t),
         at \in [Threads -> Nat \ {0}], UNCHANGED wanted
  PROVE  /\ \A n, v : Past(t, n, v)' <=> Past(t, n, v) \/ (n = name /\ v = Var(t))
         /\ \A u \in Threads \ {t} : \A n, v : Past(u, n, v)' <=> Past(u, n, v)
         /\ at' \in [Threads -> Nat \ {0}]
         /\ \A u \in Threads : Types(u) => Types(u)'
<1>1. at[t] \in Nat \ {0} /\ at'[t] = at[t] + 1 /\ \A u \in Threads \ {t} : at'[u] = at[u]
  BY DEF Goes
<1>2. \A u \in Threads : Program(u)' = Program(u)
  BY DEF Program
<1>3. at[t] \in 1..Len(Program(t)) /\ Program(t)[at[t]] = Do(name, Var(t))
  BY InOrder
<1>4. \A n, v : Past(t, n, v)' <=> Past(t, n, v) \/ (n = name /\ v = Var(t))
  <2>1. \A i : i \in 1..(at'[t] - 1) <=> i \in 1..(at[t] - 1) \/ i = at[t]
    BY <1>1
  <2>2. \A n, v : Past(t, n, v)' <=> \E i \in 1..(at'[t] - 1) : Program(t)[i] = Do(n, v)
    BY <1>2 DEF Past
  <2> QED
    BY <2>1, <2>2, <1>3, DoEqual DEF Past
<1>5. \A u \in Threads \ {t} : \A n, v : Past(u, n, v)' <=> Past(u, n, v)
  BY <1>1, <1>2 DEF Past
<1>6. at' \in [Threads -> Nat \ {0}]
  BY <1>1 DEF Goes
<1>7. \A u \in Threads : Types(u) => Types(u)'
  <2>1. Types(t)'
    <3>1. Len(Program(t)) \in Nat
      BY ProgramOf, LenProperties DEF Types, Program, Tidy
    <3> QED
      BY <3>1, <1>1, <1>2, <1>3 DEF Types
  <2> QED
    BY <2>1, <1>1, <1>2 DEF Types
<1> QED
  BY <1>4, <1>5, <1>6, <1>7

-----------------------------------------------------------------------------
(* The invariant *)

\* A thread is inside of what it has saved and not restored.
InsideInv ==
  \A t \in Threads, v \in Vars :
    v \in inside[t] <=> Past(t, "save", v) /\ ~Past(t, "restore", v)

\* A variable no two threads have been inside of at once: it has the user's value, or one
\* thread has that in hand.
VarInv(v) ==
  /\ (\A t \in Threads : v \notin inside[t]) => env[v] = original[v]
  /\ \A t \in Threads : v \in inside[t] =>
       /\ saved[t][v] = original[v]
       /\ Past(t, "mask", v) => env[v] = "mask"
       /\ \A u \in Threads \ {t} : v \notin inside[u]

EnvInv == \A v \in Vars \ overlap : VarInv(v)

\* A worker has seeded itself from the run's seed and its own offset.
SeedInv ==
  \A t \in Threads : Up(t) =>
    /\ HashSeedFits /\ child[t].offset \in Offsets
    /\ child[t].stream = WorkerStream(child[t].offset)

ChildInv == child = [t \in Threads |-> child[t]] /\ SeedInv /\ CheapWorker /\ NoStrayMask

Inv == TypeOK /\ InsideInv /\ EnvInv /\ ChildInv

LEMMA TypesOf ==
  ASSUME TypeOK
  PROVE  \A t \in Threads : Types(t) /\ wanted[t] \in Wants /\ Len(Program(t)) \in Nat
<1> SUFFICES ASSUME NEW t \in Threads
             PROVE  Types(t) /\ wanted[t] \in Wants /\ Len(Program(t)) \in Nat
  OBVIOUS
<1>1. wanted[t] \in Wants
  BY DEF TypeOK
<1>2. Len(Program(t)) \in Nat
  BY <1>1, ProgramOf, LenProperties DEF Program, Tidy
<1> QED
  BY <1>1, <1>2 DEF TypeOK, Types

LEMMA Outsiders ==
  ASSUME NEW t, NEW v
  PROVE  v \in InsideOf(Threads \ {t}) <=> \E u \in Threads \ {t} : v \in inside[u]
  BY DEF InsideOf

LEMMA InitInv == Init => Inv
<1> SUFFICES ASSUME Init PROVE Inv
  OBVIOUS
<1>1. TypeOK
  <2>1. \A t \in Threads : at[t] <= Len(Program(t)) + 1
    <3>1. \A t \in Threads : wanted[t] \in Wants
      BY DEF Init
    <3>2. \A t \in Threads : Len(Program(t)) \in Nat
      BY <3>1, ProgramOf, LenProperties DEF Program, Tidy
    <3> QED
      BY <3>2 DEF Init
  <2> QED
    BY <2>1 DEF Init, TypeOK
<1>2. InsideInv
  BY DEF Init, InsideInv, Past
<1>3. EnvInv
  BY DEF Init, EnvInv, VarInv
<1>4. ChildInv
  BY DEF Init, ChildInv, SeedInv, CheapWorker, NoStrayMask, Up
<1> QED
  BY <1>1, <1>2, <1>3, <1>4 DEF Inv

\* A step that starts no worker leaves those that are up as they are.
LEMMA ChildStays ==
  ASSUME ChildInv, UNCHANGED <<child, wanted, seed>>, overlap \subseteq overlap'
  PROVE  ChildInv'
<1>1. \A off : WorkerStream(off)' = WorkerStream(off)
  BY DEF WorkerStream, Entropy
<1>2. SeedInv'
  BY <1>1 DEF ChildInv, SeedInv, Up, HashSeedFits
<1>3. CheapWorker'
  BY DEF ChildInv, CheapWorker, Up
<1>4. NoStrayMask'
  BY DEF ChildInv, NoStrayMask, Up
<1> QED
  BY <1>2, <1>3, <1>4 DEF ChildInv

LEMMA SaveStep ==
  ASSUME Inv, NEW t \in Threads, Save(t)
  PROVE  Inv'
<1> DEFINE w == Var(t)
<1>1. /\ Does(t, "save") /\ Goes(t)
      /\ UNCHANGED <<wanted, env, original, seed, child>>
  BY DEF Save
<1>2. TypeOK /\ Types(t) /\ at \in [Threads -> Nat \ {0}] /\ UNCHANGED wanted
  BY <1>1, TypesOf DEF Inv, TypeOK
<1>3. /\ w \in Vars /\ ~Past(t, "save", w) /\ ~Past(t, "mask", w) /\ ~Past(t, "restore", w)
  BY <1>1, <1>2, AtSave
<1>4. /\ \A n, v : Past(t, n, v)' <=> Past(t, n, v) \/ (n = "save" /\ v = w)
      /\ \A u \in Threads \ {t} : \A n, v : Past(u, n, v)' <=> Past(u, n, v)
      /\ at' \in [Threads -> Nat \ {0}]
      /\ \A u \in Threads : Types(u)'
  BY <1>1, <1>2, PastStep, TypesOf
<1> HIDE DEF w
<1>5. /\ inside' = [inside EXCEPT ![t] = @ \cup {w}]
      /\ saved' = [saved EXCEPT ![t][w] = env[w]]
      /\ overlap' = overlap \cup ({w} \cap InsideOf(Threads \ {t}))
  BY DEF Save, w
<1>6. /\ inside'[t] = inside[t] \cup {w} /\ \A u \in Threads \ {t} : inside'[u] = inside[u]
      /\ saved'[t][w] = env[w]
      /\ \A u \in Threads, v \in Vars : u # t \/ v # w => saved'[u][v] = saved[u][v]
  BY <1>2, <1>3, <1>5 DEF TypeOK
<1>7. TypeOK'
  <2>1. inside' \in [Threads -> SUBSET Vars] /\ overlap' \subseteq Vars
    BY <1>2, <1>3, <1>5 DEF TypeOK
  <2>2. saved' \in [Threads -> [Vars -> {"unset", "own", "mask"}]]
    BY <1>2, <1>3, <1>5 DEF TypeOK
  <2>3. \A u \in Threads : at'[u] <= Len(Program(u)') + 1
    BY <1>4 DEF Types
  <2> QED
    BY <1>1, <1>2, <1>4, <2>1, <2>2, <2>3 DEF TypeOK
<1>8. InsideInv'
  BY <1>3, <1>4, <1>6 DEF Inv, InsideInv
<1>9. EnvInv'
  <2> SUFFICES ASSUME NEW v \in Vars, v \notin overlap'
               PROVE  VarInv(v)'
    BY DEF EnvInv
  <2>1. VarInv(v)
    BY <1>5 DEF Inv, EnvInv
  <2>2. CASE v = w
    <3>1. \A u \in Threads : v \notin inside[u]
      <4>1. \A u \in Threads \ {t} : v \notin inside[u]
        BY <2>2, <1>5, Outsiders
      <4>2. v \notin inside[t]
        BY <2>2, <1>3 DEF Inv, InsideInv
      <4> QED
        BY <4>1, <4>2
    <3>2. env[v] = original[v] /\ saved'[t][v] = original[v] /\ ~Past(t, "mask", v)'
      BY <3>1, <2>1, <2>2, <1>3, <1>4, <1>6 DEF VarInv
    <3> QED
      BY <3>1, <3>2, <2>2, <1>1, <1>6 DEF VarInv
  <2>3. CASE v # w
    BY <2>1, <2>3, <1>1, <1>4, <1>6 DEF VarInv
  <2> QED
    BY <2>2, <2>3
<1>10. ChildInv'
  BY <1>1, <1>5, ChildStays DEF Inv
<1> QED
  BY <1>7, <1>8, <1>9, <1>10 DEF Inv

LEMMA MaskStep ==
  ASSUME Inv, NEW t \in Threads, Mask(t)
  PROVE  Inv'
<1> DEFINE w == Var(t)
<1>1. /\ Does(t, "mask") /\ Goes(t)
      /\ UNCHANGED <<wanted, saved, inside, overlap, original, seed, child>>
  BY DEF Mask
<1>2. TypeOK /\ Types(t) /\ at \in [Threads -> Nat \ {0}] /\ UNCHANGED wanted
  BY <1>1, TypesOf DEF Inv, TypeOK
<1>3. w \in Vars /\ Past(t, "save", w) /\ ~Past(t, "restore", w)
  BY <1>1, <1>2, AtMask
<1>4. /\ \A n, v : Past(t, n, v)' <=> Past(t, n, v) \/ (n = "mask" /\ v = w)
      /\ \A u \in Threads \ {t} : \A n, v : Past(u, n, v)' <=> Past(u, n, v)
      /\ at' \in [Threads -> Nat \ {0}]
      /\ \A u \in Threads : Types(u)'
  BY <1>1, <1>2, PastStep, TypesOf
<1> HIDE DEF w
<1>5. env' = [env EXCEPT ![w] = "mask"]
  BY DEF Mask, w
<1>6. env'[w] = "mask" /\ \A v \in Vars : v # w => env'[v] = env[v]
  BY <1>2, <1>3, <1>5 DEF TypeOK
<1>7. TypeOK'
  <2>1. env' \in [Vars -> {"unset", "own", "mask"}]
    BY <1>2, <1>3, <1>5 DEF TypeOK
  <2>2. \A u \in Threads : at'[u] <= Len(Program(u)') + 1
    BY <1>4 DEF Types
  <2> QED
    BY <1>1, <1>2, <1>4, <2>1, <2>2 DEF TypeOK
<1>8. InsideInv'
  BY <1>1, <1>4 DEF Inv, InsideInv
<1>9. w \in inside[t]
  BY <1>3 DEF Inv, InsideInv
<1>10. EnvInv'
  <2> SUFFICES ASSUME NEW v \in Vars, v \notin overlap'
               PROVE  VarInv(v)'
    BY DEF EnvInv
  <2>1. VarInv(v)
    BY <1>1 DEF Inv, EnvInv
  <2>2. CASE v = w
    BY <2>1, <2>2, <1>1, <1>4, <1>6, <1>9 DEF VarInv
  <2>3. CASE v # w
    BY <2>1, <2>3, <1>1, <1>4, <1>6 DEF VarInv
  <2> QED
    BY <2>2, <2>3
<1>11. ChildInv'
  BY <1>1, ChildStays DEF Inv
<1> QED
  BY <1>7, <1>8, <1>10, <1>11 DEF Inv

LEMMA RestoreStep ==
  ASSUME Inv, NEW t \in Threads, Restore(t)
  PROVE  Inv'
<1> DEFINE w == Var(t)
<1>1. /\ Does(t, "restore") /\ Goes(t)
      /\ UNCHANGED <<wanted, saved, overlap, original, seed, child>>
  BY DEF Restore
<1>2. TypeOK /\ Types(t) /\ at \in [Threads -> Nat \ {0}] /\ UNCHANGED wanted
  BY <1>1, TypesOf DEF Inv, TypeOK
<1>3. w \in Vars /\ Past(t, "save", w) /\ ~Past(t, "restore", w)
  BY <1>1, <1>2, AtRestore
<1>4. /\ \A n, v : Past(t, n, v)' <=> Past(t, n, v) \/ (n = "restore" /\ v = w)
      /\ \A u \in Threads \ {t} : \A n, v : Past(u, n, v)' <=> Past(u, n, v)
      /\ at' \in [Threads -> Nat \ {0}]
      /\ \A u \in Threads : Types(u)'
  BY <1>1, <1>2, PastStep, TypesOf
<1> HIDE DEF w
<1>5. env' = [env EXCEPT ![w] = saved[t][w]] /\ inside' = [inside EXCEPT ![t] = @ \ {w}]
  BY DEF Restore, Previous, w
<1>6. /\ env'[w] = saved[t][w] /\ \A v \in Vars : v # w => env'[v] = env[v]
      /\ inside'[t] = inside[t] \ {w} /\ \A u \in Threads \ {t} : inside'[u] = inside[u]
  BY <1>2, <1>3, <1>5 DEF TypeOK
<1>7. TypeOK'
  <2>1. env' \in [Vars -> {"unset", "own", "mask"}] /\ inside' \in [Threads -> SUBSET Vars]
    BY <1>2, <1>3, <1>5 DEF TypeOK
  <2>2. \A u \in Threads : at'[u] <= Len(Program(u)') + 1
    BY <1>4 DEF Types
  <2> QED
    BY <1>1, <1>2, <1>4, <2>1, <2>2 DEF TypeOK
<1>8. InsideInv'
  BY <1>3, <1>4, <1>6 DEF Inv, InsideInv
<1>9. w \in inside[t]
  BY <1>3 DEF Inv, InsideInv
<1>10. EnvInv'
  <2> SUFFICES ASSUME NEW v \in Vars, v \notin overlap'
               PROVE  VarInv(v)'
    BY DEF EnvInv
  <2>1. VarInv(v)
    BY <1>1 DEF Inv, EnvInv
  <2>2. CASE v = w
    <3>1. env'[v] = original[v] /\ \A u \in Threads : v \notin inside'[u]
      BY <2>1, <2>2, <1>6, <1>9 DEF VarInv
    <3> QED
      BY <3>1, <1>1 DEF VarInv
  <2>3. CASE v # w
    BY <2>1, <2>3, <1>1, <1>4, <1>6 DEF VarInv
  <2> QED
    BY <2>2, <2>3
<1>11. ChildInv'
  BY <1>1, ChildStays DEF Inv
<1> QED
  BY <1>7, <1>8, <1>10, <1>11 DEF Inv

\* A thread that has done with its start has touched nothing but its child.
LEMMA AfterStart ==
  ASSUME Inv, NEW t \in Threads, Does(t, "start"), Goes(t),
         UNCHANGED <<wanted, env, saved, inside, overlap, original, seed>>,
         child' = [child EXCEPT ![t] = child'[t]],
         child'[t].state \in {"none", "up", "failed", "died"}
  PROVE  /\ TypeOK' /\ InsideInv' /\ EnvInv'
         /\ child' = [u \in Threads |-> child'[u]]
         /\ \A u \in Threads \ {t} : child'[u] = child[u]
<1>1. TypeOK /\ Types(t) /\ at \in [Threads -> Nat \ {0}] /\ UNCHANGED wanted
  BY TypesOf DEF Inv, TypeOK
<1>2. /\ \A n, v : Past(t, n, v)' <=> Past(t, n, v) \/ (n = "start" /\ v = Var(t))
      /\ \A u \in Threads \ {t} : \A n, v : Past(u, n, v)' <=> Past(u, n, v)
      /\ at' \in [Threads -> Nat \ {0}]
      /\ \A u \in Threads : Types(u)'
  BY <1>1, PastStep, TypesOf
<1>3. child = [u \in Threads |-> child[u]]
  BY DEF Inv, ChildInv
<1>4. \A u \in Threads \ {t} : child'[u] = child[u]
  BY <1>3
<1>5. child' = [u \in Threads |-> child'[u]]
  BY <1>3
<1>6. TypeOK'
  <2>1. \A u \in Threads : at'[u] <= Len(Program(u)') + 1
    BY <1>2 DEF Types
  <2>2. \A u \in Threads : child'[u].state \in {"none", "up", "failed", "died"}
    BY <1>1, <1>4 DEF TypeOK
  <2> QED
    BY <1>1, <1>2, <2>1, <2>2 DEF TypeOK
<1>7. InsideInv'
  BY <1>2 DEF Inv, InsideInv
<1>8. EnvInv'
  BY <1>2 DEF Inv, EnvInv, VarInv
<1> QED
  BY <1>4, <1>5, <1>6, <1>7, <1>8

LEMMA StartStep ==
  ASSUME Inv, NEW t \in Threads, Start(t)
  PROVE  Inv'
<1>1. /\ Does(t, "start") /\ Goes(t) /\ HashSeedFits
      /\ UNCHANGED <<wanted, env, saved, inside, overlap, original, seed>>
  BY DEF Start
<1>2. PICK off \in Offsets, device \in {"cpu", "cuda"} :
        child' = [child EXCEPT ![t] =
          [state |-> "up", env |-> env, beside |-> InsideOf(Threads \ {t}),
           device |-> device, torch |-> TorchThreads(device),
           offset |-> off, stream |-> WorkerStream(off)]]
  BY DEF Start
<1> DEFINE c == [state |-> "up", env |-> env, beside |-> InsideOf(Threads \ {t}),
                 device |-> device, torch |-> TorchThreads(device),
                 offset |-> off, stream |-> WorkerStream(off)]
<1>3. /\ c.state = "up" /\ c.env = env /\ c.beside = InsideOf(Threads \ {t})
      /\ c.torch = TorchThreads(c.device) /\ c.offset = off /\ c.stream = WorkerStream(off)
  OBVIOUS
<1>4. child' = [child EXCEPT ![t] = c]
  BY <1>2
<1> HIDE DEF c
<1>5. /\ TypeOK' /\ InsideInv' /\ EnvInv' /\ child' = [u \in Threads |-> child'[u]]
      /\ child'[t] = c /\ \A u \in Threads \ {t} : child'[u] = child[u]
  <2>1. child'[t] = c /\ child' = [child EXCEPT ![t] = child'[t]]
    <3>1. child = [u \in Threads |-> child[u]]
      BY DEF Inv, ChildInv
    <3> QED
      BY <3>1, <1>4
  <2>2. child'[t].state \in {"none", "up", "failed", "died"}
    BY <1>3, <2>1
  <2> QED
    BY <1>1, <2>1, <2>2, AfterStart
<1>6. \A v \in Vars : /\ v \in inside[t] <=> v \in Own(wanted[t])
                      /\ v \in inside[t] => Past(t, "mask", v)
  BY <1>1, TypesOf, AtStart DEF Inv, InsideInv
<1>7. wanted[t] \in Wants /\ \A v \in Vars : original[v] # "mask"
  BY DEF Inv, TypeOK
<1>8. SeedInv'
  <2>1. \A o : WorkerStream(o)' = WorkerStream(o)
    BY <1>1 DEF WorkerStream, Entropy
  <2> QED
    BY <2>1, <1>1, <1>3, <1>5 DEF Inv, ChildInv, SeedInv, Up, HashSeedFits
<1>9. CheapWorker'
  <2>1. \A v \in Own(wanted[t]) \ overlap : v \in Vars => env[v] = "mask"
    BY <1>6 DEF Inv, EnvInv, VarInv
  <2>2. wanted[t].hide /\ Cuda \notin overlap => env[Cuda] = "mask"
    BY <2>1, <1>7, BlasNames DEF Own
  <2>3. wanted[t].pin => \A v \in Range(BlasVars) \ overlap : env[v] = "mask"
    BY <2>1, <1>7, BlasNames DEF Own
  <2>4. c.device = "cpu" => c.torch = "one"
    BY <1>3 DEF TorchThreads
  <2> QED
    BY <2>2, <2>3, <2>4, <1>1, <1>3, <1>5 DEF Inv, ChildInv, CheapWorker, Up
<1>10. NoStrayMask'
  <2>1. ASSUME NEW v \in Vars, v \notin overlap, v \notin InsideOf(Threads \ {t}), env[v] = "mask"
        PROVE  IF v = Cuda THEN wanted[t].hide ELSE wanted[t].pin
    <3>1. v \in inside[t]
      <4>1. \A u \in Threads \ {t} : v \notin inside[u]
        BY <2>1, Outsiders
      <4> QED
        BY <4>1, <2>1, <1>7 DEF Inv, EnvInv, VarInv
    <3>2. v \in Own(wanted[t])
      BY <3>1, <1>6
    <3> QED
      BY <3>2, <1>7, BlasNames DEF Own, Wants
  <2> QED
    BY <2>1, <1>1, <1>3, <1>5 DEF Inv, ChildInv, NoStrayMask, Up
<1> QED
  BY <1>5, <1>8, <1>9, <1>10 DEF Inv, ChildInv

LEMMA NoStartStep ==
  ASSUME Inv, NEW t \in Threads, StartsInVain(t) \/ StartFails(t)
  PROVE  Inv'
<1>1. PICK how \in {"died", "failed"} : child' = [child EXCEPT ![t] = [state |-> how]]
  BY DEF StartsInVain, StartFails
<1>2. /\ Does(t, "start") /\ Goes(t)
      /\ UNCHANGED <<wanted, env, saved, inside, overlap, original, seed>>
  BY DEF StartsInVain, StartFails, Unwinds
<1>3. /\ TypeOK' /\ InsideInv' /\ EnvInv' /\ child' = [u \in Threads |-> child'[u]]
      /\ child'[t] = [state |-> how] /\ \A u \in Threads \ {t} : child'[u] = child[u]
  <2>1. child'[t] = [state |-> how] /\ child' = [child EXCEPT ![t] = child'[t]]
    <3>1. child = [u \in Threads |-> child[u]]
      BY DEF Inv, ChildInv
    <3> QED
      BY <3>1, <1>1
  <2>2. child'[t].state \in {"none", "up", "failed", "died"}
    BY <2>1
  <2> QED
    BY <1>2, <2>1, <2>2, AfterStart
<1>4. \A u \in Threads : Up(u)' => Up(u) /\ child'[u] = child[u]
  BY <1>3 DEF Up
<1>5. \A o : WorkerStream(o)' = WorkerStream(o)
  BY <1>2 DEF WorkerStream, Entropy
<1>6. SeedInv'
  BY <1>2, <1>4, <1>5 DEF Inv, ChildInv, SeedInv, HashSeedFits
<1>7. CheapWorker'
  BY <1>2, <1>4 DEF Inv, ChildInv, CheapWorker
<1>8. NoStrayMask'
  BY <1>2, <1>4 DEF Inv, ChildInv, NoStrayMask
<1> QED
  BY <1>3, <1>6, <1>7, <1>8 DEF Inv, ChildInv

LEMMA Stutter ==
  ASSUME Inv, UNCHANGED vars
  PROVE  Inv'
<1>1. \A t \in Threads : \A n, v : Past(t, n, v)' <=> Past(t, n, v)
  BY DEF vars, Past, Program
<1>2. TypeOK'
  BY DEF Inv, TypeOK, vars, Program
<1>3. InsideInv' /\ EnvInv'
  BY <1>1 DEF Inv, InsideInv, EnvInv, VarInv, vars
<1>4. ChildInv'
  BY ChildStays DEF Inv, vars
<1> QED
  BY <1>2, <1>3, <1>4 DEF Inv

-----------------------------------------------------------------------------
(* Streams *)

\* A pool is told by the words it is filled with.
LEMMA Joins ==
  ASSUME NEW a \in Nat, NEW s \in Seq(Nat)
  PROVE  /\ <<a>> \o s \in Seq(Nat) /\ Len(<<a>> \o s) = 1 + Len(s)
         /\ (<<a>> \o s)[1] = a /\ \A i \in 1..Len(s) : (<<a>> \o s)[i + 1] = s[i]
<1>1. <<a>> \in Seq(Nat) /\ Len(<<a>>) = 1 /\ <<a>>[1] = a
  OBVIOUS
<1>2. Len(s) \in Nat
  BY LenProperties
<1>3. /\ <<a>> \o s \in Seq(Nat) /\ Len(<<a>> \o s) = 1 + Len(s)
      /\ \A i \in 1..(1 + Len(s)) : (<<a>> \o s)[i] = IF i <= 1 THEN <<a>>[i] ELSE s[i - 1]
  BY <1>1, ConcatProperties
<1>4. \A i \in 1..Len(s) : i + 1 \in 1..(1 + Len(s)) /\ ~(i + 1 <= 1) /\ (i + 1) - 1 = i
  BY <1>2
<1>5. 1 \in 1..(1 + Len(s))
  BY <1>2
<1> QED
  BY <1>1, <1>3, <1>4, <1>5

\* What SeedSequence makes of a seed of one word and an offset of one or two.
LEMMA StreamOf ==
  ASSUME seed \in Nat, NEW off \in Nat, HashSeedFits
  PROVE  LET s == WorkerStream(off)
         IN  IF off < Word THEN s[2] = off /\ s[3] = 0
                           ELSE s[2] = off % Word /\ s[3] = off \div Word
<1>1. Words(seed) = <<seed>>
  BY DEF Words, HashSeedFits
<1>2. Word \in Nat \ {0, 1}
  BY SeedsAssumption DEF SeedsAssumption
<1>3. WorkerStream(off) = [i \in 1..4 |-> IF i <= Len(<<seed>> \o Words(off))
                                           THEN (<<seed>> \o Words(off))[i] ELSE 0]
  BY <1>1 DEF WorkerStream, Pool, Entropy
<1>4. CASE off < Word
  <2>1. Words(off) = <<off>> /\ <<off>> \in Seq(Nat) /\ Len(<<off>>) = 1 /\ <<off>>[1] = off
    BY <1>4 DEF Words
  <2>2. Len(<<seed>> \o Words(off)) = 2 /\ (<<seed>> \o Words(off))[2] = off
    BY <2>1, Joins
  <2> QED
    BY <2>2, <1>3, <1>4
<1>5. CASE ~(off < Word)
  <2>1. off % Word \in Nat /\ off \div Word \in Nat
    BY <1>2
  <2> DEFINE a == off % Word
             b == off \div Word
  <2> HIDE DEF a, b
  <2>2. Words(off) = <<a, b>> /\ a \in Nat /\ b \in Nat
    BY <1>5, <2>1 DEF Words, a, b
  <2>3. <<a, b>> \in Seq(Nat) /\ Len(<<a, b>>) = 2 /\ <<a, b>>[1] = a /\ <<a, b>>[2] = b
    BY <2>2
  <2>4. Len(<<seed>> \o Words(off)) = 3 /\ (<<seed>> \o Words(off))[2] = a
        /\ (<<seed>> \o Words(off))[3] = b
    BY <2>2, <2>3, Joins
  <2>5. WorkerStream(off)[2] = a /\ WorkerStream(off)[3] = b
    BY <2>4, <1>3
  <2> QED
    BY <2>5, <1>5 DEF a, b
<1> QED
  BY <1>4, <1>5

\* The words of a number tell it.
LEMMA TwoWords ==
  ASSUME NEW a \in Nat, NEW b \in Nat, NEW w \in Nat \ {0}
  PROVE  /\ a \div w = b \div w /\ a % w = b % w => a = b
         /\ ~(a < w) => a \div w # 0
<1>1. a = w * (a \div w) + (a % w) /\ a % w \in 0..(w - 1)
  OBVIOUS
<1>2. b = w * (b \div w) + (b % w)
  OBVIOUS
<1>3. a \div w = 0 => a < w
  BY <1>1
<1> QED
  BY <1>1, <1>2, <1>3

LEMMA OffsetsTell ==
  ASSUME seed \in Nat, HashSeedFits, NEW a \in Nat, NEW b \in Nat
  PROVE  /\ WorkerStream(a) = WorkerStream(b) => a = b
         /\ WorkerStream(a) = ParentStream => a = 0
<1>1. Word \in Nat \ {0, 1}
  BY SeedsAssumption DEF SeedsAssumption
<1>2. ParentStream[2] = 0 /\ ParentStream[3] = 0
  <2>1. Words(seed) = <<seed>> /\ Len(<<seed>>) = 1
    BY DEF Words, HashSeedFits
  <2> QED
    BY <2>1 DEF ParentStream, Pool
<1>3. /\ ~(a < Word) => a \div Word # 0
      /\ ~(b < Word) => b \div Word # 0
      /\ a \div Word = b \div Word /\ a % Word = b % Word => a = b
  BY <1>1, TwoWords
<1>4. WorkerStream(a) = WorkerStream(b) => a = b
  BY <1>3, StreamOf
<1>5. WorkerStream(a) = ParentStream => a = 0
  BY <1>2, <1>3, StreamOf
<1> QED
  BY <1>4, <1>5

-----------------------------------------------------------------------------
(* The results *)

THEOREM Invariance == Spec => []Inv
<1>1. Inv /\ [Next]_vars => Inv'
  BY SaveStep, MaskStep, RestoreStep, StartStep, NoStartStep, Stutter DEF Next
<1> QED
  BY InitInv, <1>1, PTL DEF Spec

\* Type correctness of the two context managers and of the starts in them.
THEOREM TypeCorrect == Spec => []TypeOK
  BY Invariance, PTL DEF Inv

\* The user's value is back when no thread is inside, however many starts succeeded or
\* raised (cuda_hidden_from_children, blas_threads_pinned).
THEOREM EnvironmentReturns == Spec => []EnvRestored
<1>1. Inv => EnvRestored
  BY DEF Inv, EnvInv, VarInv, EnvRestored, InsideOf
<1> QED
  BY Invariance, <1>1, PTL

\* A worker that was to be without GPU or with one BLAS thread is.
THEOREM WorkersAreCheap == Spec => []CheapWorker
  BY Invariance, PTL DEF Inv, ChildInv

\* A worker that was to keep its GPU or its threads keeps them, unless another start is
\* under way at that moment.
THEOREM MasksDoNotStray == Spec => []NoStrayMask
  BY Invariance, PTL DEF Inv, ChildInv

\* Workers of different offsets draw from different streams, and only offset zero draws
\* from the parent's, for any seed and any offsets (seed_worker).
THEOREM StreamsAreApart == Spec => []StreamsApart
<1>1. Inv => StreamsApart
  <2>1. Offsets \subseteq Nat /\ Seeds \subseteq Nat
    BY SeedsAssumption DEF SeedsAssumption
  <2> QED
    BY <2>1, OffsetsTell DEF Inv, TypeOK, ChildInv, SeedInv, StreamsApart
<1> QED
  BY Invariance, <1>1, PTL

=============================================================================
