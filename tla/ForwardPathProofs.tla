--------------------------- MODULE ForwardPathProofs ---------------------------
(***************************************************************************)
(* What the path of a batch guarantees for any payloads, batch size,       *)
(* layouts, output fields and graphs.                                      *)
(*                                                                         *)
(* The recursive definitions of the model, the buckets and the             *)
(* concatenation of arrays, are reasoned about by their least              *)
(* counterexample: the order of the natural numbers is well-founded.       *)
(***************************************************************************)
EXTENDS ForwardPath, WellFoundedInduction, SequenceTheorems, FiniteSetTheorems, TLAPS

-----------------------------------------------------------------------------
(* Least counterexamples *)

\* A set of natural numbers that is not empty has a least one.
LEMMA Least ==
  ASSUME NEW T, T \subseteq Nat, T # {}
  PROVE  \E n \in T : \A m \in T : n <= m
<1>1. PICK x \in T : \A y \in T : ~ (<<y, x>> \in OpToRel(<, Nat))
  <2> HIDE DEF OpToRel
  <2> QED
    BY NatLessThanWellFounded, WFMin
<1>2. ASSUME NEW y \in T PROVE x <= y
  <2>1. <<y, x>> \in Nat \X Nat /\ ~(y < x)
    BY <1>1 DEF OpToRel
  <2> QED
    BY <2>1
<1> QED
  BY <1>2

-----------------------------------------------------------------------------
(* Buckets *)

Shifts(f, n) == f \in [0..n -> Nat] /\ \A m \in 0..n : f[m] = IF m = 0 THEN 1 ELSE 2 * f[m \div 2]

LEMMA Halves == \A m \in Nat \ {0} : m \div 2 \in Nat /\ m \div 2 < m /\ m <= 2 * (m \div 2) + 1 /\ 2 * (m \div 2) <= m
  OBVIOUS

\* The recursion of Shifted is defined up to any number ...
LEMMA ShiftsExist == \A n \in Nat : \E f : Shifts(f, n)
<1> DEFINE T == {n \in Nat : ~ \E f : Shifts(f, n)}
<1> SUFFICES ASSUME T # {} PROVE FALSE
  OBVIOUS
<1>1. PICK n \in T : \A m \in T : n <= m
  <2> HIDE DEF T
  <2>1. T \subseteq Nat
    BY DEF T
  <2> QED
    BY <2>1, Least
<1>2. CASE n = 0
  <2>1. Shifts([m \in 0..0 |-> 1], 0)
    BY DEF Shifts
  <2> QED
    BY <1>2, <2>1
<1>3. CASE n # 0
  <2>1. n - 1 \in Nat /\ n - 1 \notin T
    BY <1>1, <1>3
  <2>2. PICK f : Shifts(f, n - 1)
    BY <2>1
  <2> DEFINE g == [m \in 0..n |-> IF m < n THEN f[m] ELSE 2 * f[n \div 2]]
  <2>3. n \div 2 \in 0..(n - 1)
    BY <1>3, Halves
  <2>4. g \in [0..n -> Nat]
    BY <2>2, <2>3 DEF Shifts
  <2>5. ASSUME NEW m \in 0..n PROVE g[m] = IF m = 0 THEN 1 ELSE 2 * g[m \div 2]
    <3>1. CASE m = 0
      BY <2>2, <1>3, <2>1, <3>1 DEF Shifts
    <3>2. CASE m # 0
      <4>1. m \div 2 \in 0..(m - 1)
        BY <3>2, Halves
      <4>2. g[m \div 2] = f[m \div 2]
        BY <4>1
      <4>3. CASE m = n
        BY <4>2, <4>3, <1>3
      <4>4. CASE m # n
        BY <4>2, <4>4, <2>2, <3>2 DEF Shifts
      <4> QED
        BY <4>3, <4>4
    <3> QED
      BY <3>1, <3>2
  <2>6. Shifts(g, n)
    <3> HIDE DEF g
    <3> QED
      BY <2>4, <2>5 DEF Shifts
  <2> QED
    BY <2>6
<1> QED
  BY <1>2, <1>3

\* ... in one way.
LEMMA ShiftsUnique ==
  ASSUME NEW n \in Nat, NEW k \in Nat, NEW f, NEW g, Shifts(f, n), Shifts(g, k)
  PROVE  \A m \in Nat : m <= n /\ m <= k => f[m] = g[m]
<1> DEFINE T == {m \in Nat : m <= n /\ m <= k /\ f[m] # g[m]}
<1> SUFFICES ASSUME T # {} PROVE FALSE
  OBVIOUS
<1>1. PICK m \in T : \A l \in T : m <= l
  <2> HIDE DEF T
  <2>1. T \subseteq Nat
    BY DEF T
  <2> QED
    BY <2>1, Least
<1>2. m # 0
  BY <1>1 DEF Shifts
<1>3. m \div 2 \in Nat /\ m \div 2 < m
  BY <1>2, Halves
<1>4. f[m \div 2] = g[m \div 2]
  BY <1>1, <1>3
<1> QED
  BY <1>2, <1>4 DEF Shifts

LEMMA ShiftedDef ==
  Shifted \in [Nat -> Nat] /\ \A n \in Nat : Shifted[n] = IF n = 0 THEN 1 ELSE 2 * Shifted[n \div 2]
<1> DEFINE A(n) == CHOOSE f : Shifts(f, n)
           F == [n \in Nat |-> A(n)[n]]
<1>1. \A n \in Nat : Shifts(A(n), n)
  BY ShiftsExist
<1>2. F \in [Nat -> Nat]
  <2> HIDE DEF A
  <2> QED
    BY <1>1 DEF Shifts
<1>3. ASSUME NEW n \in Nat PROVE F[n] = IF n = 0 THEN 1 ELSE 2 * F[n \div 2]
  <2> HIDE DEF A
  <2>1. CASE n = 0
    BY <1>1, <2>1 DEF Shifts
  <2>2. CASE n # 0
    <3>1. n \div 2 \in Nat /\ n \div 2 < n
      BY <2>2, Halves
    <3>2. A(n)[n \div 2] = A(n \div 2)[n \div 2]
      BY <1>1, <3>1, ShiftsUnique
    <3>3. A(n)[n] = 2 * A(n)[n \div 2]
      <4>1. Shifts(A(n), n)
        BY <1>1
      <4>2. n \in 0..n
        OBVIOUS
      <4> QED
        BY <4>1, <4>2, <2>2 DEF Shifts
    <3> QED
      BY <3>1, <3>2, <3>3, <2>2
  <2> QED
    BY <2>1, <2>2
<1>4. F = [n \in Nat |-> IF n = 0 THEN 1 ELSE 2 * F[n \div 2]]
  <2> HIDE DEF F
  <2>1. F = [n \in Nat |-> F[n]]
    BY <1>2
  <2> QED
    BY <1>3, <2>1
<1>5. Shifted = [n \in Nat |-> IF n = 0 THEN 1 ELSE 2 * Shifted[n \div 2]]
  <2> HIDE DEF F
  <2> QED
    BY <1>4 DEF Shifted
<1>6. ASSUME NEW n \in Nat PROVE Shifted[n] = IF n = 0 THEN 1 ELSE 2 * Shifted[n \div 2]
  BY <1>5
<1>7. \A n \in Nat : Shifted[n] \in Nat
  <2> DEFINE T == {n \in Nat : Shifted[n] \notin Nat}
  <2> SUFFICES ASSUME T # {} PROVE FALSE
    OBVIOUS
  <2>1. PICK m \in T : \A l \in T : m <= l
    <3> HIDE DEF T
    <3>1. T \subseteq Nat
      BY DEF T
    <3> QED
      BY <3>1, Least
  <2>2. m # 0
    BY <1>6, <2>1
  <2>3. m \div 2 \in Nat /\ m \div 2 < m
    BY <2>2, Halves
  <2>4. Shifted[m \div 2] \in Nat
    BY <2>1, <2>3
  <2> QED
    BY <1>6, <2>2, <2>4
<1> QED
  BY <1>5, <1>6, <1>7

\* n has no more bits than its doublings need, and no fewer.
LEMMA ShiftedBounds == \A n \in Nat : n < Shifted[n] /\ (n # 0 => Shifted[n] <= 2 * n)
<1> DEFINE T == {n \in Nat : ~(n < Shifted[n] /\ (n # 0 => Shifted[n] <= 2 * n))}
<1> SUFFICES ASSUME T # {} PROVE FALSE
  OBVIOUS
<1>1. PICK n \in T : \A m \in T : n <= m
  <2> HIDE DEF T
  <2>1. T \subseteq Nat
    BY DEF T
  <2> QED
    BY <2>1, Least
<1>2. n # 0
  BY <1>1, ShiftedDef
<1> DEFINE h == n \div 2
<1>3. h \in Nat /\ h < n /\ n <= 2 * h + 1 /\ 2 * h <= n
  BY <1>2, Halves
<1>4. h \notin T
  BY <1>1, <1>3
<1>5. Shifted[h] \in Nat /\ Shifted[n] = 2 * Shifted[h] /\ (h = 0 => Shifted[h] = 1)
  BY <1>2, <1>3, ShiftedDef
<1> HIDE DEF h
<1>6. h < Shifted[h] /\ (h # 0 => Shifted[h] <= 2 * h)
  BY <1>3, <1>4
<1>7. n < Shifted[n] /\ Shifted[n] <= 2 * n
  BY <1>3, <1>5, <1>6, <1>2
<1> QED
  BY <1>1, <1>7

\* A bucket holds the rows, and is not as wide as twice the rows.
LEMMA BucketBounds ==
  ASSUME NEW rows \in Nat
  PROVE  /\ Bucket(rows) \in Nat \ {0} /\ rows <= Bucket(rows)
         /\ rows = 0 => Bucket(rows) = 2
         /\ rows # 0 => Bucket(rows) < 2 * rows
<1>1. CASE rows = 0
  BY <1>1 DEF Bucket
<1>2. CASE rows # 0
  <2>1. rows - 1 \in Nat
    BY <1>2
  <2>2. Shifted[rows - 1] \in Nat /\ rows - 1 < Shifted[rows - 1]
        /\ (rows - 1 # 0 => Shifted[rows - 1] <= 2 * (rows - 1)) /\ Shifted[0] = 1
    BY <2>1, ShiftedDef, ShiftedBounds
  <2> QED
    BY <1>2, <2>1, <2>2 DEF Bucket
<1> QED
  BY <1>1, <1>2

-----------------------------------------------------------------------------
(* Concatenation *)

Flattens(f, seqs) ==
  f = [i \in 1..Len(seqs) |-> IF i = 1 THEN seqs[i] ELSE f[i - 1] \o seqs[i]]

Begins(s, t) ==
  Len(s) \in Nat /\ Len(t) \in Nat /\ Len(s) <= Len(t) /\ \A i \in 1..Len(s) : s[i] = t[i]

\* What concatenates a beginning agrees with what concatenates the whole.
LEMMA FlattensUnique ==
  ASSUME NEW s, NEW t, NEW f, NEW g, Flattens(f, s), Flattens(g, t), Begins(s, t)
  PROVE  \A i \in 1..Len(s) : f[i] = g[i]
<1> DEFINE T == {i \in 1..Len(s) : f[i] # g[i]}
<1> SUFFICES ASSUME T # {} PROVE FALSE
  OBVIOUS
<1>1. PICK i \in T : \A j \in T : i <= j
  <2> HIDE DEF T
  <2>1. T \subseteq Nat
    BY DEF T, Begins
  <2> QED
    BY <2>1, Least
<1>2. i \in 1..Len(s) /\ i \in 1..Len(s) /\ i \in 1..Len(t) /\ s[i] = t[i]
  BY <1>1 DEF Begins
<1>3. f[i] = IF i = 1 THEN s[i] ELSE f[i - 1] \o s[i]
  BY <1>2 DEF Flattens
<1>4. g[i] = IF i = 1 THEN t[i] ELSE g[i - 1] \o t[i]
  BY <1>2 DEF Flattens
<1>5. i # 1
  BY <1>1, <1>2, <1>3, <1>4
<1>6. i - 1 \in 1..Len(s) /\ i - 1 \notin T
  BY <1>1, <1>2, <1>5 DEF Begins
<1> QED
  BY <1>1, <1>2, <1>3, <1>4, <1>5, <1>6

LEMMA FlattensAgree ==
  ASSUME NEW s, NEW t, NEW f, NEW g, Flattens(f, s), Flattens(g, t), Begins(s, t),
         Len(s) \in 1..Len(s)
  PROVE  f[Len(s)] = g[Len(s)]
  BY FlattensUnique

\* They exist.
LEMMA FlattensExist ==
  ASSUME NEW S
  PROVE  \A n \in Nat : \A s \in [1..n -> Seq(S)] : \E f \in [1..n -> Seq(S)] : Flattens(f, s)
<1> DEFINE P(n) == \A s \in [1..n -> Seq(S)] : \E f \in [1..n -> Seq(S)] : Flattens(f, s)
           T == {n \in Nat : ~ P(n)}
<1> SUFFICES ASSUME T # {} PROVE FALSE
  OBVIOUS
<1>1. PICK n \in T : \A m \in T : n <= m
  <2> HIDE DEF T
  <2>1. T \subseteq Nat
    BY DEF T
  <2> QED
    BY <2>1, Least
<1>2. PICK s \in [1..n -> Seq(S)] : ~ \E f \in [1..n -> Seq(S)] : Flattens(f, s)
  BY <1>1
<1>3. n \in Nat /\ Len(s) = n
  BY <1>1
<1>4. CASE n = 0
  <2> DEFINE f == [i \in 1..0 |-> IF i = 1 THEN s[i] ELSE <<>>]
  <2>1. f \in [1..n -> Seq(S)] /\ Flattens(f, s)
    BY <1>3, <1>4 DEF Flattens
  <2> QED
    BY <1>2, <2>1
<1>5. CASE n # 0
  <2>1. n - 1 \in Nat /\ n - 1 \notin T
    <3> HIDE DEF P
    <3> QED
      BY <1>1, <1>3, <1>5
  <2> DEFINE r == [i \in 1..(n - 1) |-> s[i]]
  <2>2. r \in [1..(n - 1) -> Seq(S)]
    BY <1>3
  <2>3. PICK e \in [1..(n - 1) -> Seq(S)] : Flattens(e, r)
    BY <2>1, <2>2
  <2>4. Len(r) = n - 1
    BY <2>1, <2>2
  <2>5. \A i \in 1..(n - 1) : e[i] = IF i = 1 THEN s[i] ELSE e[i - 1] \o s[i]
    BY <2>3, <2>4 DEF Flattens
  <2> DEFINE last == IF n = 1 THEN s[n] ELSE e[n - 1] \o s[n]
             f == [i \in 1..n |-> IF i < n THEN e[i] ELSE last]
  <2>6. last \in Seq(S)
    <3>1. CASE n = 1
      BY <3>1, <1>3
    <3>2. CASE n # 1
      <4>1. e[n - 1] \in Seq(S) /\ s[n] \in Seq(S)
        BY <3>2, <1>3, <1>5, <2>3
      <4>2. e[n - 1] \o s[n] \in Seq(S)
        BY <4>1, ConcatProperties
      <4> QED
        BY <3>2, <4>2
    <3> QED
      BY <3>1, <3>2
  <2>7. f \in [1..n -> Seq(S)]
    <3> HIDE DEF last
    <3> QED
      BY <1>3, <2>3, <2>6
  <2>8. ASSUME NEW i \in 1..n PROVE f[i] = IF i = 1 THEN s[i] ELSE f[i - 1] \o s[i]
    <3>1. CASE i < n
      <4>1. i \in 1..(n - 1) /\ f[i] = e[i] /\ (i # 1 => f[i - 1] = e[i - 1])
        BY <3>1, <1>3
      <4> QED
        BY <4>1, <2>5
    <3>2. CASE i = n
      <4>1. f[i] = last /\ (i # 1 => f[i - 1] = e[i - 1])
        BY <3>2, <1>3
      <4> QED
        BY <4>1, <3>2
    <3> QED
      BY <3>1, <3>2, <1>3
  <2>9. Flattens(f, s)
    <3> HIDE DEF f
    <3>1. f = [i \in 1..n |-> f[i]]
      BY <2>7
    <3> QED
      BY <3>1, <2>8, <1>3 DEF Flattens
  <2> QED
    BY <1>2, <2>7, <2>9
<1> QED
  BY <1>4, <1>5

LEMMA FlattenDef ==
  ASSUME NEW S, NEW s \in Seq(Seq(S)), s # <<>>
  PROVE  \E f \in [1..Len(s) -> Seq(S)] : Flattens(f, s) /\ FlattenSeq(s) = f[Len(s)]
<1>1. Len(s) \in Nat /\ Len(s) # 0 /\ s \in [1..Len(s) -> Seq(S)]
  BY EmptySeq, LenProperties
<1>2. PICK e \in [1..Len(s) -> Seq(S)] : Flattens(e, s)
  BY <1>1, FlattensExist
<1> DEFINE f == CHOOSE f : Flattens(f, s)
<1>3. Flattens(f, s)
  BY <1>2
<1>4. FlattenSeq(s) = f[Len(s)]
  BY <1>1 DEF FlattenSeq, Flattens
<1> HIDE DEF f
<1>5. \A i \in 1..Len(s) : f[i] = e[i]
  BY <1>1, <1>2, <1>3, FlattensUnique DEF Begins
<1>6. FlattenSeq(s) = e[Len(s)]
  BY <1>1, <1>4, <1>5
<1> QED
  BY <1>2, <1>6

LEMMA FlattenEmpty == FlattenSeq(<<>>) = <<>>
  BY DEF FlattenSeq

LEMMA FlattenType ==
  ASSUME NEW S, NEW s \in Seq(Seq(S))
  PROVE  FlattenSeq(s) \in Seq(S)
<1>1. CASE s = <<>>
  BY <1>1, FlattenEmpty, EmptySeq
<1>2. CASE s # <<>>
  <2>1. PICK f \in [1..Len(s) -> Seq(S)] : FlattenSeq(s) = f[Len(s)]
    BY <1>2, FlattenDef
  <2>2. Len(s) \in 1..Len(s)
    BY <1>2, EmptySeq
  <2>3. f[Len(s)] \in Seq(S)
    BY <2>1, <2>2
  <2> QED
    BY <2>1, <2>3
<1> QED
  BY <1>1, <1>2

\* The last sequence comes last.
LEMMA FlattenLast ==
  ASSUME NEW S, NEW s \in Seq(Seq(S)), NEW t \in Seq(Seq(S)),
         Len(t) = Len(s) + 1, \A i \in 1..Len(s) : s[i] = t[i]
  PROVE  FlattenSeq(t) = FlattenSeq(s) \o t[Len(t)]
<1>1. Len(s) \in Nat /\ Len(t) \in Nat /\ t # <<>>
  BY LenProperties, EmptySeq
<1>2. PICK g \in [1..Len(t) -> Seq(S)] : Flattens(g, t) /\ FlattenSeq(t) = g[Len(t)]
  BY <1>1, FlattenDef
<1>3. g[Len(t)] = IF Len(t) = 1 THEN t[Len(t)] ELSE g[Len(t) - 1] \o t[Len(t)]
  <2>1. Len(t) \in 1..Len(t)
    BY <1>1
  <2> QED
    BY <1>2, <2>1 DEF Flattens
<1>4. t[Len(t)] \in Seq(S)
  BY <1>1
<1>5. CASE s = <<>>
  <2>1. Len(t) = 1
    BY <1>5
  <2>2. <<>> \o t[Len(t)] = t[Len(t)]
    BY <1>4, ConcatEmptySeq
  <2> QED
    BY <1>2, <1>3, <1>5, <2>1, <2>2, FlattenEmpty
<1>6. CASE s # <<>>
  <2>1. PICK f \in [1..Len(s) -> Seq(S)] : Flattens(f, s) /\ FlattenSeq(s) = f[Len(s)]
    BY <1>6, FlattenDef
  <2>2. Len(s) \in 1..Len(s) /\ Len(t) # 1 /\ Len(t) - 1 = Len(s) /\ Len(s) <= Len(t)
    BY <1>1, <1>6, EmptySeq
  <2>3. f[Len(s)] = g[Len(s)]
    <3>1. Flattens(f, s) /\ Flattens(g, t)
      BY <1>2, <2>1
    <3>2. Begins(s, t)
      BY <1>1, <2>2 DEF Begins
    <3> QED
      BY <2>2, <3>1, <3>2, FlattensAgree
  <2> QED
    BY <1>2, <1>3, <2>1, <2>2, <2>3
<1> QED
  BY <1>5, <1>6

-----------------------------------------------------------------------------
(* Collate and split *)

Token == Nat \X Nat \X Nat
Row == Token \X Token

RequestTypes == requests \in Seq(Nat \X Nat) /\ served \in Nat
Asked == 1..Len(requests)

Arrays(set, side) == [k \in 1..Len(set) |-> Tokens(set[k], requests[set[k]][side])]

LEMMA RowCounts == ASSUME RequestTypes PROVE \A i \in Asked, side \in {1, 2} : requests[i][side] \in Nat
<1>1. \A i \in Asked : requests[i] \in Nat \X Nat
  BY DEF RequestTypes, Asked
<1> QED
  BY <1>1

LEMMA TokensType ==
  ASSUME RequestTypes, NEW i \in Asked, NEW count \in Nat
  PROVE  Tokens(i, count) \in Seq(Token) /\ Len(Tokens(i, count)) = count
<1>1. i \in Nat
  BY DEF Asked
<1>2. \A j \in 1..count : <<served, i, j>> \in Token
  BY <1>1 DEF Token, RequestTypes
<1> QED
  BY <1>2 DEF Tokens

LEMMA ArraysType ==
  ASSUME RequestTypes, NEW set \in Seq(Asked), NEW side \in {1, 2}
  PROVE  /\ Arrays(set, side) \in Seq(Seq(Token))
         /\ Len(Arrays(set, side)) = Len(set)
         /\ \A k \in 1..Len(set) : Arrays(set, side)[k] = Tokens(set[k], requests[set[k]][side])
         /\ Column(set, side) = FlattenSeq(Arrays(set, side))
         /\ Column(set, side) \in Seq(Token)
<1>1. ASSUME NEW k \in 1..Len(set) PROVE Tokens(set[k], requests[set[k]][side]) \in Seq(Token)
  <2>1. set[k] \in Asked
    OBVIOUS
  <2>2. requests[set[k]][side] \in Nat
    BY <2>1, RowCounts
  <2> QED
    BY <2>1, <2>2, TokensType
<1>2. Len(set) \in Nat
  BY LenProperties
<1>3. Arrays(set, side) \in Seq(Seq(Token)) /\ Len(Arrays(set, side)) = Len(set)
  BY <1>1, <1>2 DEF Arrays
<1>4. Column(set, side) = FlattenSeq(Arrays(set, side))
  BY DEF Column, Arrays
<1>5. Column(set, side) \in Seq(Token)
  BY <1>3, <1>4, FlattenType
<1> QED
  BY <1>3, <1>4, <1>5 DEF Arrays

LEMMA ColumnLast ==
  ASSUME RequestTypes, NEW set \in Seq(Asked), NEW pre \in Seq(Asked), NEW side \in {1, 2},
         Len(set) = Len(pre) + 1, \A k \in 1..Len(pre) : pre[k] = set[k]
  PROVE  Column(set, side) = Column(pre, side)
                               \o Tokens(set[Len(set)], requests[set[Len(set)]][side])
<1>1. Len(pre) \in Nat /\ Len(set) \in 1..Len(set) /\ \A k \in 1..Len(pre) : k \in 1..Len(set)
  BY LenProperties
<1>2. \A k \in 1..Len(pre) : Arrays(pre, side)[k] = Arrays(set, side)[k]
  <2>1. \A k \in 1..Len(pre) : Arrays(pre, side)[k] = Tokens(pre[k], requests[pre[k]][side])
    BY ArraysType
  <2>2. \A k \in 1..Len(set) : Arrays(set, side)[k] = Tokens(set[k], requests[set[k]][side])
    BY ArraysType
  <2> QED
    BY <1>1, <2>1, <2>2
<1>3. FlattenSeq(Arrays(set, side)) =
        FlattenSeq(Arrays(pre, side)) \o Arrays(set, side)[Len(Arrays(set, side))]
  <2>1. Arrays(set, side) \in Seq(Seq(Token)) /\ Arrays(pre, side) \in Seq(Seq(Token))
        /\ Len(Arrays(set, side)) = Len(Arrays(pre, side)) + 1
    BY ArraysType
  <2>2. \A k \in 1..Len(Arrays(pre, side)) : Arrays(pre, side)[k] = Arrays(set, side)[k]
    BY <1>2, ArraysType
  <2> QED
    BY <2>1, <2>2, FlattenLast
<1>4. Arrays(set, side)[Len(Arrays(set, side))] = Tokens(set[Len(set)], requests[set[Len(set)]][side])
  <2>1. \A k \in 1..Len(set) : Arrays(set, side)[k] = Tokens(set[k], requests[set[k]][side])
    BY ArraysType
  <2>2. Len(Arrays(set, side)) = Len(set)
    BY ArraysType
  <2> QED
    BY <1>1, <2>1, <2>2
<1>5. Column(set, side) = FlattenSeq(Arrays(set, side)) /\ Column(pre, side) = FlattenSeq(Arrays(pre, side))
  BY ArraysType
<1> QED
  BY <1>3, <1>4, <1>5

LEMMA ColumnEmpty == ASSUME NEW side PROVE Column(<<>>, side) = <<>>
<1>1. Arrays(<<>>, side) = <<>>
  BY DEF Arrays
<1> QED
  BY <1>1, FlattenEmpty DEF Column, Arrays

\* The first n requests, and the rows of them.
First(n) == SubSeq(Everyone, 1, n)
Offset(n) == Len(Column(First(n), 1))

LEMMA FirstType ==
  ASSUME RequestTypes, NEW n \in 0..Len(requests)
  PROVE  /\ First(n) \in Seq(Asked) /\ Len(First(n)) = n
         /\ \A k \in 1..n : First(n)[k] = k
         /\ First(Len(requests)) = Everyone /\ Everyone \in Seq(Asked) /\ Len(Everyone) = Len(requests)
<1>1. Len(requests) \in Nat
  BY DEF RequestTypes
<1>2. Everyone \in Seq(Asked) /\ Len(Everyone) = Len(requests)
      /\ \A k \in 1..Len(requests) : Everyone[k] = k
  BY <1>1 DEF Everyone, Asked
<1>3. First(n) \in Seq(Asked) /\ Len(First(n)) = n /\ \A k \in 1..n : First(n)[k] = k
  <2>1. n \in Int /\ 1 \in Int /\ \A i \in 1..n : Everyone[i] \in Asked /\ Everyone[i] = i
    BY <1>1, <1>2 DEF Asked
  <2>2. /\ First(n) \in Seq(Asked)
        /\ Len(First(n)) = IF 1 <= n THEN n - 1 + 1 ELSE 0
        /\ \A i \in 1..n-1+1 : First(n)[i] = Everyone[1 + i - 1]
    BY <2>1, SubSeqProperties DEF First
  <2> QED
    BY <2>1, <2>2, <1>1
<1>4. First(Len(requests)) = Everyone
  BY <1>2, SubSeqFull DEF First
<1> QED
  BY <1>2, <1>3, <1>4

LEMMA OffsetStep ==
  ASSUME RequestTypes, NEW n \in Asked, NEW side \in {1, 2}
  PROVE  Column(First(n), side) = Column(First(n - 1), side) \o Tokens(n, requests[n][side])
<1>1. n \in 0..Len(requests) /\ n - 1 \in 0..Len(requests) /\ n \in 1..n
      /\ \A k \in 1..(n - 1) : k \in 1..n
  BY DEF Asked, RequestTypes
<1>2. First(n) \in Seq(Asked) /\ First(n - 1) \in Seq(Asked) /\ Len(First(n)) = n
      /\ Len(First(n - 1)) = n - 1 /\ First(n)[n] = n
      /\ \A k \in 1..(n - 1) : First(n - 1)[k] = First(n)[k]
  BY <1>1, FirstType
<1>3. Len(First(n)) = Len(First(n - 1)) + 1
  BY <1>1, <1>2
<1> QED
  BY <1>2, <1>3, ColumnLast

LEMMA Offsets ==
  ASSUME RequestTypes
  PROVE  /\ Offset(0) = 0
         /\ \A n \in 0..Len(requests) : Offset(n) \in Nat
         /\ \A n \in Asked : Offset(n) = Offset(n - 1) + requests[n][1]
<1>1. Offset(0) = 0
  <2>1. First(0) = <<>>
    BY SubSeqEmpty DEF First
  <2> QED
    BY <2>1, ColumnEmpty DEF Offset
<1>2. ASSUME NEW n \in 0..Len(requests), NEW side \in {1, 2} PROVE Column(First(n), side) \in Seq(Token)
  BY FirstType, ArraysType
<1>3. \A n \in 0..Len(requests) : Offset(n) \in Nat
  BY <1>2, LenProperties DEF Offset
<1>4. ASSUME NEW n \in Asked PROVE Offset(n) = Offset(n - 1) + requests[n][1]
  <2>1. n - 1 \in 0..Len(requests)
    BY DEF Asked, RequestTypes
  <2>2. Column(First(n - 1), 1) \in Seq(Token)
    BY <2>1, <1>2
  <2>3. Tokens(n, requests[n][1]) \in Seq(Token) /\ Len(Tokens(n, requests[n][1])) = requests[n][1]
    BY RowCounts, TokensType
  <2> QED
    BY <2>2, <2>3, OffsetStep, ConcatProperties DEF Offset
<1> QED
  BY <1>1, <1>3, <1>4

\* The rows of a request, counted from its offset, are in the batch.
LEMMA OffsetsGrow ==
  ASSUME RequestTypes
  PROVE  \A n \in 0..Len(requests) : \A m \in 0..n : Offset(m) <= Offset(n)
<1> DEFINE T == {n \in 0..Len(requests) : ~ \A m \in 0..n : Offset(m) <= Offset(n)}
<1> SUFFICES ASSUME T # {} PROVE FALSE
  OBVIOUS
<1>1. Len(requests) \in Nat
  BY DEF RequestTypes
<1>2. PICK n \in T : \A m \in T : n <= m
  <2> HIDE DEF T
  <2>1. T \subseteq Nat
    BY <1>1 DEF T
  <2> QED
    BY <2>1, Least
<1>3. n \in 0..Len(requests) /\ \A k \in 0..Len(requests) : Offset(k) \in Nat
  BY <1>2, Offsets
<1>4. n # 0
  <2>1. \A m \in 0..0 : m = 0
    OBVIOUS
  <2>2. Offset(0) <= Offset(0)
    BY Offsets
  <2> QED
    BY <1>2, <2>1, <2>2
<1>5. n \in Asked /\ n - 1 \in 0..Len(requests) /\ n - 1 \notin T /\ requests[n][1] \in Nat
  <2>1. n \in Asked /\ n - 1 \in 0..Len(requests)
    BY <1>1, <1>3, <1>4 DEF Asked
  <2>2. n - 1 \notin T
    <3> HIDE DEF T
    <3> QED
      BY <1>2, <1>3
  <2> QED
    BY <2>1, <2>2, RowCounts
<1>6. \A m \in 0..(n - 1) : Offset(m) <= Offset(n - 1)
  BY <1>5
<1>7. Offset(n) = Offset(n - 1) + requests[n][1]
  BY <1>5, Offsets
<1>8. ASSUME NEW m \in 0..n PROVE Offset(m) <= Offset(n)
  <2>1. CASE m = n
    BY <1>3, <2>1
  <2>2. CASE m # n
    <3>1. m \in 0..(n - 1) /\ m \in 0..Len(requests)
      BY <1>1, <1>3, <2>2
    <3>2. Offset(m) \in Nat /\ Offset(n - 1) \in Nat /\ Offset(m) <= Offset(n - 1)
      BY <1>3, <1>5, <1>6, <3>1
    <3> QED
      BY <1>5, <1>7, <3>2
  <2> QED
    BY <2>1, <2>2
<1> QED
  BY <1>2, <1>8

LEMMA Pieces ==
  ASSUME RequestTypes
  PROVE  \A n \in 0..Len(requests) : \A i \in 1..n : \A j \in 1..requests[i][1] :
           Column(First(n), 1)[Offset(i - 1) + j] = <<served, i, j>>
<1> DEFINE P(n) == \A i \in 1..n : \A j \in 1..requests[i][1] :
                     Column(First(n), 1)[Offset(i - 1) + j] = <<served, i, j>>
           T == {n \in 0..Len(requests) : ~ P(n)}
<1> SUFFICES ASSUME T # {} PROVE FALSE
  OBVIOUS
<1>1. Len(requests) \in Nat
  BY DEF RequestTypes
<1>2. PICK n \in T : \A m \in T : n <= m
  <2> HIDE DEF T
  <2>1. T \subseteq Nat
    BY <1>1 DEF T
  <2> QED
    BY <2>1, Least
<1>3. n \in 0..Len(requests) /\ ~ P(n)
  BY <1>2
<1>4. n # 0
  BY <1>3
<1>5. n \in Asked /\ n - 1 \in 0..Len(requests)
  BY <1>1, <1>3, <1>4 DEF Asked
<1>6. P(n - 1)
  <2>1. n - 1 \notin T
    <3> HIDE DEF T
    <3> QED
      BY <1>2, <1>3
  <2> QED
    BY <1>5, <2>1
<1> HIDE DEF T
<1> DEFINE before == Column(First(n - 1), 1)
           mine == Tokens(n, requests[n][1])
<1>7. Column(First(n), 1) = before \o mine
  BY <1>5, OffsetStep
<1>8. before \in Seq(Token) /\ mine \in Seq(Token) /\ Len(mine) = requests[n][1]
  BY <1>5, FirstType, ArraysType, RowCounts, TokensType
<1>9. Len(before) = Offset(n - 1) /\ \A k \in 0..Len(requests) : Offset(k) \in Nat
  BY Offsets DEF Offset
<1>10. ASSUME NEW i \in 1..n, NEW j \in 1..requests[i][1]
       PROVE  Column(First(n), 1)[Offset(i - 1) + j] = <<served, i, j>>
  <2>1. i \in Asked /\ i - 1 \in 0..Len(requests) /\ requests[i][1] \in Nat
    BY <1>1, <1>3, RowCounts DEF Asked
  <2>2. Offset(i) = Offset(i - 1) + requests[i][1] /\ Offset(i - 1) \in Nat
    BY <2>1, Offsets
  <2> DEFINE p == Offset(i - 1) + j
  <2>3. p \in Nat /\ p >= 1 /\ p <= Offset(i) /\ p > Offset(i - 1)
    BY <2>1, <2>2
  <2>4. CASE i = n
    <3>1. p \in 1..(Len(before) + Len(mine)) /\ ~(p <= Len(before)) /\ p - Len(before) = j
      BY <1>8, <1>9, <2>1, <2>2, <2>3, <2>4
    <3>2. (before \o mine)[p] = mine[j]
      BY <1>8, <3>1, ConcatProperties
    <3>3. mine[j] = <<served, n, j>>
      BY <2>4 DEF Tokens
    <3> QED
      BY <1>7, <2>4, <3>2, <3>3
  <2>5. CASE i # n
    <3>1. i \in 1..(n - 1)
      BY <1>3, <2>5
    <3>2. Offset(i) <= Offset(n - 1) /\ i \in 0..(n - 1)
      BY <1>5, <3>1, OffsetsGrow
    <3>3. p \in 1..(Len(before) + Len(mine)) /\ p <= Len(before)
      <4>1. Len(mine) \in Nat
        BY <1>8, LenProperties
      <4>2. Offset(i) \in Nat /\ Offset(n - 1) \in Nat
        BY <1>5, <1>9, <2>1, <2>2
      <4> QED
        BY <1>9, <2>3, <3>2, <4>1, <4>2
    <3>4. (before \o mine)[p] = before[p]
      BY <1>8, <3>3, ConcatProperties
    <3> QED
      BY <1>6, <1>7, <3>1, <3>4
  <2> QED
    BY <2>4, <2>5
<1> QED
  BY <1>3, <1>10

LEMMA Located ==
  ASSUME RequestTypes
  PROVE  \A n \in 0..Len(requests) : \A p \in 1..Offset(n) :
           \E i \in 1..n : \E j \in 1..requests[i][1] : p = Offset(i - 1) + j
<1> DEFINE P(n) == \A p \in 1..Offset(n) :
                     \E i \in 1..n : \E j \in 1..requests[i][1] : p = Offset(i - 1) + j
           T == {n \in 0..Len(requests) : ~ P(n)}
<1> SUFFICES ASSUME T # {} PROVE FALSE
  OBVIOUS
<1>1. Len(requests) \in Nat
  BY DEF RequestTypes
<1>2. PICK n \in T : \A m \in T : n <= m
  <2> HIDE DEF T
  <2>1. T \subseteq Nat
    BY <1>1 DEF T
  <2> QED
    BY <2>1, Least
<1>3. n \in 0..Len(requests) /\ ~ P(n)
  BY <1>2
<1>4. n # 0
  <2>1. Offset(0) = 0
    BY Offsets
  <2> QED
    BY <1>3, <2>1
<1>5. n \in Asked /\ n - 1 \in 0..Len(requests)
  BY <1>1, <1>3, <1>4 DEF Asked
<1>6. P(n - 1)
  <2>1. n - 1 \notin T
    <3> HIDE DEF T
    <3> QED
      BY <1>2, <1>3
  <2> QED
    BY <1>5, <2>1
<1> HIDE DEF T
<1>7. Offset(n) = Offset(n - 1) + requests[n][1] /\ Offset(n - 1) \in Nat /\ requests[n][1] \in Nat
  BY <1>5, Offsets, RowCounts
<1>8. ASSUME NEW p \in 1..Offset(n)
      PROVE  \E i \in 1..n : \E j \in 1..requests[i][1] : p = Offset(i - 1) + j
  <2>1. CASE p <= Offset(n - 1)
    <3>1. p \in 1..Offset(n - 1)
      BY <1>7, <2>1
    <3>2. PICK i \in 1..(n - 1) : \E j \in 1..requests[i][1] : p = Offset(i - 1) + j
      BY <1>6, <3>1
    <3>3. i \in 1..n
      BY <1>3
    <3> QED
      BY <3>2, <3>3
  <2>2. CASE ~(p <= Offset(n - 1))
    <3>1. p - Offset(n - 1) \in 1..requests[n][1] /\ p = Offset(n - 1) + (p - Offset(n - 1)) /\ n \in 1..n
      BY <1>5, <1>7, <2>2 DEF Asked
    <3> QED
      BY <3>1
  <2> QED
    BY <2>1, <2>2
<1> QED
  BY <1>3, <1>8

Twin(i, j) == <<<<served, i, j>>, <<served, i, j>>>>
OwnRows(i) == [j \in 1..RowsIn(i) |-> Twin(i, j)]
Total == Offset(Len(requests))

LEMMA TwinType ==
  ASSUME RequestTypes, NEW i \in Asked, NEW j \in 1..RowsIn(i)
  PROVE  Twin(i, j) \in Row
<1>1. i \in Nat /\ j \in Nat
  BY RowCounts DEF Asked, RowsIn
<1> QED
  BY <1>1 DEF Twin, Row, Token, RequestTypes

LEMMA OwnRowsType ==
  ASSUME RequestTypes, NEW i \in Asked
  PROVE  /\ RowsIn(i) \in Nat /\ OwnRows(i) \in Seq(Row) /\ Len(OwnRows(i)) = RowsIn(i)
         /\ \A j \in 1..RowsIn(i) : OwnRows(i)[j] = Twin(i, j)
<1>1. RowsIn(i) \in Nat
  BY RowCounts DEF RowsIn
<1> QED
  BY <1>1, TwinType DEF OwnRows

\* Arrays that agree are concatenated alike.
LEMMA ColumnsAgree ==
  ASSUME RowsAgree, NEW set \in Seq(Asked)
  PROVE  Column(set, 1) = Column(set, 2)
<1>1. \A k \in 1..Len(set) : set[k] \in Asked
  OBVIOUS
<1>2. \A k \in 1..Len(set) : requests[set[k]][1] = requests[set[k]][2]
  BY <1>1 DEF RowsAgree, Asked
<1>3. Arrays(set, 1) = Arrays(set, 2)
  BY <1>2 DEF Arrays
<1> QED
  BY <1>3 DEF Column, Arrays

LEMMA JoinedColumn ==
  ASSUME RequestTypes, RowsAgree, NEW set \in Seq(Asked)
  PROVE  /\ Joined(set) = [p \in 1..Len(Column(set, 1)) |-> <<Column(set, 1)[p], Column(set, 1)[p]>>]
         /\ Joined(set) \in Seq(Row) /\ Len(Joined(set)) = Len(Column(set, 1))
<1>1. Column(set, 1) \in Seq(Token)
  BY ArraysType
<1>2. DOMAIN Column(set, 1) = 1..Len(Column(set, 1)) /\ Len(Column(set, 1)) \in Nat
  BY <1>1, LenProperties
<1>3. Joined(set) = [p \in 1..Len(Column(set, 1)) |-> <<Column(set, 1)[p], Column(set, 1)[p]>>]
  BY <1>2, ColumnsAgree DEF Joined
<1>4. \A p \in 1..Len(Column(set, 1)) : <<Column(set, 1)[p], Column(set, 1)[p]>> \in Row
  BY <1>1 DEF Row
<1> QED
  BY <1>2, <1>3, <1>4

\* collate of all the requests: at its offset each finds its rows.
LEMMA JoinedAll ==
  ASSUME RequestTypes, RowsAgree
  PROVE  /\ Joined(Everyone) \in Seq(Row) /\ Len(Joined(Everyone)) = Total /\ Total \in Nat
         /\ \A i \in Asked : \A j \in 1..RowsIn(i) :
              Offset(i - 1) + j \in 1..Total /\ Joined(Everyone)[Offset(i - 1) + j] = Twin(i, j)
<1>1. Len(requests) \in 0..Len(requests)
  BY DEF RequestTypes
<1>2. First(Len(requests)) = Everyone /\ Everyone \in Seq(Asked)
  BY <1>1, FirstType
<1>3. Joined(Everyone) \in Seq(Row) /\ Len(Joined(Everyone)) = Total
      /\ Joined(Everyone) = [p \in 1..Total |-> <<Column(Everyone, 1)[p], Column(Everyone, 1)[p]>>]
  BY <1>2, JoinedColumn DEF Offset, Total
<1>4. Total \in Nat
  BY <1>1, Offsets DEF Total
<1>5. ASSUME NEW i \in Asked, NEW j \in 1..RowsIn(i)
      PROVE  Offset(i - 1) + j \in 1..Total /\ Joined(Everyone)[Offset(i - 1) + j] = Twin(i, j)
  <2>1. Column(Everyone, 1)[Offset(i - 1) + j] = <<served, i, j>>
    BY <1>1, <1>2, Pieces DEF Asked, RowsIn
  <2>2. Offset(i - 1) + j \in 1..Total
    <3>1. i \in 0..Len(requests) /\ i - 1 \in 0..Len(requests) /\ RowsIn(i) \in Nat
      BY RowCounts, <1>1 DEF Asked, RowsIn
    <3>2. Offset(i) <= Total /\ Offset(i) = Offset(i - 1) + RowsIn(i) /\ Offset(i - 1) \in Nat
      BY <1>1, <3>1, OffsetsGrow, Offsets DEF Total, RowsIn
    <3> QED
      BY <1>4, <3>1, <3>2
  <2> QED
    BY <1>3, <2>1, <2>2 DEF Twin
<1> QED
  BY <1>3, <1>4, <1>5

\* ... and of one.
LEMMA JoinedOne ==
  ASSUME RequestTypes, RowsAgree, NEW i \in Asked
  PROVE  Joined(<<i>>) = OwnRows(i) /\ Column(<<i>>, 1) = Tokens(i, RowsIn(i))
         /\ Len(Column(<<i>>, 1)) = RowsIn(i)
<1>1. <<i>> \in Seq(Asked) /\ <<>> \in Seq(Asked) /\ Len(<<i>>) = Len(<<>>) + 1
      /\ Len(<<i>>) = 1 /\ <<i>>[1] = i
  OBVIOUS
<1>2. Column(<<i>>, 1) = Column(<<>>, 1) \o Tokens(i, requests[i][1])
  <2> DEFINE one == <<i>>
             none == <<>>
  <2>1. one \in Seq(Asked) /\ none \in Seq(Asked) /\ Len(one) = Len(none) + 1
        /\ one[Len(one)] = i /\ \A k \in 1..Len(none) : none[k] = one[k]
    BY <1>1
  <2> HIDE DEF one, none
  <2>2. Column(one, 1) = Column(none, 1) \o Tokens(one[Len(one)], requests[one[Len(one)]][1])
    BY <2>1, ColumnLast
  <2> QED
    BY <2>1, <2>2 DEF one, none
<1>3. Tokens(i, RowsIn(i)) \in Seq(Token) /\ Len(Tokens(i, RowsIn(i))) = RowsIn(i) /\ RowsIn(i) \in Nat
  BY RowCounts, TokensType DEF RowsIn
<1>4. Column(<<i>>, 1) = Tokens(i, RowsIn(i))
  BY <1>2, <1>3, ColumnEmpty, ConcatEmptySeq DEF RowsIn
<1>5. Joined(<<i>>) = [p \in 1..RowsIn(i) |-> <<Tokens(i, RowsIn(i))[p], Tokens(i, RowsIn(i))[p]>>]
  BY <1>1, <1>3, <1>4, JoinedColumn
<1>6. \A p \in 1..RowsIn(i) : Tokens(i, RowsIn(i))[p] = <<served, i, p>>
  BY DEF Tokens
<1> QED
  BY <1>3, <1>4, <1>5, <1>6 DEF OwnRows, Twin

\* While a batch is served its rows stay.
LEMMA BatchStays ==
  ASSUME UNCHANGED <<served, requests, layouts>>
  PROVE  /\ Joined(Everyone)' = Joined(Everyone) /\ Asked' = Asked /\ Total' = Total
         /\ RowsAgree' = RowsAgree /\ RequestTypes' = RequestTypes
         /\ layout' = layout /\ SameLayout' = SameLayout
         /\ \A i : OwnRows(i)' = OwnRows(i) /\ RowsIn(i)' = RowsIn(i) /\ Offset(i)' = Offset(i)
         /\ \A f : Tie(f)' = Tie(f)
<1>1. Joined(Everyone)' = Joined(Everyone)
  BY DEF Joined, Everyone, Column, Tokens
<1>2. \A i : Offset(i)' = Offset(i)
  BY DEF Offset, First, Everyone, Column, Tokens
<1>3. Total' = Total
  BY <1>2 DEF Total
<1>4. \A i : OwnRows(i)' = OwnRows(i) /\ RowsIn(i)' = RowsIn(i)
  BY DEF OwnRows, Twin, RowsIn
<1>5. \A f : Tie(f)' = Tie(f)
  BY <1>1 DEF Tie
<1>6. layout' = layout /\ SameLayout' = SameLayout
  BY DEF layout, SameLayout
<1> QED
  BY <1>1, <1>2, <1>3, <1>4, <1>5, <1>6 DEF Asked, RowsAgree, RequestTypes

-----------------------------------------------------------------------------
(* The forward, and what is sliced from it *)

Result == [row : Row, layout : Layouts, weights : Nat, beside : (SUBSET Row) \X Nat]

LEMMA ZeroRowType == ZeroRow \in Row
  BY DEF ZeroRow, Blank, Row, Token

\* No row of a request is a row of zeros: requests are numbered from 1.
LEMMA RowsAreReal ==
  ASSUME RequestTypes, RowsAgree
  PROVE  /\ \A p \in 1..Len(Joined(Everyone)) : Joined(Everyone)[p] # ZeroRow
         /\ \A i \in Asked : \A j \in 1..RowsIn(i) : OwnRows(i)[j] # ZeroRow
<1>1. \A i \in Asked : \A j : Twin(i, j) # ZeroRow
  BY DEF Twin, ZeroRow, Blank, Asked
<1>2. ASSUME NEW p \in 1..Len(Joined(Everyone)) PROVE Joined(Everyone)[p] # ZeroRow
  <2>1. p \in 1..Offset(Len(requests)) /\ Len(requests) \in 0..Len(requests)
    BY JoinedAll DEF Total, RequestTypes
  <2>2. PICK i \in Asked : \E j \in 1..requests[i][1] : p = Offset(i - 1) + j
    BY <2>1, Located DEF Asked
  <2>3. PICK j \in 1..RowsIn(i) : p = Offset(i - 1) + j
    BY <2>2 DEF RowsIn
  <2> QED
    BY <1>1, <2>3, JoinedAll
<1> QED
  BY <1>1, <1>2, OwnRowsType

LEMMA BesideType ==
  ASSUME mixing \in {"none", "sum", "mean"}, NEW rows \in Seq(Row)
  PROVE  /\ Beside(rows) \in (SUBSET Row) \X Nat
         /\ mixing = "none" => Beside(rows) = <<{}, 0>>
         /\ mixing # "none" => Beside(rows)[1] = ToSet(rows) \ {ZeroRow}
         /\ mixing = "sum" => Beside(rows)[2] = 0
         /\ mixing = "mean" => Beside(rows)[2] = Len(rows)
<1>1. Len(rows) \in Nat /\ ToSet(rows) \subseteq Row
  BY LenProperties DEF ToSet
<1>2. CASE mixing = "none"
  <2>1. Beside(rows) = <<{}, 0>>
    BY <1>2 DEF Beside
  <2> QED
    BY <1>2, <2>1
<1>3. CASE mixing = "sum"
  <2>1. Beside(rows) = <<ToSet(rows) \ {ZeroRow}, 0>>
    BY <1>3 DEF Beside
  <2> QED
    BY <1>1, <1>3, <2>1
<1>4. CASE mixing = "mean"
  <2>1. Beside(rows) = <<ToSet(rows) \ {ZeroRow}, Len(rows)>>
    BY <1>4 DEF Beside
  <2> QED
    BY <1>1, <1>4, <2>1
<1> QED
  BY <1>2, <1>3, <1>4

LEMMA ForwardType ==
  ASSUME mixing \in {"none", "sum", "mean"}, memory[1] \in Nat, NEW rows \in Seq(Row),
         NEW lay \in Layouts
  PROVE  /\ Forward(rows, lay, 1) \in Seq(Result) /\ Len(Forward(rows, lay, 1)) = Len(rows)
         /\ \A p \in 1..Len(rows) :
              Forward(rows, lay, 1)[p] =
                [row |-> rows[p], layout |-> lay, weights |-> memory[1], beside |-> Beside(rows)]
<1>1. Len(rows) \in Nat /\ \A p \in 1..Len(rows) : rows[p] \in Row
  BY LenProperties
<1>2. \A p \in 1..Len(rows) :
        [row |-> rows[p], layout |-> lay, weights |-> memory[1], beside |-> Beside(rows)] \in Result
  BY <1>1, BesideType DEF Result
<1> QED
  BY <1>1, <1>2 DEF Forward

Array == [rows : Seq(Result), other : SUBSET Nat]

LEMMA WholeType ==
  ASSUME NEW f \in Fields, NEW values \in Seq(Result)
  PROVE  /\ Whole(f, values) \in Array
         /\ Whole(f, values).rows = values /\ Whole(f, values).other = 1..f.other
         /\ f.other \in Nat \ {0} /\ f.axis \in {0, RowAxis} /\ RowAxis \in {0, 1}
<1>1. f.other \in Nat \ {0} /\ f.axis \in {0, RowAxis} /\ RowAxis \in {0, 1}
  BY ForwardAssumption DEF ForwardAssumption
<1>2. 1..f.other \subseteq Nat
  BY <1>1
<1> QED
  BY <1>1, <1>2 DEF Whole, Array

\* What split cuts of a field for request i.
Cut(v, f, i) == TakeRows(v, f, Offset(i - 1), Offset(i), Total)

LEMMA SplitAll ==
  ASSUME RequestTypes, RowsAgree, NEW t
  PROVE  /\ Len(SplitRows(t, Everyone)) = Len(requests)
         /\ \A i \in Asked, f \in Fields : SplitRows(t, Everyone)[i][f] = Cut(Value(t, f), f, i)
<1>1. Len(requests) \in Nat /\ Len(Everyone) = Len(requests)
  BY FirstType DEF RequestTypes
<1>2. SplitRows(t, Everyone) = [k \in Asked |-> [f \in Fields |-> Cut(Value(t, f), f, k)]]
  BY <1>1 DEF SplitRows, Cut, Asked, Offset, First, Total
<1> QED
  BY <1>1, <1>2 DEF Asked

\* An array that has the rows of the batch is cut at the offsets of the requests, except
\* for a tie.
LEMMA CutWhole ==
  ASSUME RequestTypes, RowsAgree, NEW values \in Seq(Result), Len(values) = Total,
         NEW i \in Asked, NEW f \in Fields
  PROVE  /\ ~Tie(f) => Cut(Whole(f, values), f, i) =
                         Whole(f, SubSeq(values, Offset(i - 1) + 1, Offset(i)))
         /\ Tie(f) => /\ Cut(Whole(f, values), f, i).rows = values
                      /\ Cut(Whole(f, values), f, i).other =
                           (1..f.other) \cap (Offset(i - 1) + 1)..Offset(i)
<1> DEFINE v == Whole(f, values)
<1>1. Total \in Nat /\ Len(Joined(Everyone)) = Total
  BY JoinedAll
<1>2. v = [rows |-> values, other |-> 1..f.other] /\ v.rows = values /\ v.other = 1..f.other
      /\ f.axis \in {0, RowAxis} /\ RowAxis \in {0, 1}
  BY WholeType DEF Whole
<1>3. (IF Offset(i) < Len(values) THEN Offset(i) ELSE Len(values)) = Offset(i)
  <2>1. i \in 0..Len(requests) /\ Len(requests) \in 0..Len(requests)
    BY DEF Asked, RequestTypes
  <2>2. Offset(i) \in Nat /\ Offset(i) <= Total
    BY <2>1, Offsets, OffsetsGrow DEF Total
  <2> QED
    BY <1>1, <2>2
<1>4. EffectiveAxis(f, Len(values), Total) = f.axis <=> ~Tie(f)
  BY <1>1, <1>2 DEF EffectiveAxis, Tie
<1> HIDE DEF v
<1>5. ASSUME ~Tie(f) PROVE Cut(v, f, i) = Whole(f, SubSeq(values, Offset(i - 1) + 1, Offset(i)))
  <2> DEFINE piece == SubSeq(values, Offset(i - 1) + 1, Offset(i))
  <2>1. Cut(v, f, i) = [v EXCEPT !.rows = piece]
    BY <1>2, <1>3, <1>4, <1>5 DEF Cut, TakeRows
  <2> HIDE DEF piece
  <2>2. Cut(v, f, i) = [rows |-> piece, other |-> 1..f.other]
    BY <1>2, <2>1
  <2> QED
    BY <2>2 DEF Whole, piece
<1>6. ASSUME Tie(f)
      PROVE  /\ Cut(v, f, i).rows = values
             /\ Cut(v, f, i).other = (1..f.other) \cap (Offset(i - 1) + 1)..Offset(i)
  <2> DEFINE columns == (1..f.other) \cap (Offset(i - 1) + 1)..Offset(i)
  <2>1. Cut(v, f, i) = [v EXCEPT !.other = columns]
    BY <1>2, <1>4, <1>6 DEF Cut, TakeRows
  <2> HIDE DEF columns
  <2>2. Cut(v, f, i) = [rows |-> values, other |-> columns]
    BY <1>2, <2>1
  <2> QED
    BY <2>2 DEF columns
<1> QED
  BY <1>5, <1>6 DEF v

\* One that has more of them keeps them all.
LEMMA CutMisread ==
  ASSUME NEW f \in Fields, NEW v \in Array, NEW i, f.axis # 0, Len(v.rows) # Total
  PROVE  Cut(v, f, i).rows = v.rows
<1>1. f.axis = RowAxis
  BY ForwardAssumption DEF ForwardAssumption
<1>2. EffectiveAxis(f, Len(v.rows), Total) # f.axis
  BY <1>1 DEF EffectiveAxis
<1> DEFINE columns == v.other \cap (Offset(i - 1) + 1)..Offset(i)
<1>3. Cut(v, f, i) = [v EXCEPT !.other = columns]
  BY <1>2 DEF Cut, TakeRows
<1> HIDE DEF columns
<1> QED
  BY <1>3 DEF Array

\* A piece has the values of the rows of its request.
LEMMA Piece ==
  ASSUME RequestTypes, RowsAgree, NEW S, NEW values \in Seq(S), Len(values) = Total, NEW i \in Asked
  PROVE  /\ SubSeq(values, Offset(i - 1) + 1, Offset(i)) \in Seq(S)
         /\ Len(SubSeq(values, Offset(i - 1) + 1, Offset(i))) = RowsIn(i)
         /\ \A j \in 1..RowsIn(i) : Offset(i - 1) + j \in 1..Total
              /\ SubSeq(values, Offset(i - 1) + 1, Offset(i))[j] = values[Offset(i - 1) + j]
<1>1. RowsIn(i) \in Nat /\ Total \in Nat /\ Offset(i - 1) \in Nat /\ Offset(i) = Offset(i - 1) + RowsIn(i)
      /\ Offset(i) <= Total
  <2>1. i \in 0..Len(requests) /\ i - 1 \in 0..Len(requests) /\ Len(requests) \in 0..Len(requests)
    BY DEF Asked, RequestTypes
  <2> QED
    BY <2>1, Offsets, OffsetsGrow, RowCounts, JoinedAll DEF Total, RowsIn
<1> DEFINE a == Offset(i - 1) + 1
           b == Offset(i)
<1>2. a \in Int /\ b \in Int /\ \A q \in a..b : values[q] \in S
  <2>1. \A q \in a..b : q \in 1..Len(values)
    BY <1>1
  <2> QED
    BY <1>1, <2>1
<1>3. /\ SubSeq(values, a, b) \in Seq(S)
      /\ Len(SubSeq(values, a, b)) = IF a <= b THEN b - a + 1 ELSE 0
      /\ \A j \in 1..b-a+1 : SubSeq(values, a, b)[j] = values[a + j - 1]
  <2> HIDE DEF a, b
  <2> QED
    BY <1>2, SubSeqProperties
<1>4. Len(SubSeq(values, a, b)) = RowsIn(i) /\ b - a + 1 = RowsIn(i)
  BY <1>1, <1>3
<1>5. ASSUME NEW j \in 1..RowsIn(i)
      PROVE  Offset(i - 1) + j \in 1..Total /\ SubSeq(values, a, b)[j] = values[Offset(i - 1) + j]
  <2>1. a + j - 1 = Offset(i - 1) + j
    BY <1>1
  <2>2. Offset(i - 1) + j \in 1..Total
    BY <1>1
  <2>3. SubSeq(values, a, b)[j] = values[a + j - 1]
    <3> HIDE DEF a, b
    <3> QED
      BY <1>3, <1>4
  <2> QED
    BY <2>1, <2>2, <2>3
<1> QED
  BY <1>3, <1>4, <1>5

\* One request alone is not cut, whatever the axis.
LEMMA SplitOne ==
  ASSUME RequestTypes, RowsAgree, NEW i \in Asked, NEW t, NEW f \in Fields,
         NEW values \in Seq(Result), Len(values) = RowsIn(i), Value(t, f) = Whole(f, values)
  PROVE  SplitRows(t, <<i>>)[1][f] = Whole(f, values)
<1>1. Len(Column(SubSeq(<<i>>, 1, 0), 1)) = 0
  <2>1. SubSeq(<<i>>, 1, 0) = <<>>
    BY SubSeqEmpty
  <2>2. Len(<<>>) = 0
    OBVIOUS
  <2> QED
    BY <2>1, <2>2, ColumnEmpty
<1>2. SubSeq(<<i>>, 1, 1) = <<i>>
  <2> DEFINE one == <<i>>
  <2>1. one \in Seq(Asked) /\ Len(one) = 1
    OBVIOUS
  <2> HIDE DEF one
  <2>2. SubSeq(one, 1, 1) = one
    BY <2>1, SubSeqFull
  <2> QED
    BY <2>2 DEF one
<1>3. Len(Column(SubSeq(<<i>>, 1, 1), 1)) = Len(values)
  BY <1>2, JoinedOne
<1>4. SubSeq(values, 1, Len(values)) = values /\ Len(values) \in Nat
  BY SubSeqFull, LenProperties
<1> DEFINE v == Whole(f, values)
<1>5. v = [rows |-> values, other |-> 1..f.other] /\ v.rows = values /\ v.other = 1..f.other
      /\ f.axis \in {0, RowAxis} /\ RowAxis \in {0, 1} /\ f.other \in Nat \ {0}
  BY WholeType DEF Whole
<1>6. SplitRows(t, <<i>>)[1][f] = TakeRows(v, f, 0, Len(values), Len(values))
  BY <1>1, <1>3 DEF SplitRows
<1> HIDE DEF v
<1>7. CASE EffectiveAxis(f, Len(values), Len(values)) = f.axis
  <2>1. TakeRows(v, f, 0, Len(values), Len(values)) = [v EXCEPT !.rows = values]
    BY <1>4, <1>5, <1>7 DEF TakeRows
  <2>2. [v EXCEPT !.rows = values] = v
    BY <1>5
  <2> QED
    BY <1>6, <2>1, <2>2 DEF v
<1>8. CASE EffectiveAxis(f, Len(values), Len(values)) # f.axis
  <2>1. f.other = Len(values)
    BY <1>5, <1>8 DEF EffectiveAxis
  <2>2. v.other \cap 1..Len(values) = v.other
    BY <1>5, <2>1
  <2>3. TakeRows(v, f, 0, Len(values), Len(values)) = [v EXCEPT !.other = v.other]
    <3> DEFINE columns == v.other \cap (0 + 1)..Len(values)
    <3>1. TakeRows(v, f, 0, Len(values), Len(values)) = [v EXCEPT !.other = columns]
      BY <1>5, <1>8 DEF TakeRows
    <3>2. columns = v.other
      BY <2>2
    <3> HIDE DEF columns
    <3> QED
      BY <3>1, <3>2
  <2>4. [v EXCEPT !.other = v.other] = v
    BY <1>5
  <2> QED
    BY <1>6, <2>3, <2>4 DEF v
<1> QED
  BY <1>7, <1>8

-----------------------------------------------------------------------------
(* The inductive invariant *)

StateTypes ==
  /\ mixing \in Mixings
  /\ published \in 1..MaxVersions /\ lastSync \in Nat
  /\ memory \in [1..2 -> Nat] /\ bound = 1 /\ memory[1] = lastSync
  /\ served \in 0..MaxBatches /\ requests \in Seq(Payloads)
  /\ layouts \in Seq(Layouts) /\ Len(layouts) = Len(requests)
  /\ pc \in Phases /\ of \in 0..Len(requests)
  /\ input \in Seq(Row)
  /\ enabled \in BOOLEAN /\ checked \in BOOLEAN

\* The graphs were all captured with the address the weights still have.
GraphTypes ==
  /\ DOMAIN verified \subseteq DOMAIN graphs
  /\ \A k \in DOMAIN graphs :
       /\ k \in (Nat \ {0}) \X Layouts /\ (k[1] < 2 * MaxRows \/ k[1] = 2)
       /\ graphs[k] \in [static : Seq(Row), out : Seq(Result), at : {1}]
       /\ Len(graphs[k].static) = k[1] /\ Len(graphs[k].out) = k[1]

\* The phases of _forward, of _serve_rpc after the first forward, and both.
Forwarding == {"look", "capture", "replay", "compare", "eager"}
Serving == Forwarding \cup {"split", "check", "alone", "put"}

PhaseInv ==
  /\ pc \in Serving \cup {"collate"} => Len(requests) # 0
  /\ pc \in Serving => RowsAgree /\ SameLayout
  /\ pc \in {"idle", "collate", "split", "check"} => of = 0
  /\ pc = "alone" => of # 0
  /\ pc \in Forwarding \cup {"split", "alone"} =>
       input = IF of = 0 THEN Joined(Everyone) ELSE OwnRows(of)
  /\ pc \in {"capture", "replay", "compare"} => enabled /\ Len(input) <= MaxRows
  /\ pc \in {"replay", "compare"} => Key \in DOMAIN graphs

\* What a forward returned: the eager values, or the outputs of the graph of the key,
\* whose static input begins with the batch.
EagerOutputs == outputs = Fresh(Forward(input, layout, bound))

GraphOutputs ==
  /\ outputs = [key |-> Key, count |-> Len(input), copy |-> <<>>] /\ Key \in DOMAIN graphs
  /\ graphs[Key].out = Forward(graphs[Key].static, layout, bound)
  /\ \A p \in 1..Len(input) : graphs[Key].static[p] = input[p]

\* The values of the rows, of which each field has its part.
Values(t) == IF t.key = NoKey THEN Forward(input, layout, bound)
                              ELSE SubSeq(graphs[t.key].out, 1, t.count)

OutputsInv ==
  /\ pc = "compare" => GraphOutputs /\ Key \notin DOMAIN verified
  /\ pc \in {"split", "alone"} =>
       \/ EagerOutputs
       \/ GraphOutputs /\ enabled /\ Key \in DOMAIN verified /\ Len(input) <= MaxRows

\* While the runner is enabled, every comparison went well: a mean that was compared on
\* a batch with padding was compared on nothing; and a field that does not batch on axis 0
\* was compared where there was nothing to cut of it.
VerifiedInv ==
  enabled =>
    /\ MaxRows > 0
    /\ \A k \in DOMAIN verified :
         /\ verified[k] \in Nat /\ k[1] = Bucket(verified[k])
         /\ mixing = "mean" /\ Padded(verified[k]) /\ Fields # {} => verified[k] = 0
         /\ \A f \in Fields : f.axis # 0 => ~Padded(verified[k]) /\ f.other <= k[1]

\* The values of a forward of some rows: of these rows, in this layout, with the weights
\* of now; all that an eager run would say unless padding is mixed in; each row seen by
\* all the others of a model that mixes rows.
ValuesOf(values, rows) ==
  /\ values \in Seq(Result) /\ Len(values) = Len(rows)
  /\ \A p \in 1..Len(rows) :
       values[p].row = rows[p] /\ values[p].layout = layout /\ values[p].weights = lastSync
  /\ mixing = "none" \/ ~Padded(Len(rows)) => values = Forward(rows, layout, bound)
  /\ mixing # "none" => \A p, q \in 1..Len(rows) : rows[q] \in values[p].beside[1]

\* The array of a field: of the values of the rows, or of all that are in the bucket.
FieldOf(v, f, rows) ==
  /\ v \in Array /\ \A p \in 1..Len(v.rows) : v.rows[p].weights = lastSync
  /\ \/ v = Whole(f, v.rows) /\ ValuesOf(v.rows, rows)
     \/ Misread(f, Len(rows)) /\ Len(v.rows) # Len(rows)

HostInv ==
  pc \in {"check", "put"} \/ (pc \in Forwarding \cup {"alone"} /\ of # 0) =>
    host.key = NoKey /\ \A f \in Fields : FieldOf(host.copy[f], f, Joined(Everyone))

\* What it takes for the check to tell that the model mixes rows.
RowsToAsk == \A p \in Payloads : p[1] # 0
Telling == RowsToAsk /\ \E f \in Fields : Sliceable(f)

\* The check for row independence ends the service at the latest with the second request
\* of a model that mixes rows: its rows and the first one's do not fit into one bucket.
CheckInv ==
  /\ pc = "put" /\ VerifyRows /\ ~checked => Len(requests) = 1
  /\ of # 0 /\ pc \in Serving => checked
  /\ mixing # "none" /\ checked /\ Telling =>
       \/ pc = "failed"
       \/ /\ pc \in Forwarding \cup {"alone"} /\ of # 0 /\ Len(requests) > 1
          /\ \A i \in 1..(of - 1) : Total <= Bucket(RowsIn(i))

AnswersInv ==
  /\ answers # <<>> => pc = "idle" /\ RowsAgree /\ SameLayout /\ Len(answers) = Len(requests)
  /\ RowsAreOwn /\ WeightsAreSynced /\ AnswersPure

IInv ==
  /\ StateTypes /\ GraphTypes /\ PhaseInv /\ OutputsInv /\ VerifiedInv /\ HostInv /\ CheckInv
  /\ AnswersInv /\ NoFalseAlarm /\ (cause # "none" <=> pc = "failed")

-----------------------------------------------------------------------------
(* What the invariant tells of a state *)

LEMMA Basics ==
  ASSUME StateTypes
  PROVE  /\ RequestTypes /\ mixing \in {"none", "sum", "mean"} /\ memory[1] \in Nat /\ bound = 1
         /\ memory[1] = lastSync /\ Len(input) \in Nat
         /\ Len(requests) # 0 => layout \in Layouts
         /\ Len(requests) \in Nat /\ Payloads \subseteq Nat \X Nat
<1>1. Payloads \subseteq Nat \X Nat
  BY ForwardAssumption DEF ForwardAssumption
<1>2. requests \in Seq(Nat \X Nat)
  BY <1>1, SeqMonotonic DEF StateTypes
<1>3. served \in Nat
  BY ForwardAssumption DEF StateTypes, ForwardAssumption
<1>4. mixing \in {"none", "sum", "mean"}
  BY ForwardAssumption DEF StateTypes, ForwardAssumption
<1>5. ASSUME Len(requests) # 0 PROVE layout \in Layouts
  <2>1. layouts \in Seq(Layouts) /\ Len(layouts) = Len(requests) /\ Len(layouts) \in Nat
    BY LenProperties DEF StateTypes
  <2>2. 1 \in 1..Len(layouts)
    BY <1>5, <2>1
  <2> QED
    BY <2>1, <2>2 DEF layout
<1> QED
  BY <1>1, <1>2, <1>3, <1>4, <1>5, LenProperties DEF StateTypes, RequestTypes

LEMMA KeyType ==
  ASSUME StateTypes, Len(requests) # 0
  PROVE  /\ Key \in (Nat \ {0}) \X Layouts /\ Key # NoKey /\ Key[2] = layout
         /\ Key[1] = Bucket(Len(input)) /\ Len(input) <= Key[1]
<1>1. Bucket(Len(input)) \in Nat \ {0} /\ Len(input) <= Bucket(Len(input))
  BY Basics, BucketBounds
<1>2. layout \in Layouts
  BY Basics
<1> QED
  BY <1>1, <1>2 DEF Key, NoKey

\* A batch is found in no smaller place than it takes.
LEMMA Fits ==
  ASSUME RequestTypes, RowsAgree, NEW t \in Seq(Row),
         \A q \in 1..Total : Joined(Everyone)[q] \in ToSet(t)
  PROVE  Total <= Len(t)
<1> DEFINE place == [q \in 1..Total |-> CHOOSE p \in 1..Len(t) : t[p] = Joined(Everyone)[q]]
<1>1. Total \in Nat /\ Len(t) \in Nat /\ DOMAIN t = 1..Len(t)
  BY JoinedAll, LenProperties
<1>2. \A q \in 1..Total : place[q] \in 1..Len(t) /\ t[place[q]] = Joined(Everyone)[q]
  BY <1>1 DEF ToSet
<1>3. place \in [1..Total -> 1..Len(t)]
  BY <1>2
<1> HIDE DEF place
<1> SUFFICES ASSUME Len(t) < Total PROVE FALSE
  BY <1>1
<1>4. /\ IsFiniteSet(1..Total) /\ Cardinality(1..Total) = Total
      /\ IsFiniteSet(1..Len(t)) /\ Cardinality(1..Len(t)) = Len(t)
  <2>1. \A n \in Nat : IsFiniteSet(1..n) /\ Cardinality(1..n) = n
    <3> TAKE n \in Nat
    <3>1. IsFiniteSet(1..n) /\ Cardinality(1..n) = IF 1 > n THEN 0 ELSE n - 1 + 1
      BY FS_Interval
    <3> QED
      BY <3>1
  <2> QED
    BY <1>1, <2>1
<1>5. PICK x \in 1..Total, y \in 1..Total : x # y /\ place[x] = place[y]
  BY <1>3, <1>4, FS_PigeonHole
<1>6. Joined(Everyone)[x] = Joined(Everyone)[y]
  BY <1>2, <1>5
<1>7. Len(requests) \in 0..Len(requests)
  BY DEF RequestTypes
<1>8. PICK i \in Asked : \E j \in 1..RowsIn(i) : x = Offset(i - 1) + j
  BY <1>7, Located DEF Asked, Total, RowsIn
<1>9. PICK j \in 1..RowsIn(i) : x = Offset(i - 1) + j
  BY <1>8
<1>10. PICK k \in Asked : \E l \in 1..RowsIn(k) : y = Offset(k - 1) + l
  BY <1>7, Located DEF Asked, Total, RowsIn
<1>11. PICK l \in 1..RowsIn(k) : y = Offset(k - 1) + l
  BY <1>10
<1>12. Twin(i, j) = Twin(k, l)
  BY <1>6, <1>9, <1>11, JoinedAll
<1>13. i = k /\ j = l
  BY <1>12 DEF Twin
<1> QED
  BY <1>5, <1>9, <1>11, <1>13

\* Two requests with rows are not both more than half of their batch.
LEMMA TwoHalves ==
  ASSUME RequestTypes, NEW i \in Asked, NEW k \in Asked, i < k
  PROVE  RowsIn(i) + RowsIn(k) <= Total
<1>1. /\ i \in 0..Len(requests) /\ k \in 0..Len(requests) /\ k - 1 \in 0..Len(requests)
      /\ i - 1 \in 0..Len(requests) /\ i \in 0..(k - 1) /\ Len(requests) \in 0..Len(requests)
  BY DEF Asked, RequestTypes
<1>2. Offset(i) = Offset(i - 1) + RowsIn(i) /\ Offset(k) = Offset(k - 1) + RowsIn(k)
  BY Offsets DEF RowsIn
<1>3. Offset(i) <= Offset(k - 1) /\ Offset(k) <= Total
  BY <1>1, OffsetsGrow DEF Total
<1>4. /\ Offset(i - 1) \in Nat /\ Offset(i) \in Nat /\ Offset(k - 1) \in Nat /\ Offset(k) \in Nat
      /\ Total \in Nat /\ RowsIn(i) \in Nat /\ RowsIn(k) \in Nat
  BY <1>1, Offsets, RowCounts DEF Total, RowsIn
<1> QED
  BY <1>2, <1>3, <1>4

\* The rows that a forward has beside each row: those it is given, and no more than the
\* bucket holds.
Surroundings(values, rows, t) ==
  /\ t \in Seq(Row) /\ Len(t) <= Bucket(Len(rows))
  /\ \A p \in 1..Len(rows) : values[p].beside[1] = ToSet(t) \ {ZeroRow}

LEMMA EagerValues ==
  ASSUME StateTypes, Len(requests) # 0, EagerOutputs, \A p \in 1..Len(input) : input[p] # ZeroRow
  PROVE  /\ Values(outputs) = Forward(input, layout, bound) /\ ValuesOf(Values(outputs), input)
         /\ mixing # "none" => Surroundings(Values(outputs), input, input)
<1>1. input \in Seq(Row) /\ Len(input) \in Nat /\ DOMAIN input = 1..Len(input)
  BY LenProperties DEF StateTypes
<1>2. Values(outputs) = Forward(input, layout, bound)
  BY DEF EagerOutputs, Fresh, Values
<1>3. /\ Forward(input, layout, 1) \in Seq(Result) /\ Len(Forward(input, layout, 1)) = Len(input)
      /\ \A p \in 1..Len(input) : Forward(input, layout, 1)[p] =
           [row |-> input[p], layout |-> layout, weights |-> memory[1], beside |-> Beside(input)]
  BY <1>1, Basics, ForwardType
<1>4. mixing # "none" => Beside(input)[1] = ToSet(input) \ {ZeroRow}
  BY <1>1, Basics, BesideType
<1>5. \A q \in 1..Len(input) : input[q] \in ToSet(input) \ {ZeroRow}
  BY <1>1 DEF ToSet
<1> DEFINE V == Values(outputs)
<1>6. V \in Seq(Result) /\ Len(V) = Len(input) /\ V = Forward(input, layout, bound)
  BY <1>2, <1>3, Basics
<1>7. \A p \in 1..Len(input) : V[p] = [row |-> input[p], layout |-> layout, weights |-> memory[1],
                                       beside |-> Beside(input)]
  BY <1>2, <1>3, Basics
<1> HIDE DEF V
<1>8. \A p \in 1..Len(input) : /\ V[p].row = input[p] /\ V[p].layout = layout
                               /\ V[p].weights = lastSync /\ V[p].beside = Beside(input)
  <2> TAKE p \in 1..Len(input)
  <2> DEFINE r == [row |-> input[p], layout |-> layout, weights |-> memory[1], beside |-> Beside(input)]
  <2>1. V[p] = r
    BY <1>7
  <2>2. r.row = input[p] /\ r.layout = layout /\ r.weights = memory[1] /\ r.beside = Beside(input)
    OBVIOUS
  <2>3. memory[1] = lastSync
    BY Basics
  <2> HIDE DEF r
  <2> QED
    BY <2>1, <2>2, <2>3
<1>9. ValuesOf(V, input)
  BY <1>4, <1>5, <1>6, <1>8 DEF ValuesOf
<1>10. Len(input) <= Bucket(Len(input))
  BY <1>1, BucketBounds
<1>11. mixing # "none" => Surroundings(V, input, input)
  BY <1>1, <1>4, <1>8, <1>10 DEF Surroundings
<1> QED
  BY <1>2, <1>9, <1>11 DEF V

LEMMA GraphValues ==
  ASSUME StateTypes, Len(requests) # 0, GraphTypes, GraphOutputs,
         \A p \in 1..Len(input) : input[p] # ZeroRow
  PROVE  /\ ValuesOf(Values(outputs), input)
         /\ mixing # "none" => Surroundings(Values(outputs), input, graphs[Key].static)
         /\ \A p \in 1..Len(input) : Values(outputs)[p] =
              [row |-> input[p], layout |-> layout, weights |-> memory[1],
               beside |-> Beside(graphs[Key].static)]
         /\ Len(graphs[Key].static) = Bucket(Len(input))
<1> DEFINE static == graphs[Key].static
           V == Values(outputs)
<1>1. input \in Seq(Row) /\ Len(input) \in Nat
  BY LenProperties DEF StateTypes
<1>2. /\ static \in Seq(Row) /\ Len(static) = Bucket(Len(input)) /\ Key # NoKey
      /\ Len(input) <= Len(static) /\ Len(static) \in Nat /\ DOMAIN static = 1..Len(static)
      /\ \A p \in 1..Len(input) : static[p] = input[p]
  <2>1. Key \in DOMAIN graphs /\ \A p \in 1..Len(input) : static[p] = input[p]
    BY DEF GraphOutputs
  <2>2. graphs[Key] \in [static : Seq(Row), out : Seq(Result), at : {1}] /\ Len(static) = Key[1]
    BY <2>1 DEF GraphTypes
  <2>3. static \in Seq(Row)
    BY <2>2
  <2> HIDE DEF static
  <2> QED
    BY <2>1, <2>2, <2>3, KeyType, LenProperties
<1> HIDE DEF static
<1>3. /\ Forward(static, layout, 1) \in Seq(Result) /\ Len(Forward(static, layout, 1)) = Len(static)
      /\ \A p \in 1..Len(static) : Forward(static, layout, 1)[p] =
           [row |-> static[p], layout |-> layout, weights |-> memory[1], beside |-> Beside(static)]
  BY <1>2, Basics, ForwardType
<1>4. V = SubSeq(Forward(static, layout, 1), 1, Len(input))
  BY <1>2, Basics DEF Values, GraphOutputs, static
<1>5. /\ V \in Seq(Result) /\ Len(V) = Len(input)
      /\ \A p \in 1..Len(input) : V[p] = Forward(static, layout, 1)[p]
  <2> DEFINE all == Forward(static, layout, 1)
  <2>1. \A p \in 1..Len(input) : all[p] \in Result
    <3>1. \A p \in 1..Len(input) : p \in 1..Len(all)
      BY <1>1, <1>2, <1>3
    <3> QED
      BY <1>3, <3>1
  <2> HIDE DEF all
  <2>2. /\ SubSeq(all, 1, Len(input)) \in Seq(Result)
        /\ Len(SubSeq(all, 1, Len(input))) = IF 1 <= Len(input) THEN Len(input) - 1 + 1 ELSE 0
        /\ \A p \in 1..Len(input)-1+1 : SubSeq(all, 1, Len(input))[p] = all[1 + p - 1]
    BY <1>1, <2>1, SubSeqProperties
  <2>3. V = SubSeq(all, 1, Len(input))
    BY <1>4 DEF all
  <2> HIDE DEF V
  <2>4. V \in Seq(Result) /\ Len(V) = Len(input) /\ \A p \in 1..Len(input) : V[p] = all[p]
    BY <1>1, <2>2, <2>3
  <2> QED
    BY <2>4 DEF all
<1> HIDE DEF V
<1>6. \A p \in 1..Len(input) : V[p] = [row |-> input[p], layout |-> layout, weights |-> memory[1],
                                       beside |-> Beside(static)]
  BY <1>1, <1>2, <1>3, <1>5
<1>7. mixing # "none" => Beside(static)[1] = ToSet(static) \ {ZeroRow}
  BY <1>2, Basics, BesideType
<1>8. \A q \in 1..Len(input) : input[q] \in ToSet(static) \ {ZeroRow}
  <2>1. \A q \in 1..Len(input) : q \in DOMAIN static
    BY <1>1, <1>2
  <2> QED
    BY <1>2, <2>1 DEF ToSet
<1>9. ASSUME mixing = "none" \/ ~Padded(Len(input)) PROVE V = Forward(input, layout, bound)
  <2>1. /\ Forward(input, layout, 1) \in Seq(Result) /\ Len(Forward(input, layout, 1)) = Len(input)
        /\ \A p \in 1..Len(input) : Forward(input, layout, 1)[p] =
             [row |-> input[p], layout |-> layout, weights |-> memory[1], beside |-> Beside(input)]
    BY <1>1, Basics, ForwardType
  <2>2. Beside(static) = Beside(input)
    <3>1. CASE mixing = "none"
      BY <1>1, <1>2, <3>1, Basics, BesideType
    <3>2. CASE ~Padded(Len(input))
      <4>1. Len(static) = Len(input)
        BY <1>2, <3>2 DEF Padded
      <4>2. static = input
        BY <1>1, <1>2, <4>1, SeqEqual
      <4> QED
        BY <4>2
    <3> QED
      BY <1>9, <3>1, <3>2
  <2>3. \A p \in 1..Len(V) : V[p] = Forward(input, layout, 1)[p]
    BY <1>5, <1>6, <2>1, <2>2
  <2>4. V = Forward(input, layout, 1)
    BY <1>5, <2>1, <2>3, SeqEqual
  <2> QED
    BY <2>4, Basics
<1>10. \A p \in 1..Len(input) : /\ V[p].row = input[p] /\ V[p].layout = layout
                                /\ V[p].weights = lastSync /\ V[p].beside = Beside(static)
  <2> TAKE p \in 1..Len(input)
  <2> DEFINE r == [row |-> input[p], layout |-> layout, weights |-> memory[1], beside |-> Beside(static)]
  <2>1. V[p] = r
    BY <1>6
  <2>2. r.row = input[p] /\ r.layout = layout /\ r.weights = memory[1] /\ r.beside = Beside(static)
    OBVIOUS
  <2>3. memory[1] = lastSync
    BY Basics
  <2> HIDE DEF r
  <2> QED
    BY <2>1, <2>2, <2>3
<1>11. ValuesOf(V, input)
  BY <1>5, <1>7, <1>8, <1>9, <1>10 DEF ValuesOf
<1>12. mixing # "none" => Surroundings(V, input, static)
  BY <1>1, <1>2, <1>7, <1>10 DEF Surroundings
<1> QED
  BY <1>2, <1>6, <1>11, <1>12 DEF V, static

-----------------------------------------------------------------------------
(* The steps *)

LEMMA InitInv == Init => IInv
<1> SUFFICES ASSUME Init PROVE IInv
  OBVIOUS
<1> USE DEF Init
<1>1. StateTypes
  <2>1. requests \in Seq(Payloads) /\ input \in Seq(Row) /\ Len(requests) = 0
    OBVIOUS
  <2>2. memory \in [1..2 -> Nat] /\ memory[1] = 1
    OBVIOUS
  <2>3. enabled \in BOOLEAN
    OBVIOUS
  <2>4. published \in 1..MaxVersions /\ served \in 0..MaxBatches
    BY ForwardAssumption DEF ForwardAssumption
  <2>5. pc \in Phases /\ of \in 0..Len(requests)
    BY <2>1 DEF Phases
  <2>6. mixing \in Mixings /\ lastSync \in Nat /\ bound = 1 /\ checked \in BOOLEAN
        /\ memory[1] = lastSync
    BY <2>2
  <2>7. layouts \in Seq(Layouts) /\ Len(layouts) = 0
    OBVIOUS
  <2> QED
    BY <2>1, <2>2, <2>3, <2>4, <2>5, <2>6, <2>7 DEF StateTypes
<1>2. GraphTypes /\ VerifiedInv
  BY DEF GraphTypes, VerifiedInv
<1>3. PhaseInv /\ OutputsInv /\ HostInv /\ CheckInv
  BY DEF PhaseInv, OutputsInv, HostInv, CheckInv, Serving, Forwarding
<1>4. AnswersInv
  BY DEF AnswersInv, RowsAreOwn, WeightsAreSynced, AnswersPure
<1>5. NoFalseAlarm
  BY DEF NoFalseAlarm
<1> QED
  BY <1>1, <1>2, <1>3, <1>4, <1>5 DEF IInv

\* No comparison is forgotten.
VerifiedGrows ==
  DOMAIN verified \subseteq DOMAIN verified' /\ \A k \in DOMAIN verified : verified'[k] = verified[k]

LEMMA ValuesStay ==
  ASSUME UNCHANGED <<mixing, memory, bound, served, requests, layouts, lastSync>>
  PROVE  \A values, rows : ValuesOf(values, rows)' = ValuesOf(values, rows)
<1>1. layout' = layout
  BY BatchStays
<1> QED
  BY <1>1 DEF ValuesOf, Forward, Beside, Padded, Result

LEMMA HostStays ==
  ASSUME UNCHANGED <<mixing, memory, bound, served, requests, layouts, lastSync, host>>,
         VerifiedGrows
  PROVE  /\ host.key' = host.key
         /\ (\A f \in Fields : FieldOf(host.copy[f], f, Joined(Everyone))) =>
            (\A f \in Fields : FieldOf(host.copy[f], f, Joined(Everyone)))'
<1>1. Joined(Everyone)' = Joined(Everyone) /\ layout' = layout
  BY BatchStays
<1>2. \A values, rows : ValuesOf(values, rows)' = ValuesOf(values, rows)
  BY ValuesStay
<1>3. \A f, n : Misread(f, n) => Misread(f, n)'
  BY <1>1 DEF Misread, VerifiedGrows
<1>4. \A v, f, rows : FieldOf(v, f, rows) => FieldOf(v, f, rows)'
  BY <1>2, <1>3 DEF FieldOf
<1> QED
  BY <1>1, <1>4

LEMMA KnownStays ==
  ASSUME UNCHANGED <<served, requests, layouts, verified>>
  PROVE  /\ \A f, n : Misread(f, n)' = Misread(f, n)
         /\ Known' = Known
<1>1. \A f, n : Misread(f, n)' = Misread(f, n)
  BY BatchStays DEF Misread
<1> QED
  BY <1>1, BatchStays DEF Known

\* Two arrays that were compared stay as they were.
LEMMA AgreesStays ==
  ASSUME UNCHANGED <<served, requests, of, outputs, host, graphs>>
  PROVE  \A f : FieldAgrees(f)' = FieldAgrees(f)
<1>1. \A t, f : Value(t, f)' = Value(t, f)
  BY DEF Value, SliceOutput
<1>2. \A set, side : Column(set, side)' = Column(set, side)
  BY DEF Column, Tokens
<1>3. \A t, set : SplitRows(t, set)' = SplitRows(t, set)
  BY <1>1, <1>2 DEF SplitRows
<1>4. Responses' = Responses
  BY <1>3 DEF Responses, Everyone
<1> QED
  BY <1>3, <1>4 DEF FieldAgrees

\* Nothing but the trainer's weights changes.
LEMMA PublishInv ==
  ASSUME IInv, published' \in 1..MaxVersions,
         UNCHANGED <<mixing, memory, bound, batchVars, pc, of, input, outputs, host, runnerVars,
                     checked, ghostVars>>
  PROVE  IInv'
<1> USE DEF batchVars, runnerVars, ghostVars
<1>1. StateTypes'
  BY DEF IInv, StateTypes
<1>2. GraphTypes' /\ VerifiedInv'
  BY DEF IInv, GraphTypes, VerifiedInv, Padded
<1>3. PhaseInv'
  <2>1. OwnRows(of)' = OwnRows(of)
    BY DEF OwnRows, Twin, RowsIn
  <2> QED
    BY <2>1, BatchStays DEF IInv, PhaseInv, Key
<1>4. OutputsInv'
  <2>1. Key' = Key /\ layout' = layout
    BY BatchStays DEF Key
  <2>2. EagerOutputs' = EagerOutputs /\ GraphOutputs' = GraphOutputs
    BY <2>1 DEF EagerOutputs, GraphOutputs, Fresh, Forward, Beside
  <2> QED
    BY <2>1, <2>2 DEF IInv, OutputsInv
<1>5. HostInv'
  BY HostStays DEF IInv, HostInv, VerifiedGrows
<1>6. CheckInv'
  BY BatchStays DEF IInv, CheckInv
<1>7. AnswersInv'
  <2>0. \A i : Own(i)' = Own(i)
    BY DEF Own, Forward, Beside, Tokens, RowsIn
  <2>1. RowsAreOwn' = RowsAreOwn
    BY <2>0, KnownStays DEF RowsAreOwn, SameRows
  <2>2. AnswersPure' = AnswersPure
    BY <2>0, KnownStays DEF AnswersPure, RowsIn, Padded
  <2>3. WeightsAreSynced' = WeightsAreSynced
    BY DEF WeightsAreSynced
  <2> QED
    BY <2>1, <2>2, <2>3, BatchStays DEF IInv, AnswersInv
<1>8. NoFalseAlarm'
  <2>1. RowsIn(of)' = RowsIn(of)
    BY DEF RowsIn
  <2> QED
    BY <2>1, BatchStays, KnownStays, AgreesStays DEF IInv, NoFalseAlarm
<1> QED
  BY <1>1, <1>2, <1>3, <1>4, <1>5, <1>6, <1>7, <1>8 DEF IInv

LEMMA NothingAnswered == ASSUME answers' = <<>> PROVE AnswersInv'
<1>1. ~(answers' # <<>>) /\ Len(answers') = 0
  OBVIOUS
<1> QED
  BY <1>1 DEF AnswersInv, RowsAreOwn, WeightsAreSynced, AnswersPure

\* The weights change between batches, in place: the graphs read them there.
LEMMA SyncInv == ASSUME IInv, Sync PROVE IInv'
<1> USE DEF Sync, CopiesInPlace, batchVars, runnerVars
<1>1. StateTypes'
  <2>1. published \in Nat /\ bound = 1
    BY ForwardAssumption DEF IInv, StateTypes, ForwardAssumption
  <2>2. memory' \in [1..2 -> Nat] /\ memory'[1] = published
    BY <2>1 DEF IInv, StateTypes
  <2> QED
    BY <2>1, <2>2 DEF IInv, StateTypes
<1>2. GraphTypes' /\ VerifiedInv'
  BY DEF IInv, GraphTypes, VerifiedInv, Padded
<1>3. PhaseInv' /\ OutputsInv' /\ HostInv'
  BY DEF IInv, PhaseInv, OutputsInv, HostInv, Serving, Forwarding
<1>4. CheckInv'
  BY BatchStays DEF IInv, CheckInv, Serving, Forwarding
<1>5. AnswersInv'
  BY NothingAnswered
<1>6. NoFalseAlarm'
  BY DEF IInv, NoFalseAlarm
<1> QED
  BY <1>1, <1>2, <1>3, <1>4, <1>5, <1>6 DEF IInv

LEMMA BatchInv == ASSUME IInv, Batch PROVE IInv'
<1> USE DEF Batch, weightVars, runnerVars
<1>1. PICK n \in 1..BatchSize : requests' \in [1..n -> Payloads]
  OBVIOUS
<1>2. requests' \in Seq(Payloads) /\ Len(requests') = n /\ n \in Nat
      /\ layouts' \in Seq(Layouts) /\ Len(layouts') = n
  BY <1>1
<1>3. StateTypes'
  BY <1>2, ForwardAssumption DEF IInv, StateTypes, PhaseInv, Phases, ForwardAssumption
<1>4. GraphTypes' /\ VerifiedInv'
  BY DEF IInv, GraphTypes, VerifiedInv, Padded
<1>5. PhaseInv' /\ OutputsInv' /\ HostInv'
  BY DEF IInv, PhaseInv, OutputsInv, HostInv, Serving, Forwarding
<1>6. CheckInv'
  BY DEF IInv, CheckInv, Serving, Forwarding
<1>7. AnswersInv'
  BY NothingAnswered
<1>8. NoFalseAlarm'
  BY DEF IInv, NoFalseAlarm
<1> QED
  BY <1>3, <1>4, <1>5, <1>6, <1>7, <1>8 DEF IInv

-----------------------------------------------------------------------------
(* The steps of a forward *)

BatchKept == UNCHANGED <<mixing, published, memory, bound, served, requests, layouts, answers, lastSync>>

LEMMA AnswersKept ==
  ASSUME IInv, BatchKept, pc # "idle"
  PROVE  answers' = <<>> /\ AnswersInv'
<1>1. answers' = <<>>
  BY DEF IInv, AnswersInv, BatchKept
<1> QED
  BY <1>1, NothingAnswered

\* The rows to forward.
LEMMA InputRows ==
  ASSUME IInv, pc \in Forwarding \cup {"split", "alone"}
  PROVE  /\ input \in Seq(Row) /\ Len(input) \in Nat /\ RequestTypes /\ RowsAgree /\ SameLayout
         /\ Len(requests) # 0 /\ layout \in Layouts
         /\ \A p \in 1..Len(input) : input[p] # ZeroRow
<1>1. input \in Seq(Row) /\ RequestTypes /\ RowsAgree /\ SameLayout /\ Len(input) \in Nat
      /\ Len(requests) # 0 /\ layout \in Layouts
  BY Basics DEF IInv, StateTypes, PhaseInv, Serving
<1>2. input = IF of = 0 THEN Joined(Everyone) ELSE OwnRows(of)
  BY DEF IInv, PhaseInv
<1>3. of # 0 => of \in Asked
  BY <1>1 DEF IInv, StateTypes, Asked
<1>4. of # 0 => Len(OwnRows(of)) = RowsIn(of)
  BY <1>1, <1>3, OwnRowsType
<1>5. \A p \in 1..Len(input) : input[p] # ZeroRow
  BY <1>1, <1>2, <1>3, <1>4, RowsAreReal
<1> QED
  BY <1>1, <1>5

\* What every step of a forward keeps.
LEMMA ForwardingKeeps ==
  ASSUME IInv, BatchKept, pc \in Forwarding, UNCHANGED <<of, input, host, checked, cause>>,
         enabled' \in BOOLEAN, VerifiedGrows,
         pc' \in Forwarding \/ (pc' = "split" /\ of = 0) \/ (pc' = "alone" /\ of # 0)
  PROVE  /\ StateTypes' /\ HostInv' /\ CheckInv' /\ AnswersInv' /\ NoFalseAlarm'
         /\ (cause # "none" <=> pc = "failed")'
         /\ PhaseInv' <=> /\ pc' \in {"capture", "replay", "compare"} => enabled' /\ Len(input) <= MaxRows
                          /\ pc' \in {"replay", "compare"} => Key \in DOMAIN graphs'
<1> USE DEF BatchKept
<1>1. StateTypes'
  BY DEF IInv, StateTypes, Phases, Forwarding
<1>2. HostInv'
  BY HostStays DEF IInv, HostInv, Forwarding
<1>3. CheckInv'
  BY BatchStays DEF IInv, CheckInv, Forwarding, Serving
<1>4. AnswersInv'
  BY AnswersKept DEF Forwarding
<1>5. cause' = "none" /\ pc' # "failed"
  BY DEF IInv, Forwarding
<1>6. NoFalseAlarm'
  BY <1>5 DEF NoFalseAlarm
<1>7. Key' = Key
  BY BatchStays DEF Key
<1>8. /\ (pc \in Serving \cup {"collate"} => Len(requests) # 0)'
      /\ (pc \in Serving => RowsAgree /\ SameLayout)'
      /\ (pc \in {"idle", "collate", "split", "check"} => of = 0)'
      /\ (pc = "alone" => of # 0)'
  BY BatchStays DEF IInv, PhaseInv, Forwarding, Serving
<1>9. (pc \in Forwarding \cup {"split", "alone"} =>
         input = IF of = 0 THEN Joined(Everyone) ELSE OwnRows(of))'
  <2>1. input = IF of = 0 THEN Joined(Everyone) ELSE OwnRows(of)
    BY DEF IInv, PhaseInv
  <2>2. OwnRows(of)' = OwnRows(of)
    BY DEF OwnRows, Twin, RowsIn
  <2>3. Joined(Everyone)' = Joined(Everyone)
    BY BatchStays
  <2> QED
    BY <2>1, <2>2, <2>3
<1>10. PhaseInv' <=> /\ pc' \in {"capture", "replay", "compare"} => enabled' /\ Len(input) <= MaxRows
                     /\ pc' \in {"replay", "compare"} => Key \in DOMAIN graphs'
  BY <1>7, <1>8, <1>9 DEF PhaseInv
<1> QED
  BY <1>1, <1>2, <1>3, <1>4, <1>5, <1>6, <1>10

\* Nothing of the runner changes.
LEMMA RunnerKept ==
  ASSUME IInv, UNCHANGED <<mixing, graphs, verified>>, enabled' = enabled \/ enabled' = FALSE
  PROVE  GraphTypes' /\ VerifiedInv'
<1>1. GraphTypes'
  BY DEF IInv, GraphTypes
<1>2. VerifiedInv'
  BY DEF IInv, VerifiedInv, Padded
<1> QED
  BY <1>1, <1>2

LEMMA LookInv == ASSUME IInv, Look PROVE IInv'
<1> USE DEF Look, weightVars, batchVars, runnerVars, ghostVars
<1>1. BatchKept /\ pc \in Forwarding /\ pc' \in Forwarding /\ enabled' \in BOOLEAN /\ VerifiedGrows
  BY DEF BatchKept, Forwarding, IInv, StateTypes, VerifiedGrows
<1>2. Len(input) \in Nat /\ MaxRows \in Nat
  BY Basics, ForwardAssumption DEF IInv, ForwardAssumption
<1>3. PhaseInv'
  BY <1>1, <1>2, ForwardingKeeps
<1>4. OutputsInv'
  BY DEF OutputsInv
<1> QED
  BY <1>1, <1>3, <1>4, ForwardingKeeps, RunnerKept DEF IInv

LEMMA RunnerFailsInv == ASSUME IInv, RunnerFails PROVE IInv'
<1> USE DEF RunnerFails, Disable, weightVars, batchVars, runnerVars, ghostVars
<1>1. BatchKept /\ pc \in Forwarding /\ pc' \in Forwarding /\ enabled' \in BOOLEAN /\ VerifiedGrows
  BY DEF BatchKept, Forwarding, VerifiedGrows
<1>2. PhaseInv'
  BY <1>1, ForwardingKeeps
<1>3. OutputsInv'
  BY DEF OutputsInv
<1> QED
  BY <1>1, <1>2, <1>3, ForwardingKeeps, RunnerKept DEF IInv

LEMMA CaptureInv == ASSUME IInv, Capture PROVE IInv'
<1> USE DEF Capture, weightVars, batchVars, ghostVars
<1> DEFINE zeros == [p \in 1..Key[1] |-> ZeroRow]
           new == [static |-> zeros, out |-> Forward(zeros, Key[2], bound), at |-> bound]
<1>1. BatchKept /\ pc \in Forwarding /\ pc' \in Forwarding /\ enabled' \in BOOLEAN /\ VerifiedGrows
  BY DEF BatchKept, Forwarding, IInv, StateTypes, VerifiedGrows
<1>2. graphs' = [k \in DOMAIN graphs \cup {Key} |-> IF k \in DOMAIN graphs THEN graphs[k] ELSE new]
  OBVIOUS
<1>3. enabled /\ Len(input) <= MaxRows
  BY DEF IInv, PhaseInv
<1>4. Key \in (Nat \ {0}) \X Layouts /\ Key[1] \in Nat \ {0} /\ Key[2] \in Layouts
  BY <1>1, InputRows, KeyType DEF IInv
<1>5. Key[1] < 2 * MaxRows \/ Key[1] = 2
  <2>1. Len(input) \in Nat /\ MaxRows \in Nat /\ Key[1] = Bucket(Len(input))
    BY <1>1, InputRows, KeyType, ForwardAssumption DEF IInv, ForwardAssumption
  <2> QED
    BY <1>3, <1>4, <2>1, BucketBounds
<1>6. new \in [static : Seq(Row), out : Seq(Result), at : {1}] /\ Len(new.static) = Key[1]
      /\ Len(new.out) = Key[1]
  <2>1. zeros \in Seq(Row) /\ Len(zeros) = Key[1]
    BY <1>4, ZeroRowType
  <2> HIDE DEF zeros
  <2>2. Forward(zeros, Key[2], 1) \in Seq(Result) /\ Len(Forward(zeros, Key[2], 1)) = Len(zeros)
    BY <1>4, <2>1, Basics, ForwardType DEF IInv
  <2>3. bound = 1
    BY Basics DEF IInv
  <2> QED
    BY <2>1, <2>2, <2>3
<1> HIDE DEF new
<1>7. GraphTypes'
  <2> USE DEF GraphTypes
  <2> HIDE DEF Capture
  <2>1. DOMAIN verified' \subseteq DOMAIN graphs'
    <3>1. verified' = verified
      BY DEF Capture
    <3> QED
      BY <1>2, <3>1 DEF IInv
  <2> SUFFICES ASSUME NEW k \in DOMAIN graphs'
               PROVE  /\ k \in (Nat \ {0}) \X Layouts /\ (k[1] < 2 * MaxRows \/ k[1] = 2)
                      /\ graphs'[k] \in [static : Seq(Row), out : Seq(Result), at : {1}]
                      /\ Len(graphs'[k].static) = k[1] /\ Len(graphs'[k].out) = k[1]
    BY <2>1
  <2>2. CASE k \in DOMAIN graphs
    <3>1. graphs'[k] = graphs[k]
      BY <1>2, <2>2
    <3> QED
      BY <2>2, <3>1 DEF IInv
  <2>3. CASE k \notin DOMAIN graphs
    <3>1. k = Key /\ graphs'[k] = new
      BY <1>2, <2>3
    <3> QED
      BY <1>4, <1>5, <1>6, <3>1
  <2> QED
    BY <2>2, <2>3
<1>8. VerifiedInv'
  BY DEF IInv, VerifiedInv, Padded
<1>9. PhaseInv'
  BY <1>1, <1>2, <1>3, ForwardingKeeps
<1>10. OutputsInv'
  BY DEF OutputsInv
<1> QED
  BY <1>1, <1>7, <1>8, <1>9, <1>10, ForwardingKeeps DEF IInv

\* A graph is replayed on the rows of now.
LEMMA ReplayInv == ASSUME IInv, Replay PROVE IInv'
<1> USE DEF Replay, Returned, weightVars, batchVars, ghostVars
<1> DEFINE g == graphs[Key]
           rest == SubSeq(g.static, Len(input) + 1, Len(g.static))
           static == input \o rest
           new == [static |-> static, at |-> g.at, out |-> Forward(static, Key[2], g.at)]
<1>1. BatchKept /\ pc \in Forwarding /\ enabled' \in BOOLEAN /\ VerifiedGrows
  BY DEF BatchKept, Forwarding, IInv, StateTypes, VerifiedGrows
<1>2. pc' \in Forwarding \/ (pc' = "split" /\ of = 0) \/ (pc' = "alone" /\ of # 0)
  BY DEF Forwarding
<1>3. enabled /\ Key \in DOMAIN graphs /\ Len(input) <= MaxRows
  BY DEF IInv, PhaseInv
<1>4. graphs' = [graphs EXCEPT ![Key] = new]
  OBVIOUS
<1>5. g \in [static : Seq(Row), out : Seq(Result), at : {1}] /\ Len(g.static) = Key[1]
  BY <1>3 DEF IInv, GraphTypes
<1>6. /\ Key[1] \in Nat \ {0} /\ Key[2] = layout /\ Len(input) <= Key[1] /\ layout \in Layouts
      /\ input \in Seq(Row) /\ Len(input) \in Nat
  BY <1>1, InputRows, KeyType DEF IInv
<1>7. rest \in Seq(Row) /\ Len(rest) = Key[1] - Len(input)
  <2> DEFINE a == Len(input) + 1
             b == Len(g.static)
             old == g.static
  <2>1. a \in Int /\ b \in Int /\ \A i \in a..b : old[i] \in Row
    <3>1. old \in Seq(Row)
      BY <1>5
    <3>2. \A i \in a..b : i \in 1..Len(old)
      BY <1>5, <1>6
    <3> HIDE DEF old
    <3> QED
      BY <1>5, <1>6, <3>1, <3>2
  <2>2. /\ SubSeq(old, a, b) \in Seq(Row)
        /\ Len(SubSeq(old, a, b)) = IF a <= b THEN b - a + 1 ELSE 0
    <3> HIDE DEF a, b, old
    <3> QED
      BY <2>1, SubSeqProperties
  <2> QED
    BY <1>5, <1>6, <2>2
<1> HIDE DEF rest
<1>8. static \in Seq(Row) /\ Len(static) = Key[1] /\ \A p \in 1..Len(input) : static[p] = input[p]
  <2>1. /\ static \in Seq(Row) /\ Len(static) = Len(input) + Len(rest)
        /\ \A p \in 1..Len(input) + Len(rest) :
             static[p] = IF p <= Len(input) THEN input[p] ELSE rest[p - Len(input)]
    BY <1>6, <1>7, ConcatProperties
  <2> HIDE DEF static
  <2>2. Key[1] \in Nat /\ Len(rest) = Key[1] - Len(input) /\ Len(input) <= Key[1] /\ Len(input) \in Nat
    BY <1>6, <1>7
  <2>3. \A p \in 1..Len(input) : p \in 1..Len(input) + Len(rest) /\ p <= Len(input)
    BY <2>2
  <2> QED
    BY <2>1, <2>2, <2>3
<1> HIDE DEF static
<1>9. g.at = 1 /\ bound = 1
  BY <1>5, Basics DEF IInv
<1>10. Forward(static, layout, 1) \in Seq(Result) /\ Len(Forward(static, layout, 1)) = Key[1]
  BY <1>6, <1>8, Basics, ForwardType DEF IInv
<1>11. new \in [static : Seq(Row), out : Seq(Result), at : {1}] /\ new.static = static
       /\ new.out = Forward(static, layout, 1)
  BY <1>6, <1>8, <1>9, <1>10
<1> HIDE DEF new
<1>12. DOMAIN graphs' = DOMAIN graphs /\ graphs'[Key] = new
       /\ \A k \in DOMAIN graphs : k # Key => graphs'[k] = graphs[k]
  BY <1>3, <1>4
<1>13. verified' = verified /\ mixing' = mixing /\ enabled' = enabled
  OBVIOUS
<1>14. GraphTypes'
  <2> HIDE DEF Replay, g
  <2> SUFFICES ASSUME NEW k \in DOMAIN graphs
               PROVE  /\ k \in (Nat \ {0}) \X Layouts /\ (k[1] < 2 * MaxRows \/ k[1] = 2)
                      /\ graphs'[k] \in [static : Seq(Row), out : Seq(Result), at : {1}]
                      /\ Len(graphs'[k].static) = k[1] /\ Len(graphs'[k].out) = k[1]
    BY <1>12, <1>13 DEF IInv, GraphTypes
  <2>1. CASE k = Key
    BY <1>8, <1>10, <1>11, <1>12, <2>1 DEF IInv, GraphTypes
  <2>2. CASE k # Key
    BY <1>12, <2>2 DEF IInv, GraphTypes
  <2> QED
    BY <2>1, <2>2
<1>15. VerifiedInv'
  BY <1>13 DEF IInv, VerifiedInv, Padded
<1>16. PhaseInv'
  BY <1>1, <1>2, <1>3, <1>12, ForwardingKeeps
<1>17. GraphOutputs'
  <2>1. Key' = Key /\ input' = input /\ layout' = layout
        /\ outputs' = [key |-> Key, count |-> Len(input), copy |-> <<>>]
    BY BatchStays DEF Key
  <2>2. Forward(graphs[Key].static, layout, bound)' = Forward(static, layout, 1)
    BY <1>9, <1>11, <1>12, <2>1 DEF Forward, Beside
  <2>3. (\A p \in 1..Len(input) : graphs[Key].static[p] = input[p])'
    BY <1>8, <1>11, <1>12, <2>1
  <2> QED
    BY <1>3, <1>11, <1>12, <2>1, <2>2, <2>3 DEF GraphOutputs
<1>18. OutputsInv'
  <2>1. Key' = Key
    BY BatchStays DEF Key
  <2>2. /\ pc' # "compare" => Key \in DOMAIN verified /\ enabled'
        /\ pc' = "compare" => Key \notin DOMAIN verified
    BY <1>2, <1>3, <1>13 DEF Forwarding
  <2> QED
    BY <1>3, <1>13, <1>17, <2>1, <2>2 DEF OutputsInv
<1> QED
  BY <1>1, <1>2, <1>14, <1>15, <1>16, <1>18, ForwardingKeeps DEF IInv

\* What a comparison that goes well tells: a mean with padding was one of no rows, and a
\* field on another axis filled its bucket.
LEMMA AgreesIs ==
  ASSUME IInv, pc = "compare", GraphAgrees, NEW f \in Fields
  PROVE  /\ mixing = "mean" /\ Padded(Len(input)) => Len(input) = 0
         /\ f.axis # 0 => ~Padded(Len(input)) /\ f.other <= Key[1]
<1> DEFINE out == graphs[Key].out
           V == SubSeq(out, 1, Len(input))
           E == Forward(input, layout, 1)
           v == SliceOutput(f, out, Len(input))
<1>1. GraphOutputs /\ StateTypes /\ GraphTypes /\ Key \in DOMAIN graphs
  BY DEF IInv, OutputsInv, GraphOutputs
<1>2. /\ input \in Seq(Row) /\ Len(input) \in Nat /\ layout \in Layouts /\ Len(requests) # 0
      /\ \A p \in 1..Len(input) : input[p] # ZeroRow
  BY InputRows DEF Forwarding
<1>3. Key[1] = Bucket(Len(input)) /\ Key[1] \in Nat \ {0} /\ Key # NoKey /\ Len(input) <= Key[1]
  BY <1>1, <1>2, KeyType
<1>4. Len(out) = Key[1]
  BY <1>1 DEF GraphTypes
<1>5. outputs.key = Key /\ outputs.count = Len(input)
  BY <1>1 DEF GraphOutputs
<1>6. v = Whole(f, E)
  BY <1>1, <1>3, <1>5, Basics DEF GraphAgrees, Value
<1>7. E \in Seq(Result) /\ Len(E) = Len(input)
      /\ \A p \in 1..Len(input) :
           E[p] = [row |-> input[p], layout |-> layout, weights |-> memory[1], beside |-> Beside(input)]
  BY <1>1, <1>2, Basics, ForwardType
<1>8. f.other \in Nat \ {0}
  BY ForwardAssumption DEF ForwardAssumption
<1>9. Values(outputs) = V
  BY <1>3, <1>5 DEF Values
<1>10. ASSUME f.axis # 0 PROVE ~Padded(Len(input)) /\ f.other <= Key[1]
  <2> DEFINE columns == (1..f.other) \cap (1..Len(input))
  <2>1. v = [rows |-> out, other |-> columns]
    BY <1>10 DEF SliceOutput
  <2>2. Whole(f, E) = [rows |-> E, other |-> 1..f.other]
    BY DEF Whole
  <2> HIDE DEF columns, v, E, out
  <2>3. out = E /\ columns = 1..f.other
    <3>1. v.rows = out /\ v.other = columns
      BY <2>1
    <3>2. Whole(f, E).rows = E /\ Whole(f, E).other = 1..f.other
      BY <2>2
    <3> QED
      BY <1>6, <3>1, <3>2
  <2>4. Len(input) = Key[1]
    BY <1>4, <1>7, <2>3
  <2>5. f.other \in columns
    BY <1>8, <2>3
  <2>6. f.other <= Len(input)
    BY <1>2, <1>8, <2>5 DEF columns
  <2> QED
    BY <1>3, <2>4, <2>6 DEF Padded
<1>11. ASSUME mixing = "mean", Padded(Len(input)) PROVE Len(input) = 0
  <2> SUFFICES ASSUME Len(input) # 0 PROVE FALSE
    OBVIOUS
  <2>1. 1 \in 1..Len(input)
    BY <1>2
  <2>2. V = E
    <3>1. f.axis = 0
      BY <1>10, <1>11
    <3>2. v.rows = V
      BY <3>1 DEF SliceOutput, Whole
    <3>3. Whole(f, E).rows = E
      BY DEF Whole
    <3> HIDE DEF v, V, E
    <3> QED
      BY <1>6, <3>2, <3>3
  <2> DEFINE static == graphs[Key].static
             a == [row |-> input[1], layout |-> layout, weights |-> memory[1], beside |-> Beside(static)]
             b == [row |-> input[1], layout |-> layout, weights |-> memory[1], beside |-> Beside(input)]
  <2>3. Values(outputs)[1] = a /\ Len(static) = Bucket(Len(input))
    BY <1>1, <1>2, <2>1, GraphValues
  <2>4. E[1] = b
    BY <1>7, <2>1
  <2>5. a = b
    BY <1>9, <2>2, <2>3, <2>4
  <2>6. a.beside = Beside(static) /\ b.beside = Beside(input)
    OBVIOUS
  <2>7. static \in Seq(Row)
    BY <1>1 DEF GraphTypes
  <2>8. Beside(static)[2] = Len(static) /\ Beside(input)[2] = Len(input)
    <3> HIDE DEF static
    <3> QED
      BY <1>2, <1>11, <2>7, BesideType
  <2>9. Len(static) = Len(input)
    <3> HIDE DEF a, b, static
    <3> QED
      BY <2>5, <2>6, <2>8
  <2> QED
    BY <1>11, <2>3, <2>9 DEF Padded
<1> QED
  BY <1>10, <1>11

LEMMA CompareInv == ASSUME IInv, Compare PROVE IInv'
<1> USE DEF Compare, Returned, Disable, weightVars, batchVars, ghostVars
<1>1. BatchKept /\ pc \in Forwarding /\ pc = "compare" /\ enabled' \in BOOLEAN
  BY DEF BatchKept, Forwarding, IInv, StateTypes
<1>2. pc' \in Forwarding \/ (pc' = "split" /\ of = 0) \/ (pc' = "alone" /\ of # 0)
  BY DEF Forwarding
<1>3. enabled /\ Key \in DOMAIN graphs /\ Len(input) <= MaxRows /\ GraphOutputs
      /\ Key \notin DOMAIN verified
  BY DEF IInv, PhaseInv, OutputsInv
<1>4. DOMAIN verified' = DOMAIN verified \cup {Key} /\ verified'[Key] = Len(input)
      /\ \A k \in DOMAIN verified : k # Key => verified'[k] = verified[k]
  OBVIOUS
<1>5. graphs' = graphs /\ mixing' = mixing /\ Key' = Key /\ outputs' = outputs /\ layout' = layout
  BY BatchStays DEF Key
<1>6. GraphTypes'
  BY <1>3, <1>4, <1>5 DEF IInv, GraphTypes
<1>7. VerifiedGrows
  BY <1>3, <1>4 DEF VerifiedGrows
<1>8. VerifiedInv'
  <2> SUFFICES ASSUME enabled', NEW k \in DOMAIN verified'
               PROVE  /\ verified'[k] \in Nat /\ k[1] = Bucket(verified'[k])
                      /\ mixing = "mean" /\ Padded(verified'[k]) /\ Fields # {} => verified'[k] = 0
                      /\ \A f \in Fields : f.axis # 0 => ~Padded(verified'[k]) /\ f.other <= k[1]
    BY <1>3, <1>5 DEF IInv, VerifiedInv, Padded
  <2>1. GraphAgrees
    OBVIOUS
  <2>2. CASE k = Key
    <3>1. Len(input) \in Nat /\ Key[1] = Bucket(Len(input))
      BY <1>1, InputRows, KeyType DEF IInv
    <3>2. \A f \in Fields : /\ mixing = "mean" /\ Padded(Len(input)) => Len(input) = 0
                            /\ f.axis # 0 => ~Padded(Len(input)) /\ f.other <= Key[1]
      BY <1>1, <2>1, AgreesIs
    <3> QED
      BY <1>4, <2>2, <3>1, <3>2
  <2>3. CASE k # Key
    BY <1>3, <1>4, <2>3 DEF IInv, VerifiedInv
  <2> QED
    BY <2>2, <2>3
<1>9. PhaseInv'
  BY <1>1, <1>2, <1>3, <1>5, <1>7, ForwardingKeeps
<1>10. GraphOutputs'
  BY <1>3, <1>5 DEF GraphOutputs, Forward, Beside
<1>11. OutputsInv'
  <2>1. pc' \in {"split", "alone"} => enabled'
    BY <1>3
  <2> QED
    BY <1>3, <1>4, <1>5, <1>10, <2>1 DEF OutputsInv
<1> QED
  BY <1>1, <1>2, <1>6, <1>7, <1>8, <1>9, <1>11, ForwardingKeeps DEF IInv

LEMMA EagerInv == ASSUME IInv, Eager PROVE IInv'
<1> USE DEF Eager, Returned, weightVars, batchVars, runnerVars, ghostVars
<1>1. BatchKept /\ pc \in Forwarding /\ enabled' \in BOOLEAN /\ VerifiedGrows
  BY DEF BatchKept, Forwarding, IInv, StateTypes, VerifiedGrows
<1>2. pc' \in {"split", "alone"} /\ ((pc' = "split" /\ of = 0) \/ (pc' = "alone" /\ of # 0))
  OBVIOUS
<1>3. PhaseInv'
  BY <1>1, <1>2, ForwardingKeeps
<1>4. EagerOutputs'
  BY BatchStays DEF EagerOutputs, Fresh, Forward, Beside
<1>5. OutputsInv'
  BY <1>2, <1>4 DEF OutputsInv
<1> QED
  BY <1>1, <1>2, <1>3, <1>5, ForwardingKeeps, RunnerKept DEF IInv

LEMMA ModelRaisesInv == ASSUME IInv, ModelRaises PROVE IInv'
<1> USE DEF ModelRaises, Fail, weightVars, batchVars, runnerVars
<1>1. BatchKept
  BY DEF BatchKept
<1>2. StateTypes'
  BY DEF IInv, StateTypes, Phases
<1>3. GraphTypes' /\ VerifiedInv'
  BY RunnerKept
<1>4. PhaseInv' /\ OutputsInv' /\ HostInv' /\ CheckInv'
  BY DEF PhaseInv, OutputsInv, HostInv, CheckInv, Serving, Forwarding
<1>5. AnswersInv'
  BY <1>1, AnswersKept
<1>6. NoFalseAlarm'
  BY DEF NoFalseAlarm
<1> QED
  BY <1>2, <1>3, <1>4, <1>5, <1>6 DEF IInv

-----------------------------------------------------------------------------
(* The steps around the forward *)

\* Arrays that do not agree, in a request or between them, are all that is refused.
LEMMA CollateInv == ASSUME IInv, Collate PROVE IInv'
<1> USE DEF Collate, Fail, Enter, weightVars, batchVars, runnerVars
<1>1. BatchKept /\ pc = "collate"
  BY DEF BatchKept
<1>2. RequestTypes /\ Len(requests) \in 0..Len(requests) /\ of = 0
  BY Basics DEF IInv, PhaseInv
<1>3. RowsAgree => SameLength
  <2>1. Everyone \in Seq(Asked)
    BY <1>2, FirstType
  <2> QED
    BY <2>1, ColumnsAgree DEF SameLength
<1>4. GraphTypes' /\ VerifiedInv'
  BY RunnerKept
<1>5. AnswersInv'
  BY <1>1, AnswersKept
<1>6. OutputsInv' /\ HostInv'
  BY DEF OutputsInv, HostInv, Serving, Forwarding
<1>7. CASE RowsAgree /\ SameLayout
  <2>1. of' = 0 /\ input' = Joined(Everyone) /\ pc' = "look" /\ cause' = cause /\ cause = "none"
    BY <1>1, <1>3, <1>7 DEF IInv
  <2>2. Joined(Everyone) \in Seq(Row)
    BY <1>2, <1>7, JoinedAll
  <2>3. StateTypes'
    BY <1>2, <2>1, <2>2 DEF IInv, StateTypes, Phases
  <2>4. PhaseInv'
    BY <1>7, <2>1, BatchStays DEF IInv, PhaseInv, Serving, Forwarding
  <2>5. CheckInv'
    BY <2>1, BatchStays DEF IInv, CheckInv, Serving, Forwarding
  <2>6. NoFalseAlarm' /\ (cause # "none" <=> pc = "failed")'
    BY <2>1 DEF NoFalseAlarm
  <2> QED
    BY <1>4, <1>5, <1>6, <2>3, <2>4, <2>5, <2>6 DEF IInv
<1>8. CASE ~(RowsAgree /\ SameLayout)
  <2>1. UNCHANGED <<of, input>> /\ pc' = "failed"
        /\ ((cause' = "payload" /\ ~RowsAgree) \/ (cause' = "layouts" /\ ~SameLayout))
    BY <1>3, <1>8
  <2>2. StateTypes'
    BY <2>1 DEF IInv, StateTypes, Phases
  <2>3. PhaseInv' /\ CheckInv'
    BY <2>1 DEF PhaseInv, CheckInv, Serving, Forwarding
  <2>4. NoFalseAlarm' /\ (cause # "none" <=> pc = "failed")'
    BY <2>1, BatchStays DEF NoFalseAlarm
  <2> QED
    BY <1>4, <1>5, <1>6, <2>2, <2>3, <2>4 DEF IInv
<1> QED
  BY <1>7, <1>8

\* What a forward returned, graph or not, is of its rows.
LEMMA OutputsAre ==
  ASSUME IInv, pc \in {"split", "alone"}
  PROVE  /\ ValuesOf(Values(outputs), input)
         /\ mixing # "none" => \E t \in Seq(Row) : Surroundings(Values(outputs), input, t)
<1>1. StateTypes /\ GraphTypes /\ (EagerOutputs \/ GraphOutputs)
  BY DEF IInv, OutputsInv
<1>2. input \in Seq(Row) /\ Len(requests) # 0 /\ \A p \in 1..Len(input) : input[p] # ZeroRow
  BY InputRows
<1>3. CASE EagerOutputs
  BY <1>1, <1>2, <1>3, EagerValues
<1>4. CASE GraphOutputs
  <2>1. graphs[Key].static \in Seq(Row)
    BY <1>1, <1>4 DEF GraphTypes, GraphOutputs
  <2> QED
    BY <1>1, <1>2, <1>4, <2>1, GraphValues
<1> QED
  BY <1>1, <1>3, <1>4

\* The array of a field has these rows, or all of its bucket.
LEMMA FieldIs ==
  ASSUME IInv, pc \in {"split", "alone"}, NEW f \in Fields
  PROVE  /\ FieldOf(Value(outputs, f), f, input)
         /\ \/ Value(outputs, f) = Whole(f, Values(outputs))
            \/ Misread(f, Len(input)) /\ Len(Value(outputs, f).rows) # Len(input)
<1> DEFINE V == Values(outputs)
<1>1. /\ ValuesOf(V, input) /\ V \in Seq(Result) /\ Len(V) = Len(input)
      /\ \A p \in 1..Len(V) : V[p].weights = lastSync
  BY OutputsAre DEF ValuesOf
<1>2. Whole(f, V) \in Array /\ Whole(f, V).rows = V
  BY <1>1, WholeType
<1> HIDE DEF V
<1>3. CASE Value(outputs, f) = Whole(f, V)
  BY <1>1, <1>2, <1>3 DEF FieldOf, V
<1>4. CASE Value(outputs, f) # Whole(f, V)
  <2>1. ~EagerOutputs
    <3> SUFFICES ASSUME EagerOutputs PROVE FALSE
      OBVIOUS
    <3>1. Fresh(Forward(input, layout, bound)).key = NoKey
          /\ Fresh(Forward(input, layout, bound)).copy[f] = Whole(f, Forward(input, layout, bound))
      BY DEF Fresh
    <3>2. outputs.key = NoKey /\ outputs.copy[f] = Whole(f, Forward(input, layout, bound))
      BY <3>1 DEF EagerOutputs
    <3> QED
      BY <1>4, <3>2 DEF Value, Values, V
  <2>2. GraphOutputs /\ enabled /\ Key \in DOMAIN verified /\ Len(input) <= MaxRows /\ StateTypes
        /\ GraphTypes /\ MaxRows > 0
    BY <2>1 DEF IInv, OutputsInv, VerifiedInv
  <2>3. Key # NoKey /\ Key[1] = Bucket(Len(input)) /\ Len(input) \in Nat /\ Len(input) <= Key[1]
        /\ Key[1] \in Nat
    BY <2>2, InputRows, KeyType
  <2>4. outputs.key = Key /\ outputs.count = Len(input)
    BY <2>2 DEF GraphOutputs
  <2> DEFINE out == graphs[Key].out
  <2>5. /\ Value(outputs, f) = SliceOutput(f, out, Len(input)) /\ V = SubSeq(out, 1, Len(input))
        /\ out \in Seq(Result) /\ Len(out) = Key[1]
    BY <2>2, <2>3, <2>4 DEF Value, Values, V, GraphOutputs, GraphTypes
  <2>6. f.axis # 0
    BY <1>4, <2>5 DEF SliceOutput
  <2>7. verified[Key] \in Nat /\ ~Padded(verified[Key]) /\ f.other <= Key[1] /\ f.other \in Nat
    BY <2>2, <2>6, WholeType, <1>1 DEF IInv, VerifiedInv
  <2> DEFINE columns == (1..f.other) \cap (1..Len(input))
  <2>8. Value(outputs, f) = [rows |-> out, other |-> columns]
    BY <2>5, <2>6 DEF SliceOutput
  <2>9. columns \subseteq Nat
    OBVIOUS
  <2>10. Padded(Len(input))
    <3> SUFFICES ASSUME ~Padded(Len(input)) PROVE FALSE
      OBVIOUS
    <3>1. Len(input) = Len(out)
      BY <2>3, <2>5 DEF Padded
    <3>2. V = out
      BY <2>5, <3>1, SubSeqFull
    <3>3. columns = 1..f.other
      BY <2>3, <2>5, <2>7, <3>1
    <3> HIDE DEF columns, out
    <3> QED
      BY <1>4, <2>8, <3>2, <3>3 DEF Whole
  <2>11. \A p \in 1..Len(out) : out[p].weights = lastSync
    <3> DEFINE static == graphs[Key].static
    <3>1. static \in Seq(Row) /\ Len(static) = Key[1]
      BY <2>2 DEF GraphTypes, GraphOutputs
    <3>2. out = Forward(static, layout, 1) /\ memory[1] = lastSync
      BY <2>2, Basics DEF GraphOutputs
    <3> HIDE DEF static, out
    <3>3. TAKE p \in 1..Len(out)
    <3> DEFINE w == [row |-> static[p], layout |-> layout, weights |-> memory[1], beside |-> Beside(static)]
    <3>4. out[p] = w
      BY <2>2, <2>5, <3>1, <3>2, InputRows, Basics, ForwardType
    <3>5. w.weights = memory[1]
      OBVIOUS
    <3> HIDE DEF w
    <3> QED
      BY <3>2, <3>4, <3>5
  <2>12. Misread(f, Len(input))
    BY <2>2, <2>6, <2>7, <2>10 DEF Misread, Key, Sliceable
  <2>13. Value(outputs, f) \in Array /\ Value(outputs, f).rows = out
    <3> HIDE DEF columns, out
    <3> QED
      BY <2>5, <2>8, <2>9 DEF Array
  <2>14. Len(out) # Len(input)
    BY <2>3, <2>5, <2>10 DEF Padded
  <2> HIDE DEF out
  <2> QED
    BY <2>11, <2>12, <2>13, <2>14 DEF FieldOf
<1> QED
  BY <1>3, <1>4

\* The batch leaves the graph: what replays after this does not write over it.
LEMMA SplitInv == ASSUME IInv, Split PROVE IInv'
<1> USE DEF Split, HostCopy, weightVars, batchVars, runnerVars, ghostVars
<1>1. BatchKept /\ pc = "split" /\ pc' = "check" /\ of = 0
  BY DEF BatchKept, IInv, PhaseInv
<1>2. StateTypes'
  BY DEF IInv, StateTypes, Phases
<1>3. GraphTypes' /\ VerifiedInv'
  BY RunnerKept
<1>4. PhaseInv' /\ OutputsInv'
  BY <1>1, BatchStays DEF IInv, PhaseInv, OutputsInv, Serving, Forwarding
<1>5. HostInv'
  <2>1. \A f \in Fields : FieldOf(Value(outputs, f), f, Joined(Everyone))
    BY <1>1, FieldIs DEF IInv, PhaseInv
  <2> DEFINE copy == [key |-> NoKey, count |-> 0, copy |-> [f \in Fields |-> Value(outputs, f)]]
  <2>2. copy.key = NoKey /\ (\A f \in Fields : copy.copy[f] = Value(outputs, f)) /\ host' = copy
    OBVIOUS
  <2> HIDE DEF copy
  <2>3. host'.key = NoKey /\ \A f \in Fields : host'.copy[f] = Value(outputs, f)
    BY <2>2
  <2>4. \A v, f, rows : FieldOf(v, f, rows)' = FieldOf(v, f, rows)
    <3>1. \A values, rows : ValuesOf(values, rows)' = ValuesOf(values, rows)
      BY ValuesStay
    <3> QED
      BY <3>1, KnownStays DEF FieldOf
  <2> QED
    BY <2>1, <2>3, <2>4, BatchStays DEF HostInv
<1>6. CheckInv'
  BY <1>1, BatchStays DEF IInv, CheckInv, Serving, Forwarding
<1>7. AnswersInv'
  BY <1>1, AnswersKept
<1>8. NoFalseAlarm' /\ (cause # "none" <=> pc = "failed")'
  BY <1>1 DEF IInv, NoFalseAlarm
<1> QED
  BY <1>2, <1>3, <1>4, <1>5, <1>6, <1>7, <1>8 DEF IInv

\* The first request goes through the forward alone.
LEMMA CheckStepInv == ASSUME IInv, Check PROVE IInv'
<1> USE DEF Check, Enter, weightVars, batchVars, runnerVars, ghostVars
<1>1. BatchKept /\ pc = "check" /\ of = 0 /\ RowsAgree /\ SameLayout /\ Len(requests) # 0
  BY DEF BatchKept, IInv, PhaseInv, Serving
<1>2. RequestTypes /\ Len(requests) \in Nat
  BY Basics DEF IInv
<1>3. GraphTypes' /\ VerifiedInv'
  BY RunnerKept
<1>4. AnswersInv'
  BY <1>1, AnswersKept
<1>5. OutputsInv'
  BY DEF OutputsInv
<1>6. HostInv'
  BY <1>1, HostStays DEF IInv, HostInv, VerifiedGrows
<1>7. NoFalseAlarm' /\ (cause # "none" <=> pc = "failed")'
  BY <1>1 DEF IInv, NoFalseAlarm
<1>8. mixing # "none" /\ Telling => ~checked
  BY <1>1 DEF IInv, CheckInv, Forwarding
<1>9. CASE MustCheck
  <2>1. checked' = TRUE /\ of' = 1 /\ input' = Joined(<<1>>) /\ pc' = "look" /\ Len(requests) > 1
    BY <1>9 DEF MustCheck
  <2>2. 1 \in Asked
    BY <1>2, <2>1 DEF Asked
  <2>3. input' = OwnRows(1) /\ OwnRows(1) \in Seq(Row)
    BY <1>1, <1>2, <2>1, <2>2, JoinedOne, OwnRowsType
  <2>4. StateTypes'
    BY <1>2, <2>1, <2>3 DEF IInv, StateTypes, Phases
  <2>5. PhaseInv'
    BY <1>1, <2>1, <2>3, BatchStays DEF IInv, PhaseInv, Serving, Forwarding
  <2>6. CheckInv'
    <3>1. 1..(of' - 1) = {}
      BY <2>1
    <3> QED
      BY <1>1, <2>1, <3>1 DEF CheckInv, Forwarding
  <2> QED
    BY <1>3, <1>4, <1>5, <1>6, <1>7, <2>4, <2>5, <2>6 DEF IInv
<1>10. CASE ~MustCheck
  <2>1. pc' = "put" /\ UNCHANGED <<checked, of, input>>
    BY <1>10
  <2>2. StateTypes'
    BY <2>1 DEF IInv, StateTypes, Phases
  <2>3. PhaseInv'
    BY <1>1, <2>1, BatchStays DEF IInv, PhaseInv, Serving, Forwarding
  <2>4. CheckInv'
    <3>1. ASSUME VerifyRows, ~checked PROVE Len(requests) = 1
      <4>1. ~(Len(requests) > 1)
        BY <1>10, <3>1 DEF MustCheck
      <4>2. Len(requests) \in Nat /\ Len(requests) # 0
        BY <1>1, <1>2
      <4> HIDE DEF Check, BatchKept
      <4> QED
        BY <4>1, <4>2
    <3> QED
      BY <1>1, <1>8, <2>1, <3>1 DEF CheckInv
  <2> QED
    BY <1>3, <1>4, <1>5, <1>6, <1>7, <2>2, <2>3, <2>4 DEF IInv
<1> QED
  BY <1>9, <1>10

LEMMA OwnIs ==
  ASSUME StateTypes, SameLayout, NEW i \in Asked
  PROVE  Own(i) = Forward(OwnRows(i), layout, bound)
<1>1. RowsIn(i) \in Nat
  BY Basics, OwnRowsType
<1>2. DOMAIN Tokens(i, RowsIn(i)) = 1..RowsIn(i)
      /\ \A j \in 1..RowsIn(i) : Tokens(i, RowsIn(i))[j] = <<served, i, j>>
  BY <1>1 DEF Tokens
<1>3. [j \in DOMAIN Tokens(i, RowsIn(i)) |-> <<Tokens(i, RowsIn(i))[j], Tokens(i, RowsIn(i))[j]>>]
        = OwnRows(i)
  BY <1>2 DEF OwnRows, Twin
<1>4. layouts[i] = layout
  BY DEF SameLayout, Asked
<1> QED
  BY <1>3, <1>4 DEF Own

\* The part of the batch that is sliced for a request is of its rows.
Part(values, i) == SubSeq(values, Offset(i - 1) + 1, Offset(i))

LEMMA PartIs ==
  ASSUME StateTypes, RowsAgree, SameLayout, NEW values, ValuesOf(values, Joined(Everyone)),
         NEW i \in Asked
  PROVE  /\ Part(values, i) \in Seq(Result) /\ Len(Part(values, i)) = RowsIn(i)
         /\ \A j \in 1..RowsIn(i) :
              /\ Part(values, i)[j].row = Twin(i, j) /\ Part(values, i)[j].layout = layout
              /\ Part(values, i)[j].weights = lastSync
              /\ mixing # "none" =>
                   \A q \in 1..Total : Joined(Everyone)[q] \in Part(values, i)[j].beside[1]
         /\ mixing = "none" => Part(values, i) = Own(i)
<1>1. RequestTypes /\ Joined(Everyone) \in Seq(Row) /\ Len(Joined(Everyone)) = Total
      /\ layout \in Layouts
  <2>1. Len(requests) # 0
    BY Basics DEF Asked
  <2> QED
    BY <2>1, Basics, JoinedAll
<1>2. values \in Seq(Result) /\ Len(values) = Total
  BY <1>1 DEF ValuesOf
<1>3. /\ Part(values, i) \in Seq(Result) /\ Len(Part(values, i)) = RowsIn(i)
      /\ \A j \in 1..RowsIn(i) : /\ Offset(i - 1) + j \in 1..Total
                                 /\ Part(values, i)[j] = values[Offset(i - 1) + j]
  BY <1>1, <1>2, Piece DEF Part
<1>4. \A j \in 1..RowsIn(i) : Joined(Everyone)[Offset(i - 1) + j] = Twin(i, j)
  BY <1>1, JoinedAll
<1>5. ASSUME NEW j \in 1..RowsIn(i)
      PROVE  /\ Part(values, i)[j].row = Twin(i, j) /\ Part(values, i)[j].layout = layout
             /\ Part(values, i)[j].weights = lastSync
             /\ mixing # "none" =>
                  \A q \in 1..Total : Joined(Everyone)[q] \in Part(values, i)[j].beside[1]
  BY <1>1, <1>3, <1>4 DEF ValuesOf
<1>6. ASSUME mixing = "none" PROVE Part(values, i) = Own(i)
  <2>1. OwnRows(i) \in Seq(Row) /\ Len(OwnRows(i)) = RowsIn(i)
        /\ \A j \in 1..RowsIn(i) : OwnRows(i)[j] = Twin(i, j)
    BY <1>1, OwnRowsType
  <2>2. values = Forward(Joined(Everyone), layout, 1) /\ Own(i) = Forward(OwnRows(i), layout, 1)
    BY <1>6, Basics, OwnIs DEF ValuesOf
  <2>3. \A q \in 1..Total : values[q] =
          [row |-> Joined(Everyone)[q], layout |-> layout, weights |-> memory[1],
           beside |-> Beside(Joined(Everyone))]
    BY <1>1, <2>2, Basics, ForwardType
  <2>4. Own(i) \in Seq(Result) /\ Len(Own(i)) = RowsIn(i)
        /\ \A j \in 1..RowsIn(i) : Own(i)[j] =
             [row |-> OwnRows(i)[j], layout |-> layout, weights |-> memory[1],
              beside |-> Beside(OwnRows(i))]
    BY <1>1, <2>1, <2>2, Basics, ForwardType
  <2>5. Beside(Joined(Everyone)) = Beside(OwnRows(i))
    BY <1>1, <1>6, <2>1, Basics, BesideType
  <2>6. \A j \in 1..RowsIn(i) : Part(values, i)[j] = Own(i)[j]
    BY <1>3, <1>4, <2>1, <2>3, <2>4, <2>5
  <2> QED
    BY <1>3, <2>4, <2>6, SeqEqual
<1> QED
  BY <1>3, <1>5, <1>6

\* The responses are cut from the copy of the batch.
Sliced(i, f) ==
  /\ ValuesOf(host.copy[f].rows, Joined(Everyone)) /\ ~Tie(f)
  /\ Responses[i][f] = Whole(f, Part(host.copy[f].rows, i))

Tied(i, f) ==
  /\ ValuesOf(host.copy[f].rows, Joined(Everyone)) /\ Tie(f)
  /\ Responses[i][f].rows = host.copy[f].rows
  /\ Responses[i][f].other = (1..f.other) \cap (Offset(i - 1) + 1)..Offset(i)

LEMMA ResponsesAre ==
  ASSUME StateTypes, RowsAgree, host.key = NoKey,
         \A f \in Fields : FieldOf(host.copy[f], f, Joined(Everyone))
  PROVE  /\ Len(Responses) = Len(requests)
         /\ \A i \in Asked, f \in Fields :
              \/ Sliced(i, f) \/ Tied(i, f)
              \/ Misread(f, Total) /\ Responses[i][f].rows = host.copy[f].rows
<1>1. RequestTypes /\ Len(Joined(Everyone)) = Total
  BY Basics, JoinedAll
<1>2. /\ Len(Responses) = Len(requests)
      /\ \A i \in Asked, f \in Fields : Responses[i][f] = Cut(host.copy[f], f, i)
  BY <1>1, SplitAll DEF Responses, Value
<1>3. ASSUME NEW i \in Asked, NEW f \in Fields
      PROVE  \/ Sliced(i, f) \/ Tied(i, f)
             \/ Misread(f, Total) /\ Responses[i][f].rows = host.copy[f].rows
  <2> DEFINE v == host.copy[f]
  <2>1. v \in Array /\ FieldOf(v, f, Joined(Everyone)) /\ Responses[i][f] = Cut(v, f, i)
    BY <1>2 DEF FieldOf
  <2>2. CASE v = Whole(f, v.rows) /\ ValuesOf(v.rows, Joined(Everyone))
    <3>1. v.rows \in Seq(Result) /\ Len(v.rows) = Total
      BY <1>1, <2>2 DEF ValuesOf
    <3>2. CASE ~Tie(f)
      <4>1. Cut(v, f, i) = Whole(f, Part(v.rows, i))
        <5> HIDE DEF v
        <5>1. Cut(Whole(f, v.rows), f, i) = Whole(f, Part(v.rows, i))
          BY <1>1, <3>1, <3>2, CutWhole DEF Part
        <5> QED
          BY <2>2, <5>1
      <4> QED
        BY <2>1, <2>2, <3>2, <4>1 DEF Sliced
    <3>3. CASE Tie(f)
      <4>1. /\ Cut(v, f, i).rows = v.rows
            /\ Cut(v, f, i).other = (1..f.other) \cap (Offset(i - 1) + 1)..Offset(i)
        <5> HIDE DEF v
        <5>1. /\ Cut(Whole(f, v.rows), f, i).rows = v.rows
              /\ Cut(Whole(f, v.rows), f, i).other = (1..f.other) \cap (Offset(i - 1) + 1)..Offset(i)
          BY <1>1, <3>1, <3>3, CutWhole
        <5> QED
          BY <2>2, <5>1
      <4> QED
        BY <2>1, <2>2, <3>3, <4>1 DEF Tied
    <3> QED
      BY <3>2, <3>3
  <2>3. CASE Misread(f, Total) /\ Len(v.rows) # Total
    <3>1. f.axis # 0
      BY <2>3 DEF Misread, Sliceable
    <3>2. Cut(v, f, i).rows = v.rows
      BY <2>1, <2>3, <3>1, CutMisread
    <3> QED
      BY <2>1, <2>3, <3>2
  <2> QED
    BY <1>1, <2>1, <2>2, <2>3 DEF FieldOf
<1> QED
  BY <1>2, <1>3

\* The request alone, and its part of the batch, where they are compared.
LEMMA AloneIs ==
  ASSUME IInv, pc = "alone"
  PROVE  /\ RequestTypes /\ RowsAgree /\ SameLayout /\ of \in Asked /\ checked /\ StateTypes
         /\ host.key = NoKey /\ (\A f \in Fields : FieldOf(host.copy[f], f, Joined(Everyone)))
         /\ input = OwnRows(of) /\ Len(input) = RowsIn(of)
         /\ \A f \in Fields : \/ SplitRows(outputs, <<of>>)[1][f] = Whole(f, Values(outputs))
                              \/ Misread(f, RowsIn(of))
         /\ \A f \in Fields : \/ Sliced(of, f) \/ Tied(of, f) \/ Misread(f, Total)
<1>1. RequestTypes /\ RowsAgree /\ SameLayout /\ of # 0 /\ StateTypes
  BY Basics DEF IInv, PhaseInv, Serving
<1>2. of \in Asked
  BY <1>1 DEF StateTypes, Asked
<1>3. checked /\ host.key = NoKey /\ \A f \in Fields : FieldOf(host.copy[f], f, Joined(Everyone))
  BY <1>1 DEF IInv, CheckInv, HostInv, Serving
<1>4. input = OwnRows(of) /\ Len(input) = RowsIn(of)
  BY <1>1, <1>2, OwnRowsType DEF IInv, PhaseInv
<1>5. Values(outputs) \in Seq(Result) /\ Len(Values(outputs)) = RowsIn(of)
  BY <1>4, OutputsAre DEF ValuesOf
<1>6. ASSUME NEW f \in Fields
      PROVE  \/ SplitRows(outputs, <<of>>)[1][f] = Whole(f, Values(outputs))
             \/ Misread(f, RowsIn(of))
  <2>1. CASE Value(outputs, f) = Whole(f, Values(outputs))
    BY <1>1, <1>2, <1>5, <2>1, SplitOne
  <2>2. CASE Misread(f, Len(input))
    BY <1>4, <2>2
  <2> QED
    BY <2>1, <2>2, FieldIs
<1>7. \A f \in Fields : \/ Sliced(of, f) \/ Tied(of, f) \/ Misread(f, Total)
  BY <1>1, <1>2, <1>3, ResponsesAre
<1> QED
  BY <1>1, <1>2, <1>3, <1>4, <1>6, <1>7

LEMMA SomeRows ==
  ASSUME StateTypes, RowsToAsk, NEW i \in Asked
  PROVE  RowsIn(i) \in Nat \ {0}
<1>1. RowsIn(i) \in Nat
  BY Basics, OwnRowsType
<1>2. requests[i] \in Payloads
  BY DEF StateTypes, Asked
<1> QED
  BY <1>1, <1>2 DEF RowsToAsk, RowsIn

\* A request that a model which mixes rows answers alone as in the batch saw the whole
\* batch, in its own bucket.
LEMMA AlonePasses ==
  ASSUME IInv, pc = "alone", \A f \in Fields : FieldAgrees(f), mixing # "none", Telling
  PROVE  Total <= Bucket(RowsIn(of))
<1> DEFINE V == Values(outputs)
<1>1. PICK f \in Fields : Sliceable(f)
  BY DEF Telling
<1>2. \A n : ~Misread(f, n)
  BY <1>1 DEF Misread
<1> DEFINE H == host.copy[f].rows
           P == Part(H, of)
           A == SplitRows(outputs, <<of>>)[1][f]
           B == Responses[of][f]
<1>3. RequestTypes /\ RowsAgree /\ SameLayout /\ of \in Asked /\ Len(input) = RowsIn(of) /\ StateTypes
  BY AloneIs
<1>4. ValuesOf(V, input) /\ \E t \in Seq(Row) : Surroundings(V, input, t)
  BY OutputsAre
<1>5. V \in Seq(Result) /\ Len(V) = RowsIn(of)
  BY <1>3, <1>4 DEF ValuesOf
<1>6. RowsIn(of) \in Nat \ {0} /\ RowsIn(of) <= Bucket(RowsIn(of))
  BY <1>3, SomeRows, BucketBounds DEF Telling
<1>7. Len(Joined(Everyone)) = Total /\ Total \in Nat
  BY <1>3, JoinedAll
<1>8. A = Whole(f, V) /\ (Sliced(of, f) \/ Tied(of, f))
  BY <1>2, AloneIs
<1>9. A.rows = V /\ A.other = 1..f.other /\ f.other \in Nat \ {0}
  BY <1>5, <1>8, WholeType
<1>10. ~HasNothing(A)
  <2>1. V # <<>>
    BY <1>5, <1>6
  <2>2. 1 \in 1..f.other
    BY <1>9
  <2> HIDE DEF A, V
  <2> QED
    BY <1>9, <2>1, <2>2 DEF HasNothing
<1>11. CloseEnough(A, B)
  BY DEF FieldAgrees
<1> HIDE DEF A, B, V
<1>12. CASE Tied(of, f)
  <2>1. B.rows = H /\ Len(H) = Total /\ H \in Seq(Result)
        /\ B.other = (1..f.other) \cap (Offset(of - 1) + 1)..Offset(of)
        /\ f.other = Total
    BY <1>7, <1>12 DEF Tied, Tie, ValuesOf, B
  <2>2. /\ Offset(of) = Offset(of - 1) + RowsIn(of) /\ Offset(of - 1) \in Nat
        /\ Offset(of) <= Total /\ Offset(of) \in Nat
    <3>1. of \in 0..Len(requests) /\ of - 1 \in 0..Len(requests) /\ Len(requests) \in 0..Len(requests)
      BY <1>3 DEF Asked, RequestTypes
    <3> QED
      BY <1>3, <3>1, Offsets, OffsetsGrow DEF Total, RowsIn
  <2>3. Offset(of) \in B.other
    BY <1>6, <2>1, <2>2
  <2>4. H # <<>>
    BY <1>6, <1>7, <2>1, <2>2
  <2>5. ~HasNothing(B)
    BY <2>1, <2>3, <2>4 DEF HasNothing
  <2>6. A = B
    BY <1>10, <1>11, <2>5 DEF CloseEnough
  <2> QED
    BY <1>5, <1>6, <1>9, <2>1, <2>6
<1>13. CASE Sliced(of, f)
  <2>1. B = Whole(f, P) /\ ValuesOf(H, Joined(Everyone))
    BY <1>13 DEF Sliced, B
  <2>2. /\ P \in Seq(Result) /\ Len(P) = RowsIn(of)
        /\ \A j \in 1..RowsIn(of) : \A q \in 1..Total : Joined(Everyone)[q] \in P[j].beside[1]
    BY <1>3, <2>1, PartIs
  <2>3. B.rows = P /\ B.other = 1..f.other
    BY <2>1, <2>2, WholeType
  <2>4. ~HasNothing(B)
    <3>1. P # <<>> /\ 1 \in 1..f.other
      BY <1>6, <1>9, <2>2
    <3> HIDE DEF P
    <3> QED
      BY <2>3, <3>1 DEF HasNothing
  <2>5. V = P
    BY <1>9, <1>10, <1>11, <2>3, <2>4 DEF CloseEnough
  <2>6. PICK t \in Seq(Row) : Surroundings(V, input, t)
    BY <1>4 DEF V
  <2>7. 1 \in 1..RowsIn(of)
    BY <1>6
  <2>8. V[1].beside[1] = ToSet(t) \ {ZeroRow} /\ Len(t) <= Bucket(RowsIn(of))
    BY <1>3, <2>6, <2>7 DEF Surroundings
  <2>9. \A q \in 1..Total : Joined(Everyone)[q] \in ToSet(t)
    BY <2>2, <2>5, <2>7, <2>8
  <2>10. Total <= Len(t)
    BY <1>3, <2>9, Fits
  <2>11. Len(t) \in Nat /\ Bucket(RowsIn(of)) \in Nat
    BY <1>6, BucketBounds, LenProperties
  <2> QED
    BY <1>7, <2>8, <2>10, <2>11
<1> QED
  BY <1>8, <1>12, <1>13

\* Two of them do not.
LEMMA NotTwice ==
  ASSUME StateTypes, RowsAgree, RowsToAsk, NEW i \in Asked, NEW k \in Asked, i < k,
         Total <= Bucket(RowsIn(i)), Total <= Bucket(RowsIn(k))
  PROVE  FALSE
<1>1. RequestTypes /\ RowsIn(i) \in Nat \ {0} /\ RowsIn(k) \in Nat \ {0}
  BY Basics, SomeRows
<1>2. RowsIn(i) + RowsIn(k) <= Total /\ Total \in Nat
  BY <1>1, TwoHalves, JoinedAll
<1>3. Bucket(RowsIn(i)) \in Nat /\ Bucket(RowsIn(i)) < 2 * RowsIn(i)
      /\ Bucket(RowsIn(k)) \in Nat /\ Bucket(RowsIn(k)) < 2 * RowsIn(k)
  BY <1>1, BucketBounds
<1> QED
  BY <1>1, <1>2, <1>3

\* A model that does not mix rows answers a request alone as in the batch.
LEMMA AloneFails ==
  ASSUME IInv, pc = "alone", mixing = "none", NEW f \in Known, ~Misread(f, RowsIn(of))
  PROVE  FieldAgrees(f)
<1>1. StateTypes /\ RowsAgree /\ SameLayout /\ of \in Asked /\ input = OwnRows(of) /\ RequestTypes
  BY AloneIs
<1>2. f \in Fields /\ ~Tie(f) /\ ~Misread(f, Total)
  BY <1>1, JoinedAll DEF Known
<1>3. SplitRows(outputs, <<of>>)[1][f] = Whole(f, Values(outputs)) /\ Sliced(of, f)
  BY <1>2, AloneIs DEF Tied
<1>4. Values(outputs) = Own(of)
  BY <1>1, OutputsAre, OwnIs DEF ValuesOf
<1>5. Part(host.copy[f].rows, of) = Own(of)
  BY <1>1, <1>3, PartIs DEF Sliced
<1>6. SplitRows(outputs, <<of>>)[1][f] = Responses[of][f]
  BY <1>3, <1>4, <1>5 DEF Sliced
<1> QED
  BY <1>6 DEF FieldAgrees, CloseEnough

LEMMA AloneInv == ASSUME IInv, Alone PROVE IInv'
<1> USE DEF Alone, Enter, Fail, weightVars, batchVars, runnerVars
<1>1. BatchKept /\ pc = "alone" /\ UNCHANGED <<host, checked>>
  BY DEF BatchKept
<1>2. RequestTypes /\ RowsAgree /\ SameLayout /\ of \in Asked /\ checked /\ Len(requests) \in Nat /\ cause = "none"
  BY AloneIs, Basics DEF IInv
<1>3. GraphTypes' /\ VerifiedInv'
  BY RunnerKept
<1>4. AnswersInv'
  BY <1>1, AnswersKept
<1>5. OutputsInv'
  BY DEF OutputsInv
<1>6. HostInv'
  BY <1>1, AloneIs, HostStays DEF HostInv, VerifiedGrows
<1>7. ASSUME mixing # "none", Telling
      PROVE  Len(requests) > 1 /\ \A i \in 1..(of - 1) : Total <= Bucket(RowsIn(i))
  BY <1>1, <1>2, <1>7 DEF IInv, CheckInv
<1>8. CASE \E f \in Fields : ~FieldAgrees(f)
  <2>1. pc' = "failed" /\ cause' = "rows" /\ UNCHANGED <<of, input>>
    BY <1>8
  <2>2. mixing # "none" \/ \A f \in Known : Misread(f, RowsIn(of)) \/ FieldAgrees(f)
    BY <1>1, AloneFails
  <2>3. StateTypes'
    BY <2>1 DEF IInv, StateTypes, Phases
  <2>4. PhaseInv' /\ CheckInv'
    BY <2>1 DEF PhaseInv, CheckInv, Serving, Forwarding
  <2>5. NoFalseAlarm' /\ (cause # "none" <=> pc = "failed")'
    <3>1. (\A f \in Known : Misread(f, RowsIn(of)) \/ FieldAgrees(f)) =>
            (\A f \in Known : Misread(f, RowsIn(of)) \/ FieldAgrees(f))'
      <4>1. RowsIn(of)' = RowsIn(of)
        BY <2>1 DEF RowsIn
      <4> QED
        BY <2>1, <4>1, KnownStays, AgreesStays
    <3> QED
      BY <2>1, <2>2, <3>1 DEF NoFalseAlarm
  <2> QED
    BY <1>3, <1>4, <1>5, <1>6, <2>3, <2>4, <2>5 DEF IInv
<1>9. CASE (\A f \in Fields : FieldAgrees(f)) /\ of < Len(requests)
  <2>1. pc' = "look" /\ of' = of + 1 /\ input' = Joined(<<of + 1>>) /\ cause' = cause
    BY <1>9
  <2>2. of + 1 \in Asked
    BY <1>2, <1>9 DEF Asked
  <2>3. input' = OwnRows(of + 1) /\ OwnRows(of + 1) \in Seq(Row)
    BY <1>2, <2>1, <2>2, JoinedOne, OwnRowsType
  <2>4. StateTypes'
    BY <2>1, <2>2, <2>3 DEF IInv, StateTypes, Phases, Asked
  <2>5. of' # 0
    BY <1>2, <2>1 DEF Asked
  <2>6. PhaseInv'
    <3>1. OwnRows(of)' = OwnRows(of + 1)
      BY <2>1 DEF OwnRows, Twin, RowsIn
    <3> QED
      BY <1>1, <1>2, <2>1, <2>3, <2>5, <3>1, BatchStays DEF IInv, PhaseInv, Serving, Forwarding
  <2>7. CheckInv'
    <3>1. ASSUME mixing # "none", Telling, NEW i \in 1..of
          PROVE  Total <= Bucket(RowsIn(i))
      <4>1. CASE i = of
        BY <1>1, <1>9, <3>1, <4>1, AlonePasses
      <4>2. CASE i # of
        <5>1. i \in 1..(of - 1)
          BY <1>2, <4>2 DEF Asked
        <5> QED
          BY <1>7, <3>1, <5>1
      <4> QED
        BY <4>1, <4>2
    <3>2. of' - 1 = of
      BY <1>2, <2>1 DEF Asked
    <3>3. mixing' = mixing /\ checked' /\ Total' = Total /\ \A i : RowsIn(i)' = RowsIn(i)
      BY <1>1, <1>2, BatchStays
    <3> QED
      BY <1>1, <1>7, <2>1, <2>5, <3>1, <3>2, <3>3 DEF CheckInv, Forwarding
  <2>8. NoFalseAlarm' /\ (cause # "none" <=> pc = "failed")'
    BY <1>2, <2>1 DEF NoFalseAlarm
  <2> QED
    BY <1>3, <1>4, <1>5, <1>6, <2>4, <2>6, <2>7, <2>8 DEF IInv
<1>10. CASE (\A f \in Fields : FieldAgrees(f)) /\ ~(of < Len(requests))
  <2>1. pc' = "put" /\ UNCHANGED <<of, input, cause>>
    BY <1>10
  <2>2. of = Len(requests)
    BY <1>2, <1>10 DEF Asked
  <2>3. StateTypes'
    BY <2>1 DEF IInv, StateTypes, Phases
  <2>4. PhaseInv'
    BY <1>1, <1>2, <2>1, BatchStays DEF IInv, PhaseInv, Serving, Forwarding
  <2>5. ~(mixing # "none" /\ Telling)
    <3> SUFFICES ASSUME mixing # "none", Telling PROVE FALSE
      OBVIOUS
    <3>1. Len(requests) > 1
      BY <1>7
    <3>2. 1 \in Asked /\ 1 < of /\ 1 \in 1..(of - 1)
      <4> HIDE DEF Alone
      <4> QED
        BY <1>2, <2>2, <3>1 DEF Asked
    <3>3. Total <= Bucket(RowsIn(1))
      BY <1>7, <3>2
    <3>4. Total <= Bucket(RowsIn(of))
      BY <1>1, <1>10, AlonePasses
    <3> QED
      BY <1>2, <3>2, <3>3, <3>4, NotTwice DEF IInv, Telling
  <2>6. CheckInv'
    BY <1>1, <1>2, <2>1, <2>5 DEF CheckInv
  <2>7. NoFalseAlarm' /\ (cause # "none" <=> pc = "failed")'
    BY <1>2, <2>1 DEF NoFalseAlarm
  <2> QED
    BY <1>3, <1>4, <1>5, <1>6, <2>3, <2>4, <2>6, <2>7 DEF IInv
<1> QED
  BY <1>8, <1>9, <1>10

\* Every request is put its part of the batch.
LEMMA PutInv == ASSUME IInv, Put PROVE IInv'
<1> USE DEF Put, weightVars, batchVars, runnerVars
<1>1. pc = "put" /\ pc' = "idle" /\ of' = 0 /\ input' = <<>> /\ answers' = Responses
      /\ RowsAgree /\ SameLayout /\ cause = "none"
  BY DEF IInv, PhaseInv, Serving
<1>2. StateTypes /\ RequestTypes /\ Len(requests) \in Nat /\ Len(requests) # 0
  BY Basics DEF IInv, PhaseInv, Serving
<1>3. UNCHANGED <<served, requests, layouts, mixing, memory, bound, lastSync, checked, verified>>
  OBVIOUS
<1>4. StateTypes'
  <2>1. input' \in Seq(Row) /\ of' \in 0..Len(requests)
    BY <1>1, <1>2
  <2> QED
    BY <1>1, <2>1 DEF IInv, StateTypes, Phases
<1>5. GraphTypes' /\ VerifiedInv'
  BY RunnerKept
<1>6. PhaseInv' /\ OutputsInv' /\ HostInv'
  BY <1>1 DEF PhaseInv, OutputsInv, HostInv, Serving, Forwarding
<1>7. mixing # "none" /\ checked => ~Telling
  BY <1>1 DEF IInv, CheckInv, Forwarding
<1>8. CheckInv'
  <2>1. mixing' # "none" /\ checked' => ~Telling
    BY <1>3, <1>7
  <2> QED
    BY <1>1, <2>1 DEF CheckInv, Serving, Forwarding
<1>9. NoFalseAlarm' /\ (cause # "none" <=> pc = "failed")'
  BY <1>1 DEF NoFalseAlarm
<1>10. host.key = NoKey /\ \A f \in Fields : FieldOf(host.copy[f], f, Joined(Everyone))
  BY <1>1 DEF IInv, HostInv
<1>11. /\ Len(Responses) = Len(requests)
       /\ \A i \in Asked, f \in Fields :
            \/ Sliced(i, f) \/ Tied(i, f)
            \/ Misread(f, Total) /\ Responses[i][f].rows = host.copy[f].rows
  BY <1>1, <1>2, <1>10, ResponsesAre
<1>12. \A i : Own(i)' = Own(i)
  BY <1>3 DEF Own, Forward, Beside, Tokens, RowsIn
<1>13. Known' = Known /\ \A f \in Known : f \in Fields /\ ~Tie(f) /\ ~Misread(f, Total)
  BY <1>1, <1>2, <1>3, KnownStays, JoinedAll DEF Known
<1>14. ASSUME NEW i \in Asked, NEW f \in Fields, Sliced(i, f)
       PROVE  /\ Responses[i][f].rows = Part(host.copy[f].rows, i)
              /\ Responses[i][f].other = 1..f.other
              /\ Responses[i][f] = Whole(f, Part(host.copy[f].rows, i))
              /\ Len(Responses[i][f].rows) = RowsIn(i)
              /\ \A j \in 1..RowsIn(i) :
                   /\ Responses[i][f].rows[j].row = Twin(i, j)
                   /\ Responses[i][f].rows[j].layout = layout
                   /\ Responses[i][f].rows[j].weights = lastSync
              /\ mixing = "none" => Responses[i][f] = Whole(f, Own(i))
  <2> DEFINE P == Part(host.copy[f].rows, i)
  <2>1. ValuesOf(host.copy[f].rows, Joined(Everyone)) /\ Responses[i][f] = Whole(f, P)
    BY <1>14 DEF Sliced
  <2>2. /\ P \in Seq(Result) /\ Len(P) = RowsIn(i)
        /\ \A j \in 1..RowsIn(i) :
             P[j].row = Twin(i, j) /\ P[j].layout = layout /\ P[j].weights = lastSync
        /\ mixing = "none" => P = Own(i)
    BY <1>1, <1>2, <2>1, PartIs
  <2>3. Responses[i][f].rows = P /\ Responses[i][f].other = 1..f.other
    BY <2>1, <2>2, WholeType
  <2> HIDE DEF P
  <2>4. mixing = "none" => Responses[i][f] = Whole(f, Own(i))
    BY <2>1, <2>2
  <2>5. /\ Len(Responses[i][f].rows) = RowsIn(i)
        /\ \A j \in 1..RowsIn(i) :
             /\ Responses[i][f].rows[j].row = Twin(i, j)
             /\ Responses[i][f].rows[j].layout = layout
             /\ Responses[i][f].rows[j].weights = lastSync
    BY <2>2, <2>3
  <2> QED
    BY <2>1, <2>3, <2>4, <2>5 DEF P
<1>15. RowsAreOwn'
  <2>1. ASSUME NEW i \in Asked, NEW f \in Known
        PROVE  SameRows(Responses[i][f].rows, Own(i)) /\ Responses[i][f].other = 1..f.other
    <3>0. Sliced(i, f) /\ f \in Fields
      BY <1>11, <1>13 DEF Tied
    <3>1. OwnRows(i) \in Seq(Row) /\ Len(OwnRows(i)) = RowsIn(i)
          /\ \A j \in 1..RowsIn(i) : OwnRows(i)[j] = Twin(i, j)
      BY <1>2, OwnRowsType
    <3>2. Own(i) = Forward(OwnRows(i), layout, 1)
      BY <1>1, <1>2, Basics, OwnIs
    <3>3. Len(Own(i)) = RowsIn(i) /\ \A j \in 1..RowsIn(i) : Own(i)[j] =
            [row |-> OwnRows(i)[j], layout |-> layout, weights |-> memory[1],
             beside |-> Beside(OwnRows(i))]
      BY <1>2, <3>1, <3>2, Basics, ForwardType
    <3>4. \A j \in 1..RowsIn(i) : Own(i)[j].row = Twin(i, j) /\ Own(i)[j].layout = layout
      BY <3>1, <3>3
    <3> QED
      BY <1>14, <3>0, <3>3, <3>4 DEF SameRows
  <2>2. Asked = 1..Len(requests)
    BY DEF Asked
  <2> QED
    BY <1>1, <1>3, <1>12, <1>13, <2>1, <2>2 DEF RowsAreOwn, SameRows
<1>16. WeightsAreSynced'
  <2>1. ASSUME NEW i \in Asked, NEW f \in Fields, NEW p \in 1..Len(Responses[i][f].rows)
        PROVE  Responses[i][f].rows[p].weights = lastSync
    <3>1. CASE Sliced(i, f)
      BY <1>14, <3>1
    <3>2. CASE ~Sliced(i, f)
      <4>1. Responses[i][f].rows = host.copy[f].rows
        BY <1>11, <3>2 DEF Tied
      <4> QED
        BY <1>10, <4>1 DEF FieldOf
    <3> QED
      BY <3>1, <3>2
  <2> QED
    BY <1>1, <1>3, <1>11, <2>1 DEF WeightsAreSynced, Asked
<1>17. AnswersPure'
  <2>1. ASSUME NEW i \in Asked, NEW f \in Known
        PROVE  \/ Responses[i][f] = Whole(f, Own(i))
               \/ mixing # "none" /\ (CheckTells => Len(requests) = 1 /\ Padded(RowsIn(1)))
    <3>1. Sliced(i, f) /\ f \in Fields
      BY <1>11, <1>13 DEF Tied
    <3> SUFFICES ASSUME mixing # "none", CheckTells, ~(Len(requests) = 1 /\ Padded(RowsIn(1)))
                 PROVE  Responses[i][f] = Whole(f, Own(i))
      BY <1>14, <3>1
    <3> DEFINE H == host.copy[f].rows
    <3>2. ~checked
      BY <1>7 DEF CheckTells, Telling, RowsToAsk
    <3>3. Len(requests) = 1 /\ ~Padded(RowsIn(1))
      BY <1>1, <3>2 DEF IInv, CheckInv, CheckTells
    <3>4. i = 1
      BY <3>3 DEF Asked
    <3>5. Everyone = <<1>>
      BY <3>3 DEF Everyone
    <3>6. Joined(Everyone) = OwnRows(1) /\ Total = RowsIn(1)
      BY <1>1, <1>2, <3>4, <3>5, JoinedOne, JoinedAll, OwnRowsType
    <3>7. H = Own(1) /\ Len(H) = Total /\ H \in Seq(Result)
      <4>1. Len(Joined(Everyone)) = RowsIn(1)
        BY <1>1, <1>2, <3>6, JoinedAll
      <4>2. ValuesOf(H, Joined(Everyone))
        BY <3>1 DEF Sliced
      <4> HIDE DEF H
      <4> QED
        BY <1>1, <1>2, <3>3, <3>4, <3>6, <4>1, <4>2, OwnIs DEF ValuesOf
    <3>8. Part(H, 1) = H
      <4>1. Offset(0) = 0 /\ Offset(1) = Total
        BY <1>2, <3>3, Offsets DEF Total
      <4> HIDE DEF H
      <4> QED
        BY <3>7, <4>1, SubSeqFull DEF Part
    <3> QED
      BY <1>14, <3>1, <3>4, <3>7, <3>8
  <2>2. Padded(RowsIn(1))' = Padded(RowsIn(1)) /\ Asked = 1..Len(requests)
    BY <1>3 DEF Padded, RowsIn, Asked
  <2> QED
    BY <1>1, <1>3, <1>12, <1>13, <2>1, <2>2 DEF AnswersPure
<1>18. AnswersInv'
  <2>1. RowsAgree' /\ SameLayout' /\ Len(answers') = Len(requests') /\ pc' = "idle"
    BY <1>1, <1>3, <1>11, BatchStays
  <2> HIDE DEF Put
  <2> QED
    BY <1>1, <1>15, <1>16, <1>17, <2>1 DEF AnswersInv
<1> QED
  BY <1>4, <1>5, <1>6, <1>8, <1>9, <1>18 DEF IInv

-----------------------------------------------------------------------------
(* The theorems *)

LEMMA StepInv == IInv /\ [Next]_vars => IInv'
<1> SUFFICES ASSUME IInv, [Next]_vars PROVE IInv'
  OBVIOUS
<1> USE DEF Next, Serve
<1>1. CASE Publish
  <2>1. published' \in 1..MaxVersions
    BY <1>1, ForwardAssumption DEF Publish, IInv, StateTypes, ForwardAssumption
  <2> QED
    BY <1>1, <2>1, PublishInv DEF Publish
<1>2. CASE Sync
  BY <1>2, SyncInv
<1>3. CASE Batch
  BY <1>3, BatchInv
<1>4. CASE Collate
  BY <1>4, CollateInv
<1>5. CASE Look
  BY <1>5, LookInv
<1>6. CASE Capture
  BY <1>6, CaptureInv
<1>7. CASE RunnerFails
  BY <1>7, RunnerFailsInv
<1>8. CASE Replay
  BY <1>8, ReplayInv
<1>9. CASE Compare
  BY <1>9, CompareInv
<1>10. CASE Eager
  BY <1>10, EagerInv
<1>11. CASE Split
  BY <1>11, SplitInv
<1>12. CASE Check
  BY <1>12, CheckStepInv
<1>13. CASE Alone
  BY <1>13, AloneInv
<1>14. CASE Put
  BY <1>14, PutInv
<1>15. CASE ModelRaises
  BY <1>15, ModelRaisesInv
<1>16. CASE UNCHANGED vars
  <2>1. published' \in 1..MaxVersions
    BY <1>16 DEF IInv, StateTypes, vars, weightVars
  <2> QED
    BY <1>16, <2>1, PublishInv DEF vars, weightVars
<1> QED
  BY <1>1, <1>2, <1>3, <1>4, <1>5, <1>6, <1>7, <1>8, <1>9, <1>10, <1>11, <1>12, <1>13, <1>14,
     <1>15, <1>16

\* The inductive invariant holds in every state of the service.
THEOREM Invariance == Spec => []IInv
<1>1. Init => IInv
  BY InitInv
<1>2. IInv /\ [Next]_vars => IInv'
  BY StepInv
<1> QED
  BY <1>1, <1>2, PTL DEF Spec

\* The variables keep to their types, and no captured graph is wider than the widest
\* batch rounded up to a power of two (cudagraph.py: _bucket_for and the limit in __call__).
THEOREM TypeCorrect == Spec => []TypeOK
<1>1. IInv => TypeOK
  <2> SUFFICES ASSUME IInv PROVE TypeOK
    OBVIOUS
  <2>1. \A k \in DOMAIN graphs : k[2] \in Layouts
    BY DEF IInv, GraphTypes
  <2> QED
    BY <2>1 DEF IInv, StateTypes, GraphTypes, TypeOK
<1> QED
  BY <1>1, Invariance, PTL

\* The slices of split are the rows of their requests, whatever was batched together and
\* however much padding a graph replayed with them, in every field that is neither a tie
\* nor was sliced on the wrong axis of a graph's output (rpc.py: split; cudagraph.py:
\* slice_outputs; batched.py: _serve_rpc).
THEOREM AnswersAreOwn == Spec => []RowsAreOwn
<1>1. IInv => RowsAreOwn
  BY DEF IInv, AnswersInv
<1> QED
  BY <1>1, Invariance, PTL

\* load_state_dict copies in place, so that a graph captured once reads the weights of the
\* last sync for ever (batched.py: ModuleReplica.sync).
THEOREM AnswersAreCurrent == Spec => []WeightsAreSynced
<1>1. IInv => WeightsAreSynced
  BY DEF IInv, AnswersInv
<1> QED
  BY <1>1, Invariance, PTL

\* With the check for row independence on, and a field that it can tell by, nobody is
\* answered out of the company of other requests: the second request of the first merged
\* batch gives a model that mixes rows away at the latest.  A field that was sliced on the
\* wrong axis of a graph's output is excepted (batched.py: _verify_row_independence).
THEOREM AnswersAreIndependent == Spec => []AnswersPure
<1>1. IInv => AnswersPure
  BY DEF IInv, AnswersInv
<1> QED
  BY <1>1, Invariance, PTL

LEMMA ReplayIsEager == IInv => GraphIsEager
<1> SUFFICES ASSUME IInv, pc \in {"split", "alone"}, outputs.key # NoKey, NEW f \in Fields
             PROVE  \/ Value(outputs, f) = Whole(f, Forward(input, layout, bound))
                    \/ /\ Padded(Len(input))
                       /\ mixing = "sum" \/ ((mixing = "mean" \/ f.axis # 0) /\ ~Padded(verified[Key]))
  BY DEF GraphIsEager
<1>1. Key \in DOMAIN verified /\ enabled
  <2>1. Fresh(Forward(input, layout, bound)).key = NoKey
    BY DEF Fresh
  <2>2. ~EagerOutputs
    BY <2>1 DEF EagerOutputs
  <2> QED
    BY <2>2 DEF IInv, OutputsInv
<1>2. ValuesOf(Values(outputs), input) /\ mixing \in {"none", "sum", "mean"}
  BY OutputsAre, Basics DEF IInv
<1>3. CASE Misread(f, Len(input))
  <2>1. <<Bucket(Len(input)), layout>> = Key
    BY DEF Key
  <2>2. f.axis # 0 /\ Padded(Len(input)) /\ ~Padded(verified[Key])
    BY <1>3, <2>1 DEF Misread, Sliceable
  <2> QED
    BY <2>2
<1>4. CASE Value(outputs, f) = Whole(f, Values(outputs))
  <2>1. CASE mixing = "none" \/ ~Padded(Len(input))
    <3>1. Values(outputs) = Forward(input, layout, bound)
      BY <1>2, <2>1 DEF ValuesOf
    <3> QED
      BY <1>4, <3>1
  <2>2. CASE mixing = "mean" /\ Padded(Len(input)) /\ Padded(verified[Key])
    <3>1. verified[Key] = 0 /\ Key[1] = Bucket(verified[Key])
      BY <1>1, <2>2 DEF IInv, VerifiedInv
    <3>2. Bucket(Len(input)) = 2 /\ Len(input) \in Nat
      BY <3>1, InputRows, KeyType, BucketBounds DEF IInv
    <3>3. Len(input) # 2
      BY <2>2, <3>2 DEF Padded
    <3>4. Len(input) = 0
      <4>1. Len(input) <= 2 /\ (Len(input) # 0 => 2 < 2 * Len(input))
        BY <3>2, BucketBounds
      <4>2. \A n \in Nat : n # 2 /\ n <= 2 /\ (n # 0 => 2 < 2 * n) => n = 0
        OBVIOUS
      <4> QED
        BY <3>2, <3>3, <4>1, <4>2
    <3>5. Forward(input, layout, bound) \in Seq(Result) /\ Len(Forward(input, layout, bound)) = 0
      BY <3>4, InputRows, Basics, ForwardType DEF IInv
    <3>6. Values(outputs) \in Seq(Result) /\ Len(Values(outputs)) = 0
      BY <1>2, <3>4 DEF ValuesOf
    <3>7. Values(outputs) = Forward(input, layout, bound)
      BY <3>5, <3>6, SeqEqual
    <3> QED
      BY <1>4, <3>7
  <2> QED
    BY <1>2, <2>1, <2>2
<1> QED
  BY <1>3, <1>4, FieldIs

\* What a graph returns is what the eager forward would, but for the padding that a model
\* which mixes rows sees, and for a field on another axis in a batch shorter than the one
\* the graph was compared on (cudagraph.py: __call__, slice_outputs and _verify).
THEOREM GraphsAreEager == Spec => []GraphIsEager
<1>1. IInv => GraphIsEager
  BY ReplayIsEager
<1> QED
  BY <1>1, Invariance, PTL

\* The service dies of a payload only if its arrays disagree, of a join only if the requests
\* of the batch have different layouts, and of the check for row independence only if the
\* model mixes rows or the axis of a field was mistaken: a graph that fails, at any step,
\* falls back to the eager forward.
THEOREM AlarmsAreTrue == Spec => []NoFalseAlarm
<1>1. IInv => NoFalseAlarm
  BY DEF IInv
<1> QED
  BY <1>1, Invariance, PTL

-----------------------------------------------------------------------------
(* Refinement *)

LEMMA RefinesInit == Init => Batches!Init
<1> SUFFICES ASSUME Init PROVE Batches!Init
  OBVIOUS
<1>1. Told = <<>>
  BY DEF Init, Told
<1>2. Pure
  BY DEF Init, Pure
<1>3. Phase = "idle"
  BY DEF Init, Phase
<1> QED
  BY <1>1, <1>2, <1>3 DEF Init, Batches!Init

\* What was told stays, and stays pure.
LEMMA ToldStays ==
  ASSUME UNCHANGED <<mixing, memory, bound, served, requests, layouts, verified, answers>>
  PROVE  Told' = Told /\ Pure' = Pure
<1>1. \A i : Own(i)' = Own(i)
  BY DEF Own, Forward, Beside, Tokens, RowsIn
<1>2. Known' = Known
  BY KnownStays
<1>3. Told' = Told
  BY <1>2 DEF Told
<1>4. Pure' = Pure
  BY <1>1, <1>2 DEF Pure
<1> QED
  BY <1>3, <1>4

LEMMA NothingTold == ASSUME answers = <<>> PROVE Told = <<>> /\ Pure = TRUE
<1>1. 1..Len(answers) = {}
  OBVIOUS
<1>2. Told = <<>>
  BY <1>1 DEF Told
<1>3. Pure = TRUE
  BY <1>1 DEF Pure
<1> QED
  BY <1>2, <1>3

\* Between its arrival and its answers a batch goes on, or fails, unseen.
LEMMA RefinesServing ==
  ASSUME IInv, BatchKept, pc \notin {"idle", "failed"}, pc' # "idle"
  PROVE  [Batches!Next]_(Batches!vars)
<1>1. Told = <<>> /\ Pure = TRUE /\ Told' = <<>> /\ Pure' = TRUE
  <2>1. answers = <<>> /\ answers' = <<>>
    BY AnswersKept DEF BatchKept
  <2>2. Told = <<>> /\ Pure = TRUE
    BY <2>1, NothingTold
  <2>3. Told' = <<>> /\ Pure' = TRUE
    BY <2>1 DEF Told, Pure
  <2> QED
    BY <2>2, <2>3
<1>2. Phase = "serving" /\ Phase' \in {"serving", "failed"}
  BY DEF Phase
<1>3. CASE Phase' = "serving"
  BY <1>1, <1>2, <1>3 DEF BatchKept, Batches!vars
<1>4. CASE Phase' = "failed"
  <2>1. Batches!Fail
    BY <1>1, <1>2, <1>4 DEF BatchKept, Batches!Fail
  <2> QED
    BY <2>1 DEF Batches!Next
<1> QED
  BY <1>2, <1>3, <1>4

\* What nothing mistakes was not mistaken.
LEMMA SureIsKnown == Sure \subseteq Known /\ Known \subseteq Fields
<1>1. \A f \in Sure : f \in Fields /\ ~Tie(f) /\ \A n : ~Misread(f, n)
  BY DEF Sure, Tie, Misread
<1> QED
  BY <1>1 DEF Known

\* What is left of an answer without what was beside its rows.
Plain(v) == [p \in 1..Len(v.rows) |->
               [row |-> v.rows[p].row, layout |-> v.rows[p].layout, weights |-> v.rows[p].weights]]

LEMMA RefinesPut ==
  ASSUME IInv, IInv', Put
  PROVE  Batches!Answer
<1> USE DEF Put, weightVars, batchVars, runnerVars
<1>1. /\ pc = "put" /\ pc' = "idle" /\ answers' = Responses /\ RowsAgree /\ SameLayout
      /\ UNCHANGED <<mixing, published, memory, bound, served, requests, layouts, verified, lastSync>>
  BY DEF IInv, PhaseInv, Serving
<1>2. StateTypes /\ RequestTypes /\ Len(requests) \in Nat /\ Len(requests) # 0
      /\ Len(Joined(Everyone)) = Total
  BY <1>1, Basics, JoinedAll DEF IInv, PhaseInv, Serving
<1>3. host.key = NoKey /\ \A f \in Fields : FieldOf(host.copy[f], f, Joined(Everyone))
  BY <1>1 DEF IInv, HostInv
<1>4. /\ Len(Responses) = Len(requests)
      /\ \A i \in Asked, f \in Known : f \in Fields /\ Sliced(i, f)
  BY <1>1, <1>2, <1>3, ResponsesAre DEF Known, Tied
<1>5. Known' = Known
  BY <1>1, KnownStays
<1> HIDE DEF Put
<1>6. ASSUME NEW i \in Asked, NEW f \in Known
      PROVE  Plain(Responses[i][f]) = Batches!Own(i)
  <2> DEFINE P == Part(host.copy[f].rows, i)
  <2>1. Responses[i][f] = Whole(f, P) /\ ValuesOf(host.copy[f].rows, Joined(Everyone))
    BY <1>4 DEF Sliced
  <2>2. /\ RowsIn(i) \in Nat /\ P \in Seq(Result) /\ Len(P) = RowsIn(i)
        /\ \A j \in 1..RowsIn(i) :
             P[j].row = Twin(i, j) /\ P[j].layout = layout /\ P[j].weights = lastSync
    BY <1>1, <1>2, <2>1, PartIs, OwnRowsType
  <2>3. Responses[i][f].rows = P
    BY <1>4, <2>1, <2>2, WholeType
  <2>4. layouts[i] = layout
    BY <1>1 DEF SameLayout, Asked
  <2> HIDE DEF P
  <2>5. \A p \in 1..RowsIn(i) :
          [row |-> P[p].row, layout |-> P[p].layout, weights |-> P[p].weights]
            = [row |-> Twin(i, p), layout |-> layouts[i], weights |-> lastSync]
    BY <2>2, <2>4
  <2> QED
    BY <2>2, <2>3, <2>5 DEF Plain, Batches!Own, RowsIn, Twin
<1>7. Told' = [i \in 1..Len(requests) |-> [f \in Sure \cup (Known \ Sure) |-> Batches!Own(i)]]
  <2>1. Told' = [i \in 1..Len(requests) |-> [f \in Known |-> Plain(Responses[i][f])]]
    BY <1>1, <1>4, <1>5 DEF Told, Plain
  <2>2. Sure \cup (Known \ Sure) = Known
    BY SureIsKnown
  <2> QED
    BY <1>6, <2>1, <2>2 DEF Asked
<1>8. Known \ Sure \in SUBSET (Fields \ Sure)
  BY SureIsKnown
<1>9. ASSUME ~(mixing # "none" /\ (CheckTells => Len(requests) = 1)) PROVE Pure'
  <2>1. answers' # <<>>
    BY <1>1, <1>2, <1>4
  <2>2. \A i \in 1..Len(requests), f \in Known :
          \/ answers'[i][f] = Whole(f, Own(i)')
          \/ mixing # "none" /\ (CheckTells => Len(requests) = 1)
    <3>1. AnswersPure'
      BY DEF IInv, AnswersInv
    <3>2. Known' = Known /\ requests' = requests /\ mixing' = mixing
      BY <1>1, <1>5
    <3>3. CheckTells' <=> CheckTells
      BY DEF CheckTells, Sliceable
    <3>4. \A f, v : Whole(f, v)' = Whole(f, v)
      BY DEF Whole
    <3> QED
      BY <2>1, <3>1, <3>2, <3>3 DEF AnswersPure, Whole
  <2>3. \A i \in 1..Len(requests), f \in Known : answers'[i][f] = Whole(f, Own(i)')
    BY <1>9, <2>2
  <2> QED
    BY <1>1, <1>4, <1>5, <2>3 DEF Pure, Whole
<1>10. Pure' \in BOOLEAN
  BY DEF Pure
<1>11. \A i \in 1..Len(requests) : requests[i][1] = requests[i][2] /\ layouts[i] = layouts[1]
  BY <1>1 DEF RowsAgree, SameLayout, layout
<1>12. Phase = "serving" /\ Phase' = "idle"
  BY <1>1 DEF Phase
<1>13. Pure' \in (IF Batches!MayMix THEN BOOLEAN ELSE {TRUE})
  BY <1>9, <1>10 DEF Batches!MayMix
<1> QED
  BY <1>1, <1>7, <1>8, <1>11, <1>12, <1>13 DEF Batches!Answer

LEMMA RefinesStep ==
  ASSUME IInv, [Next]_vars
  PROVE  [Batches!Next]_(Batches!vars)
<1> USE DEF weightVars, batchVars, runnerVars, ghostVars
<1>1. CASE Publish
  <2>1. Told' = Told /\ Pure' = Pure /\ Phase' = Phase
    BY <1>1, ToldStays DEF Publish, Phase
  <2>2. Batches!Publish
    BY <1>1, <2>1 DEF Publish, Batches!Publish
  <2> QED
    BY <2>2 DEF Batches!Next
<1>2. ASSUME answers' = <<>> PROVE Told' = <<>> /\ Pure' = TRUE
  <2>1. 1..Len(answers') = {}
    BY <1>2
  <2> QED
    BY <2>1 DEF Told, Pure
<1>3. CASE Sync
  <2>1. Phase = "idle" /\ Phase' = "idle" /\ Told' = <<>> /\ Pure' = TRUE
    BY <1>2, <1>3 DEF Sync, Phase
  <2>2. Batches!Sync
    BY <1>3, <2>1 DEF Sync, Batches!Sync, Batches!Forget
  <2> QED
    BY <2>2 DEF Batches!Next
<1>4. CASE Batch
  <2>1. Phase = "idle" /\ Phase' = "serving" /\ Told' = <<>> /\ Pure' = TRUE
    BY <1>2, <1>4 DEF Batch, Phase
  <2>2. /\ requests' \in Seq(Payloads) /\ Len(requests') \in 1..BatchSize
        /\ layouts' \in [1..Len(requests') -> Layouts]
    <3>1. PICK n \in 1..BatchSize : requests' \in [1..n -> Payloads]
      BY <1>4 DEF Batch
    <3> QED
      BY <1>4, <3>1 DEF Batch
  <2>3. Batches!Arrive
    BY <1>4, <2>1, <2>2 DEF Batch, Batches!Arrive, Batches!Forget
  <2> QED
    BY <2>3 DEF Batches!Next
<1>5. CASE Put
  BY <1>5, StepInv, RefinesPut DEF Batches!Next, Next, Serve
<1>6. CASE Collate \/ Look \/ Capture \/ RunnerFails \/ Replay \/ Compare \/ Eager
           \/ Split \/ Check \/ Alone \/ ModelRaises
  <2>1. BatchKept
    BY <1>6 DEF BatchKept, Collate, Look, Capture, RunnerFails, Replay, Compare, Eager, Split,
                Check, Alone, ModelRaises
  <2>2. pc \notin {"idle", "failed"} /\ pc' # "idle"
    BY <1>6 DEF Collate, Look, Capture, RunnerFails, Replay, Compare, Eager, Split,
                Check, Alone, ModelRaises, Enter, Fail, Returned, Disable
  <2> QED
    BY <2>1, <2>2, RefinesServing
<1>7. CASE UNCHANGED vars
  BY <1>7, ToldStays DEF vars, Phase, Batches!vars
<1> QED
  BY <1>1, <1>3, <1>4, <1>5, <1>6, <1>7 DEF Next, Serve

\* The path of a batch, by graph or not, merged, padded, checked and split, implements
\* batches that are answered in one step by their own rows and the weights of the last
\* sync, in every field whose axis nothing can mistake, and perhaps in more; or that end
\* the service (batched.py: _serve_queued).
THEOREM Implements == Spec => ServesAtomically
<1>1. IInv /\ [Next]_vars => [Batches!Next]_(Batches!vars)
  BY RefinesStep
<1> QED
  BY RefinesInit, Invariance, <1>1, PTL DEF Spec, ServesAtomically, Batches!Spec

=============================================================================
