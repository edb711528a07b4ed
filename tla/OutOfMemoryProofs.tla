-------------------------- MODULE OutOfMemoryProofs ---------------------------
(***************************************************************************)
(* The walk of is_oom_error is right for every graph of exceptions, and    *)
(* what the supervisor is told is true.  What the walk has seen is part of *)
(* the chain and holds the links of all its members but the last; when the *)
(* walk runs out it is closed, and then it is the whole chain.             *)
(***************************************************************************)
EXTENDS OutOfMemory, TLAPS

\* The chain has a member that reports memory exhaustion.
HasOom == Chain \cap direct # {}

\* Where the walk is, in terms of the chain.
WalkInv ==
  /\ seen \subseteq Chain /\ current \in Chain \cup {None}
  /\ pc = "walk" =>
       /\ ~verdict /\ seen \cap direct = {}
       /\ Raised \in seen \cup {current}
       /\ \A e \in seen : Link(e) \in seen \cup {current, None}

\* What follows from the verdict.
OutcomeInv ==
  /\ pc = "judged" => (verdict <=> HasOom)
  /\ pc = "handled" => ~HasOom
  /\ pc # "over" => exitcode = "none" /\ exception = "none"
  /\ exitcode = "oom" => HasOom
  /\ exception = "abort" => HasOom
  /\ reason \in {"oom", "abort"} => HasOom
  /\ reason = "sigkill" => exitcode = "sigkill"

Inv == TypeOK /\ WalkInv /\ OutcomeInv

-----------------------------------------------------------------------------
(* The chain *)

\* The chain begins with the exception that was raised.
LEMMA ChainBegins == Raised \in Chain
  BY RaisedAssumption DEF Chain

\* The link of a member of the chain is a member, or there is none.
LEMMA ChainLinks ==
  ASSUME TypeOK, NEW e \in Chain
  PROVE  Link(e) \in Chain \cup {None}
<1>1. e \in Exceptions
  BY DEF Chain
<1>2. Link(e) \in Exceptions \cup {None}
  BY <1>1 DEF TypeOK, Link
<1>3. CASE Link(e) = None
  BY <1>3
<1>4. CASE Link(e) \in Exceptions /\ Link(e) # None
  <2>1. ASSUME NEW set \in SUBSET Exceptions, Raised \in set, Closed(set)
        PROVE  Link(e) \in set
    <3>1. e \in set
      BY <2>1 DEF Chain
    <3>2. QED
      BY <3>1, <2>1, <1>4 DEF Closed
  <2>2. QED
    BY <2>1, <1>4 DEF Chain
<1>5. QED
  BY <1>2, <1>3, <1>4

\* The chain is the least set of its kind.
LEMMA ChainIsLeast ==
  ASSUME NEW set \in SUBSET Exceptions, Raised \in set, Closed(set)
  PROVE  Chain \subseteq set
  BY DEF Chain

\* The chain stays as it is while the graph does.
LEMMA ChainStays ==
  ASSUME UNCHANGED graph
  PROVE  Chain' = Chain /\ HasOom' = HasOom /\ (\A e \in Exceptions : Link(e)' = Link(e))
<1>1. cause' = cause /\ context' = context /\ direct' = direct
  BY DEF graph
<1>2. \A e \in Exceptions : Link(e)' = Link(e)
  BY <1>1 DEF Link
<1>3. Chain' = Chain
  BY <1>1 DEF Chain, Closed, Link
<1>4. QED
  BY <1>1, <1>2, <1>3 DEF HasOom

-----------------------------------------------------------------------------
(* The invariant *)

LEMMA InitInv == Init => Inv
<1> SUFFICES ASSUME Init PROVE Inv
  OBVIOUS
<1>1. TypeOK
  <2>1. current \in Exceptions \cup {None}
    BY RaisedAssumption DEF Init
  <2>2. verdict \in BOOLEAN
    BY DEF Init
  <2>3. QED
    BY <2>1, <2>2 DEF Init, TypeOK
<1>2. WalkInv
  BY ChainBegins DEF Init, WalkInv
<1>3. OutcomeInv
  BY DEF Init, OutcomeInv
<1>4. QED
  BY <1>1, <1>2, <1>3 DEF Inv

LEMMA TypeStep ==
  ASSUME TypeOK, [Next]_vars
  PROVE  TypeOK'
<1> USE DEF TypeOK, graph, walk, outcome
<1>1. CASE FindsOom
  BY <1>1 DEF FindsOom, RunOut
<1>2. CASE Follows
  <2>1. current \in Exceptions /\ Link(current) \in Exceptions \cup {None}
    BY <1>2 DEF Follows, RunOut, Link
  <2>2. QED
    BY <1>2, <2>1 DEF Follows, RunOut
<1>3. CASE FindsNone
  BY <1>3 DEF FindsNone
<1>4. CASE ExitsWorker
  BY <1>4 DEF ExitsWorker, OsExit
<1>5. CASE RaisesAbort
  BY <1>5 DEF RaisesAbort
<1>6. CASE Swallows
  BY <1>6 DEF Swallows
<1>7. CASE Ends
  BY <1>7 DEF Ends
<1>8. CASE OsKills
  BY <1>8 DEF OsKills
<1>9. CASE ReadsExitcode
  BY <1>9 DEF ReadsExitcode, OomCode
<1>10. CASE ReadsException
  BY <1>10 DEF ReadsException
<1>11. CASE ClosesHandle
  BY <1>11 DEF ClosesHandle
<1>12. CASE UNCHANGED vars
  BY <1>12 DEF vars
<1>13. QED
  BY <1>1, <1>2, <1>3, <1>4, <1>5, <1>6, <1>7, <1>8, <1>9, <1>10, <1>11, <1>12
     DEF Next, HandlerStep, Supervises

\* No step touches the graph.
LEMMA GraphStays ==
  ASSUME [Next]_vars
  PROVE  UNCHANGED graph
  BY DEF Next, HandlerStep, Supervises, vars, FindsOom, Follows, FindsNone, ExitsWorker,
         RaisesAbort, Swallows, Ends, OsKills, ReadsExitcode, ReadsException, ClosesHandle

LEMMA WalkStep ==
  ASSUME Inv, [Next]_vars
  PROVE  WalkInv'
<1>1. /\ Chain' = Chain
      /\ \A e \in Exceptions : Link(e)' = Link(e)
      /\ direct' = direct
  BY GraphStays, ChainStays DEF graph
<1>2. Chain \subseteq Exceptions
  BY DEF Chain
<1> USE DEF Inv, WalkInv
<1>3. CASE FindsOom
  <2>1. seen' = seen \cup {current} /\ current' = current /\ pc' = "judged" /\ current \in Chain
    BY <1>3 DEF FindsOom, RunOut, graph
  <2>2. QED
    BY <2>1, <1>1
<1>4. CASE Follows
  <2>1. /\ pc = "walk" /\ current # None /\ current \notin direct /\ current \in Chain
        /\ seen' = seen \cup {current} /\ current' = Link(current)
        /\ pc' = pc /\ verdict' = verdict
    BY <1>4 DEF Follows, RunOut
  <2>2. current' \in Chain \cup {None}
    BY <2>1, ChainLinks
  <2>3. ~verdict' /\ seen' \cap direct' = {}
    BY <2>1, <1>1
  <2>4. Raised \in seen' \cup {current'}
    BY <2>1
  <2>5. ASSUME NEW e \in seen'
        PROVE  Link(e)' \in seen' \cup {current', None}
    <3>1. e \in Exceptions /\ Link(e)' = Link(e)
      BY <2>1, <1>1, <1>2
    <3>2. QED
      BY <3>1, <2>1
  <2>6. seen' \subseteq Chain
    BY <2>1
  <2>7. QED
    BY <2>2, <2>3, <2>4, <2>5, <2>6, <1>1
<1>5. CASE pc' # "walk" /\ seen' = seen /\ current' = current
  BY <1>5, <1>1
<1>6. CASE UNCHANGED <<pc, walk>>
  <2>1. pc' = pc /\ seen' = seen /\ current' = current /\ verdict' = verdict
    BY <1>6 DEF walk
  <2>2. \A e \in seen : Link(e)' = Link(e)
    BY <1>1, <1>2
  <2>3. QED
    BY <2>1, <2>2, <1>1
<1>7. FindsOom \/ Follows \/ (pc' # "walk" /\ seen' = seen /\ current' = current) \/ UNCHANGED <<pc, walk>>
  BY DEF Next, HandlerStep, Supervises, vars, FindsNone, ExitsWorker, walk,
         RaisesAbort, Swallows, Ends, OsKills, ReadsExitcode, ReadsException, ClosesHandle
<1>8. QED
  BY <1>3, <1>4, <1>5, <1>6, <1>7

\* When the walk runs out it has been everywhere, and found nothing.
LEMMA RunOutMeansNone ==
  ASSUME Inv, pc = "walk", RunOut
  PROVE  ~HasOom
<1>1. Raised # None
  BY RaisedAssumption
<1>2. seen \in SUBSET Exceptions /\ Raised \in seen /\ Closed(seen)
  BY <1>1 DEF Inv, WalkInv, RunOut, TypeOK, Closed
<1>3. Chain \subseteq seen
  BY <1>2, ChainIsLeast
<1>4. QED
  BY <1>3 DEF Inv, WalkInv, HasOom

LEMMA OutcomeStep ==
  ASSUME Inv, [Next]_vars
  PROVE  OutcomeInv'
<1>1. HasOom' = HasOom
  BY GraphStays, ChainStays
<1>2. verdict \in BOOLEAN /\ HasOom \in BOOLEAN
  BY DEF Inv, TypeOK, HasOom
<1> USE DEF Inv, OutcomeInv, walk, outcome
<1>3. CASE FindsOom
  <2>1. HasOom
    BY <1>3 DEF FindsOom, RunOut, WalkInv, HasOom
  <2>2. verdict' = TRUE /\ pc' = "judged" /\ UNCHANGED outcome /\ pc = "walk"
    BY <1>3 DEF FindsOom
  <2>3. QED
    BY <2>1, <2>2, <1>1
<1>4. CASE Follows
  BY <1>4, <1>1 DEF Follows
<1>5. CASE FindsNone
  <2>1. ~HasOom
    BY <1>5, RunOutMeansNone DEF FindsNone
  <2>2. ~verdict /\ verdict' = verdict /\ pc' = "judged" /\ UNCHANGED outcome /\ pc = "walk"
    BY <1>5 DEF FindsNone, WalkInv
  <2>3. QED
    BY <2>1, <2>2, <1>1
<1>6. CASE ExitsWorker
  BY <1>6, <1>1 DEF ExitsWorker, OsExit
<1>7. CASE RaisesAbort
  BY <1>7, <1>1 DEF RaisesAbort
<1>8. CASE Swallows
  BY <1>8, <1>1 DEF Swallows
<1>9. CASE Ends
  BY <1>9, <1>1 DEF Ends
<1>10. CASE OsKills
  BY <1>10, <1>1 DEF OsKills
<1>11. CASE ReadsExitcode
  BY <1>11, <1>1 DEF ReadsExitcode, OomCode
<1>12. CASE ReadsException
  BY <1>12, <1>1 DEF ReadsException
<1>13. CASE ClosesHandle
  BY <1>13, <1>1 DEF ClosesHandle
<1>14. CASE UNCHANGED vars
  BY <1>14, <1>1 DEF vars
<1>15. QED
  BY <1>3, <1>4, <1>5, <1>6, <1>7, <1>8, <1>9, <1>10, <1>11, <1>12, <1>13, <1>14
     DEF Next, HandlerStep, Supervises

LEMMA Invariance == Spec => []Inv
<1>1. Inv /\ [Next]_vars => Inv'
  BY TypeStep, WalkStep, OutcomeStep DEF Inv
<1>2. QED
  BY InitInv, <1>1, PTL DEF Spec

-----------------------------------------------------------------------------
(* The results *)

\* The variables keep to their types.
THEOREM TypeCorrect == Spec => []TypeOK
  BY Invariance, PTL DEF Inv

\* The verdict is right for every graph of exceptions, cycles included, and however
\* deep the exception that reports memory exhaustion is wrapped.
THEOREM Classification == Spec => []VerdictIsRight
<1>1. Inv => VerdictIsRight
  BY DEF Inv, OutcomeInv, HasOom, VerdictIsRight
<1>2. QED
  BY Invariance, <1>1, PTL

\* No loop goes on after memory exhaustion.
THEOREM OomIsFatal == Spec => []NeverRetried
<1>1. Inv => NeverRetried
  BY DEF Inv, OutcomeInv, HasOom, NeverRetried
<1>2. QED
  BY Invariance, <1>1, PTL

\* The supervisor ends no run for memory exhaustion that was none, or no kill.
THEOREM NoFalseReport == Spec => []ReasonIsTrue
<1>1. Inv => ReasonIsTrue
  BY DEF Inv, TypeOK, OutcomeInv, HasOom, ReasonIsTrue
<1>2. QED
  BY Invariance, <1>1, PTL

=============================================================================
