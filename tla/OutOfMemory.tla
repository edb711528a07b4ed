----------------------------- MODULE OutOfMemory ------------------------------
(***************************************************************************)
(* The classification of an exception, and the way the verdict takes to    *)
(* the supervisor of the run: is_oom_error follows the chain of causes and *)
(* contexts, a worker process exits with a code of its own, a thread       *)
(* leaves an exception, and the supervisor reads the one or the other.     *)
(*                                                                         *)
(* An exception is what the walk can tell of it: its cause, its context,   *)
(* and whether it reports memory exhaustion itself.  Any graph of them is  *)
(* possible, with cycles, for both links may be assigned.                  *)
(***************************************************************************)
EXTENDS Naturals

CONSTANTS
  Exceptions,
  Raised,       \* the one that reaches the handler
  None          \* no exception

ASSUME RaisedAssumption == Raised \in Exceptions /\ None \notin Exceptions

VARIABLES
  cause, context,    \* per exception: __cause__, __context__
  direct,            \* those that report memory exhaustion themselves
  place,             \* the handler is in a worker process or in a thread of the parent
  pc,                \* walking, judged, handled, or over
  current, seen,     \* is_oom_error
  verdict,           \* what it returned
  exitcode,          \* of the worker process: "none" while it runs
  exception,         \* what the MonitoredThread recorded
  handle,            \* of the worker process, in the parent: open or closed
  reason             \* what process_oom_reason or thread_oom_reason returned

graph   == <<cause, context, direct, place>>
walk    == <<current, seen, verdict>>
outcome == <<exitcode, exception, handle, reason>>
vars    == <<graph, pc, walk, outcome>>

Init ==
  /\ cause \in [Exceptions -> Exceptions \cup {None}]
  /\ context \in [Exceptions -> Exceptions \cup {None}]
  /\ direct \in SUBSET Exceptions
  /\ place \in {"worker", "thread"}
  /\ pc = "walk" /\ current = Raised /\ seen = {} /\ verdict = FALSE
  /\ exitcode = "none" /\ exception = "none" /\ handle = "open" /\ reason = "none"

-----------------------------------------------------------------------------
(* is_oom_error *)

\* current.__cause__ or current.__context__: the context of an exception with a cause
\* is not looked at, that of one raised "from None" is.
Link(e) == IF cause[e] # None THEN cause[e] ELSE context[e]

\* Mutant: the depth is capped.
Capped == current = None \/ current \in seen \/ \E e, f \in seen : e # f

RunOut == current = None \/ current \in seen

FindsOom ==
  /\ pc = "walk" /\ ~RunOut /\ current \in direct
  /\ seen' = seen \cup {current}
  /\ verdict' = TRUE /\ pc' = "judged"
  /\ UNCHANGED <<graph, current, outcome>>

Follows ==
  /\ pc = "walk" /\ ~RunOut /\ current \notin direct
  /\ seen' = seen \cup {current}
  /\ current' = Link(current)
  /\ UNCHANGED <<graph, pc, verdict, outcome>>

FindsNone ==
  /\ pc = "walk" /\ RunOut
  /\ pc' = "judged"
  /\ UNCHANGED <<graph, walk, outcome>>

-----------------------------------------------------------------------------
(* The handler *)

\* Mutant: an orderly exit, with the status of any failure.
SysExit == "one"

OsExit == "oom"

\* abort_worker_on_oom
ExitsWorker ==
  /\ pc = "judged" /\ verdict /\ place = "worker" /\ exitcode = "none"
  /\ exitcode' = OsExit /\ pc' = "over"
  /\ UNCHANGED <<graph, walk, exception, handle, reason>>

\* raise_if_oom: the new exception escapes the handler, and MonitoredThread records it.
RaisesAbort ==
  /\ pc = "judged" /\ verdict /\ place = "thread"
  /\ exception' = "abort" /\ pc' = "over"
  /\ UNCHANGED <<graph, walk, exitcode, handle, reason>>

\* Anything else is logged, and the loop goes on ...
Swallows ==
  /\ pc = "judged" /\ ~verdict /\ exitcode = "none"
  /\ pc' = "handled"
  /\ UNCHANGED <<graph, walk, outcome>>

\* ... until the process or the thread ends by itself.
Ends ==
  /\ pc = "handled"
  /\ IF place = "worker" THEN exitcode' \in {"zero", "one"} /\ UNCHANGED exception
                         ELSE exception' \in {"none", "other"} /\ UNCHANGED exitcode
  /\ pc' = "over"
  /\ UNCHANGED <<graph, walk, handle, reason>>

\* The kernel kills the process, in the handler too.
OsKills ==
  /\ place = "worker" /\ exitcode = "none"
  /\ exitcode' = "sigkill" /\ pc' = "over"
  /\ UNCHANGED <<graph, walk, exception, handle, reason>>

-----------------------------------------------------------------------------
(* The supervisor *)

\* Mutant: any failure counts.
AnyFailure == exitcode \notin {"none", "zero"}

OomCode == exitcode \in {"oom", "sigkill"}

\* process_oom_reason
ReadsExitcode ==
  /\ place = "worker" /\ reason = "none"
  /\ handle = "open" /\ OomCode
  /\ reason' = exitcode
  /\ UNCHANGED <<graph, pc, walk, exitcode, exception, handle>>

\* thread_oom_reason
ReadsException ==
  /\ place = "thread" /\ reason = "none"
  /\ exception = "abort"
  /\ reason' = "abort"
  /\ UNCHANGED <<graph, pc, walk, exitcode, exception, handle>>

\* The handle is closed, as a shutdown does: exitcode raises, and the reason is None.
ClosesHandle ==
  /\ place = "worker" /\ handle = "open" /\ exitcode # "none"
  /\ handle' = "closed"
  /\ UNCHANGED <<graph, pc, walk, exitcode, exception, reason>>

HandlerStep == FindsOom \/ Follows \/ FindsNone \/ ExitsWorker \/ RaisesAbort \/ Swallows
Supervises  == ReadsExitcode \/ ReadsException

Next == HandlerStep \/ Ends \/ OsKills \/ Supervises \/ ClosesHandle

Spec == Init /\ [][Next]_vars

\* The handler is scheduled, and the supervisor polls.
FairSpec == Spec /\ WF_vars(HandlerStep) /\ WF_vars(Supervises)

-----------------------------------------------------------------------------
(* Properties *)

\* The variables keep to their types.
TypeOK ==
  /\ cause \in [Exceptions -> Exceptions \cup {None}]
  /\ context \in [Exceptions -> Exceptions \cup {None}]
  /\ direct \subseteq Exceptions
  /\ place \in {"worker", "thread"}
  /\ pc \in {"walk", "judged", "handled", "over"}
  /\ current \in Exceptions \cup {None} /\ seen \subseteq Exceptions
  /\ verdict \in BOOLEAN
  /\ exitcode \in {"none", "zero", "one", "oom", "sigkill"}
  /\ exception \in {"none", "other", "abort"}
  /\ handle \in {"open", "closed"}
  /\ reason \in {"none", "oom", "sigkill", "abort"}

\* The chain of an exception: what every set holds that has it and follows its links.
Closed(set) == \A e \in set : Link(e) \in set \cup {None}
Chain       == {e \in Exceptions : \A set \in SUBSET Exceptions :
                                     Raised \in set /\ Closed(set) => e \in set}

\* The walk finds memory exhaustion if and only if it is somewhere in the chain, however
\* long that is and wherever it leads back to.
VerdictIsRight == pc = "judged" => (verdict <=> Chain \cap direct # {})

\* A loop that goes on after a failure does not go on after memory exhaustion.
NeverRetried == pc = "handled" => Chain \cap direct = {}

\* Nothing is reported but memory exhaustion, or a kill.
ReasonIsTrue ==
  reason # "none" => Chain \cap direct # {} \/ exitcode = "sigkill"

\* Memory exhaustion in the chain reaches the supervisor, whatever the chain is like;
\* only a handle that is closed before it looks can hide it.
OomIsSeen == Chain \cap direct # {} ~> reason # "none" \/ handle = "closed"

=============================================================================
