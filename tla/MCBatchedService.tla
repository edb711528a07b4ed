-------------------------- MODULE MCBatchedService --------------------------
(***************************************************************************)
(* Instances of BatchedService for TLC.  A worker process is one caller    *)
(* and owns the client object of the same name; the client ids that the    *)
(* service can answer are the members of Served.                           *)
(***************************************************************************)
EXTENDS BatchedService, TLC

\* One client object per worker process, as documented.
OneClientEach == [k \in Callers |-> k]

\* Two threads of one worker process use the same client object.
SharedClient == [k \in Callers |-> CHOOSE c \in Clients : TRUE]

Symmetry == Permutations(Callers)

-----------------------------------------------------------------------------
(* What the repository's text says of the program and the code does not do *)

\* batched.py:434 and README.md:221-222: the client of a request that is dropped will
\* time out rather than be answered.
UnroutableTimesOut ==
  \A k \in Callers : (InCall(k) /\ ClientOf[k] \notin Served) ~> ~InCall(k)

=============================================================================
