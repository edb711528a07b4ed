--------------------------- MODULE MCWorkerMonitor ---------------------------
(***************************************************************************)
(* Instances of WorkerMonitor for TLC.                                     *)
(***************************************************************************)
EXTENDS WorkerMonitor

\* Every restartable worker may be restarted as often as its index says.
Budgets == [w \in Workers |-> IF w \in Restartable THEN w - 1 ELSE 0]

=============================================================================
