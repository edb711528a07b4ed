---------------------------- MODULE BlockingCalls ----------------------------
(***************************************************************************)
(* What ServiceClient.call promises its callers, with no queue and no      *)
(* service in sight: a call blocks, then either returns the answer to the  *)
(* payload it was given or, only once the run has been stopped, raises.    *)
(* The stop event is never cleared.                                        *)
(***************************************************************************)
EXTENDS Naturals

CONSTANTS
  Callers,   \* threads of control that make calls
  None       \* no answer

VARIABLES
  phase,     \* per caller: idle, inside call(), or dead
  calls,     \* per caller: how many calls it has made
  answer,    \* per caller: the payload its last call was answered for
  raised,    \* per caller: its last call raised
  stopped    \* the stop event

vars == <<phase, calls, answer, raised, stopped>>

Init ==
  /\ phase = [k \in Callers |-> "idle"]
  /\ calls = [k \in Callers |-> 0]
  /\ answer = [k \in Callers |-> None]
  /\ raised = [k \in Callers |-> FALSE]
  /\ stopped = FALSE

Call(k) ==
  /\ phase[k] = "idle"
  /\ phase' = [phase EXCEPT ![k] = "calling"]
  /\ calls' = [calls EXCEPT ![k] = calls[k] + 1]
  /\ answer' = [answer EXCEPT ![k] = None]
  /\ raised' = [raised EXCEPT ![k] = FALSE]
  /\ UNCHANGED stopped

Finish(k) ==
  /\ phase[k] = "calling"
  /\ phase' = [phase EXCEPT ![k] = "idle"]
  /\ UNCHANGED <<calls, stopped>>

Return(k) ==
  /\ Finish(k)
  /\ answer' = [answer EXCEPT ![k] = <<k, calls[k]>>]
  /\ UNCHANGED raised

Raise(k) ==
  /\ stopped
  /\ Finish(k)
  /\ raised' = [raised EXCEPT ![k] = TRUE]
  /\ UNCHANGED answer

Die(k) ==
  /\ phase[k] = "calling"
  /\ phase' = [phase EXCEPT ![k] = "dead"]
  /\ UNCHANGED <<calls, answer, raised, stopped>>

Stop ==
  /\ stopped' = TRUE
  /\ UNCHANGED <<phase, calls, answer, raised>>

Next ==
  \/ \E k \in Callers : Call(k) \/ Return(k) \/ Raise(k) \/ Die(k)
  \/ Stop

Spec == Init /\ [][Next]_vars

=============================================================================
