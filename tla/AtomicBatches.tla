---------------------------- MODULE AtomicBatches ----------------------------
(***************************************************************************)
(* What the service promises of the batches of one rpc, with no collate,   *)
(* no graph and no check in sight: a batch is answered in one step, every  *)
(* request with its own rows in the weights of the last sync, or it ends   *)
(* the service.  BatchedService takes the forward of a batch in this way.  *)
(***************************************************************************)
EXTENDS Integers, Sequences

CONSTANTS
  Payloads,    \* what may be asked: <<rows of the 1st array, rows of the 2nd>>
  BatchSize,   \* most requests of a batch
  Layouts,     \* the shapes of a row
  Fields,      \* output fields whose axis nobody can mistake
  Others,      \* output fields that, in some batches, nothing is promised of
  Checked      \* merged batches are checked for row independence

VARIABLES
  mixes,                       \* the model mixes rows
  published, synced,           \* versions of the weights: the trainer's, the service's
  number, requests, layouts,   \* the batch: its number, its requests, their layouts
  phase,                       \* idle, serving a batch, or failed
  told,                        \* per request of the last batch and field: its rows
  pure                         \* they are what each request alone would have been told

vars == <<mixes, published, synced, number, requests, layouts, phase, told, pure>>

Init ==
  /\ mixes \in BOOLEAN
  /\ published = 1 /\ synced = 1
  /\ number = 0 /\ requests = <<>> /\ layouts = <<>>
  /\ phase = "idle" /\ told = <<>> /\ pure = TRUE

Publish ==
  /\ published' = published + 1
  /\ UNCHANGED <<mixes, synced, number, requests, layouts, phase, told, pure>>

Forget == told' = <<>> /\ pure' = TRUE

Sync ==
  /\ phase = "idle"
  /\ synced' = published /\ Forget
  /\ UNCHANGED <<mixes, published, number, requests, layouts, phase>>

Arrive ==
  /\ phase = "idle" /\ phase' = "serving"
  /\ number' = number + 1
  /\ requests' \in Seq(Payloads) /\ Len(requests') \in 1..BatchSize
  /\ layouts' \in [1..Len(requests') -> Layouts]
  /\ Forget
  /\ UNCHANGED <<mixes, published, synced>>

\* Row j of request i comes from both of its arrays.
Own(i) ==
  [j \in 1..requests[i][1] |->
     [row |-> <<<<number, i, j>>, <<number, i, j>>>>, layout |-> layouts[i], weights |-> synced]]

\* A check of merged batches leaves requests that come alone to be padded with others' rows.
MayMix == mixes /\ (Checked => Len(requests) = 1)

\* Only a batch of one layout whose requests have as many rows in one array as in the
\* other; and nothing but its own rows, of whatever field.
Answer ==
  /\ phase = "serving" /\ phase' = "idle"
  /\ \A i \in 1..Len(requests) : requests[i][1] = requests[i][2] /\ layouts[i] = layouts[1]
  /\ \E more \in SUBSET Others :
       told' = [i \in 1..Len(requests) |-> [f \in Fields \cup more |-> Own(i)]]
  /\ pure' \in (IF MayMix THEN BOOLEAN ELSE {TRUE})
  /\ UNCHANGED <<mixes, published, synced, number, requests, layouts>>

Fail ==
  /\ phase = "serving" /\ phase' = "failed"
  /\ UNCHANGED <<mixes, published, synced, number, requests, layouts, told, pure>>

Next == Publish \/ Sync \/ Arrive \/ Answer \/ Fail

Spec == Init /\ [][Next]_vars

=============================================================================
