------------------------------ MODULE ForwardPath ------------------------------
(***************************************************************************)
(* What a batch of one rpc goes through in the service: collate, the       *)
(* forward, eager or replayed from a captured CUDA graph, split, and the   *)
(* check that the model does not mix rows, which goes through the forward  *)
(* again, once for each request.                                           *)
(*                                                                         *)
(* A row is a token, and so is the part that each array of a payload has   *)
(* of it; the model is what its output tells of: the row, the weights, the *)
(* layout it was traced for and, if it mixes rows, the rows beside it.     *)
(* An array of the output is its rows and what is left of its other axis.  *)
(* Devices, dtypes and the queue transport's messages are left out.        *)
(***************************************************************************)
EXTENDS Integers, Sequences, FiniteSets, SequencesExt

CONSTANTS
  Payloads,    \* what a client may send: <<rows of the 1st array, rows of the 2nd>>
  BatchSize,   \* most requests of a batch
  Layouts,     \* the shapes of a row that clients send
  Fields,      \* output fields: [axis |-> the batch axis, other |-> the extent of the other]
  RowAxis,     \* row_axis of the TensorRpc
  MaxRows,     \* max_graph_rows; 0 without a runner
  VerifyRows,  \* verify_row_independence
  Mixings,     \* how the model may mix rows: a subset of {"none", "sum", "mean"}
  Faults,      \* what may raise: a subset of {"capture", "replay", "model"}
  MaxBatches,  \* bound: batches served
  MaxVersions  \* bound: weights published

ASSUME ForwardAssumption ==
  /\ Payloads \subseteq Nat \X Nat /\ BatchSize \in Nat \ {0}
  /\ RowAxis \in {0, 1} /\ MaxRows \in Nat /\ VerifyRows \in BOOLEAN
  /\ \A f \in Fields : f.axis \in {0, RowAxis} /\ f.other \in Nat \ {0}
  /\ MaxBatches \in Nat /\ MaxVersions \in Nat \ {0}
  /\ Mixings \subseteq {"none", "sum", "mean"} /\ Faults \subseteq {"capture", "replay", "model"}

VARIABLES
  mixing,                       \* how the model of this run mixes rows
  published, memory, bound,     \* the trainer's weights; the replica's, by address; its address
  served, requests, layouts,    \* the batch: its number, its payloads, their layouts
  pc,
  of,                           \* whose forward this is: 0 for the batch, or a request
  input, outputs, host,         \* the rows to forward, the tensors returned, their copy
  graphs, verified, enabled,    \* GraphRunner: _graphs; _verified, with the rows of the
                                \* batch that was compared; _enabled
  checked,                      \* rpc.name in _verified_rpcs
  answers,                      \* history: what the requests of the last batch were sent
  cause,                        \* history: what the service died of
  lastSync                      \* history: the version last synced

weightVars == <<published, memory, bound>>
batchVars  == <<served, requests, layouts>>
runnerVars == <<graphs, verified, enabled>>
ghostVars  == <<answers, cause, lastSync>>
vars == <<mixing, weightVars, batchVars, pc, of, input, outputs, host, runnerVars,
          checked, ghostVars>>

Phases == {"idle", "collate", "look", "capture", "replay", "compare", "eager",
           "split", "check", "alone", "put", "failed"}

NoKey == <<0, 0>>
Blank == <<0, 0, 0>>
NoTensor == [key |-> NoKey, count |-> 0, copy |-> <<>>]
ZeroRow == <<Blank, Blank>>      \* a row of torch.zeros

Init ==
  /\ mixing \in Mixings
  /\ published = 1 /\ memory = <<1, 1>> /\ bound = 1
  /\ served = 0 /\ requests = <<>> /\ layouts = <<>>
  /\ pc = "idle" /\ of = 0
  /\ input = <<>> /\ outputs = NoTensor /\ host = NoTensor
  /\ graphs = [k \in {} |-> 0] /\ verified = [k \in {} |-> 0] /\ enabled = (MaxRows > 0)
  /\ checked = FALSE
  /\ answers = <<>> /\ cause = "none" /\ lastSync = 1

-----------------------------------------------------------------------------
(* The model, and the tensors *)

\* Adding up the rows does not see a row of zeros, their mean does.
Beside(rows) ==
  CASE mixing = "none" -> <<{}, 0>>
    [] mixing = "sum"  -> <<ToSet(rows) \ {ZeroRow}, 0>>
    [] mixing = "mean" -> <<ToSet(rows) \ {ZeroRow}, Len(rows)>>

\* _ModelCall: the forward of some rows, with the weights at an address.
Forward(rows, lay, at) ==
  [p \in 1..Len(rows) |->
     [row |-> rows[p], layout |-> lay, weights |-> memory[at], beside |-> Beside(rows)]]

\* The array of a field that has all of its other axis.
Whole(f, rows) == [rows |-> rows, other |-> 1..f.other]

\* _CapturedGraph.slice_outputs: the first of axis 0, whatever the field has there.
SliceOutput(f, out, count) ==
  IF f.axis = 0 THEN Whole(f, SubSeq(out, 1, count))
                ELSE [rows |-> out, other |-> (1..f.other) \cap (1..count)]

\* The tensors a graph returns are views of its static outputs.
Value(t, f) == IF t.key = NoKey THEN t.copy[f] ELSE SliceOutput(f, graphs[t.key].out, t.count)

\* The tensors of an eager forward.
Fresh(rows) == [key |-> NoKey, count |-> 0, copy |-> [f \in Fields |-> Whole(f, rows)]]

\* The rows of the arrays of request i, in this batch, and the tokens of its rows.
Tokens(i, count)  == [j \in 1..count |-> <<served, i, j>>]
Column(set, side) == FlattenSeq([k \in 1..Len(set) |-> Tokens(set[k], requests[set[k]][side])])

\* TensorRpc.collate of some requests: concatenate each array.
Joined(set) ==
  LET a == Column(set, 1)
      b == Column(set, 2)
  IN  [p \in DOMAIN a \cap DOMAIN b |-> <<a[p], b[p]>>]

Everyone == [i \in 1..Len(requests) |-> i]

\* rows_in: the rows of the first array.
RowsIn(i) == requests[i][1]

-----------------------------------------------------------------------------
(* Around a batch *)

\* The trainer publishes weights.
Publish ==
  /\ published < MaxVersions
  /\ published' = published + 1
  /\ UNCHANGED <<mixing, memory, bound, batchVars, pc, of, input, outputs, host, runnerVars,
                 checked, ghostVars>>

\* Mutant: the parameters are replaced by new tensors.
Rebinds == bound' = 2 /\ memory' = [memory EXCEPT ![2] = published]

\* ModuleReplica.sync: load_state_dict copies in place.
CopiesInPlace == memory' = [memory EXCEPT ![bound] = published] /\ UNCHANGED bound

Sync ==
  /\ pc = "idle"
  /\ CopiesInPlace
  /\ lastSync' = published /\ answers' = <<>>
  /\ UNCHANGED <<mixing, published, batchVars, pc, of, input, outputs, host, runnerVars,
                 checked, cause>>

\* A batch of requests for the rpc arrives: nobody looks at their layouts.
Batch ==
  /\ pc = "idle" /\ served < MaxBatches
  /\ served' = served + 1
  /\ requests' \in UNION {[1..n -> Payloads] : n \in 1..BatchSize}
  /\ layouts' \in [1..Len(requests') -> Layouts]
  /\ pc' = "collate" /\ answers' = <<>>
  /\ UNCHANGED <<mixing, weightVars, of, input, outputs, host, runnerVars, checked, cause, lastSync>>

Fail(why) == pc' = "failed" /\ cause' = why

\* Mutant: the arrays of a request may differ in their rows.
AnyRows == TRUE

RowsAgree == \A i \in 1..Len(requests) : requests[i][1] = requests[i][2]

\* Arrays of different lengths together are an error of the model's, if not of ours.
SameLength == Len(Column(Everyone, 1)) = Len(Column(Everyone, 2))

\* np.concatenate joins arrays of one shape.
layout     == layouts[1]
SameLayout == \A i \in 1..Len(requests) : layouts[i] = layout

\* _forward is entered, with the rows of some requests.
Enter(who, set) == of' = who /\ input' = Joined(set) /\ pc' = "look"

Collate ==
  /\ pc = "collate"
  /\ \/ RowsAgree /\ SameLength /\ SameLayout /\ Enter(0, Everyone) /\ UNCHANGED cause
     \/ ~(RowsAgree /\ SameLength) /\ Fail("payload") /\ UNCHANGED <<of, input>>
     \/ RowsAgree /\ SameLength /\ ~SameLayout /\ Fail("layouts") /\ UNCHANGED <<of, input>>
  /\ UNCHANGED <<mixing, weightVars, batchVars, outputs, host, runnerVars, checked, answers, lastSync>>

-----------------------------------------------------------------------------
(* GraphRunner.__call__, and the eager path of _forward *)

\* 1 << n.bit_length(): doubled as often as n can be halved.
Shifted[n \in Nat] == IF n = 0 THEN 1 ELSE 2 * Shifted[n \div 2]

\* _bucket_for: the next power of two; no rows, -1 has one bit, make it 2.
Bucket(rows) == IF rows = 0 THEN 2 ELSE Shifted[rows - 1]

\* Mutant: the layout of the first batch is taken to be everyone's.
BucketOnly == <<Bucket(Len(input)), CHOOSE l \in Layouts : TRUE>>

\* The key of a graph in _graphs: a bucket and the layout it was traced for.
Key == <<Bucket(Len(input)), layout>>

Returned == pc' = IF of = 0 THEN "split" ELSE "alone"

\* Disabled or too wide: no graph.
Look ==
  /\ pc = "look"
  /\ pc' = IF ~enabled \/ Len(input) > MaxRows THEN "eager"
           ELSE IF Key \in DOMAIN graphs THEN "replay" ELSE "capture"
  /\ UNCHANGED <<mixing, weightVars, batchVars, of, input, outputs, host, runnerVars,
                 checked, ghostVars>>

\* _capture: static inputs of zeros, and the address of the weights.
Capture ==
  /\ pc = "capture"
  /\ LET zeros == [p \in 1..Key[1] |-> ZeroRow] IN
     graphs' = [k \in DOMAIN graphs \cup {Key} |->
                  IF k \in DOMAIN graphs THEN graphs[k]
                  ELSE [static |-> zeros, out |-> Forward(zeros, Key[2], bound), at |-> bound]]
  /\ pc' = "replay"
  /\ UNCHANGED <<mixing, weightVars, batchVars, of, input, outputs, host, verified, enabled,
                 checked, ghostVars>>

\* Mutant: a failure is tried again.
TriesAgain == pc' = "look" /\ UNCHANGED enabled

\* A failure is for the rest of the run.
Disable == pc' = "eager" /\ enabled' = FALSE

RunnerFails ==
  /\ pc \in {"capture", "replay"} /\ pc \in Faults
  /\ Disable
  /\ UNCHANGED <<mixing, weightVars, batchVars, of, input, outputs, host, graphs, verified,
                 checked, ghostVars>>

\* The rows are copied over the first rows of the static input, the others stay.
Replay ==
  /\ pc = "replay"
  /\ LET g == graphs[Key]
         static == input \o SubSeq(g.static, Len(input) + 1, Len(g.static))
     IN  graphs' = [graphs EXCEPT ![Key] = [static |-> static, at |-> g.at,
                                            out |-> Forward(static, Key[2], g.at)]]
  /\ outputs' = [key |-> Key, count |-> Len(input), copy |-> <<>>]
  /\ IF Key \in DOMAIN verified THEN Returned ELSE pc' = "compare"
  /\ UNCHANGED <<mixing, weightVars, batchVars, of, input, host, verified, enabled, checked,
                 ghostVars>>

\* Mutant: the first batch of a key is taken on trust.
OnTrust == TRUE

GraphAgrees == \A f \in Fields : Value(outputs, f) = Whole(f, Forward(input, layout, bound))

\* _verify: an eager run of the same batch, once for each key.
Compare ==
  /\ pc = "compare"
  /\ verified' = [k \in DOMAIN verified \cup {Key} |->
                    IF k = Key THEN Len(input) ELSE verified[k]]
  /\ IF GraphAgrees THEN Returned /\ UNCHANGED enabled ELSE Disable
  /\ UNCHANGED <<mixing, weightVars, batchVars, of, input, outputs, host, graphs, checked,
                 ghostVars>>

Eager ==
  /\ pc = "eager"
  /\ outputs' = Fresh(Forward(input, layout, bound))
  /\ Returned
  /\ UNCHANGED <<mixing, weightVars, batchVars, of, input, host, runnerVars, checked, ghostVars>>

\* The model raises, where nobody catches it.
ModelRaises ==
  /\ "model" \in Faults /\ pc \in {"compare", "eager"}
  /\ Fail("model")
  /\ UNCHANGED <<mixing, weightVars, batchVars, of, input, outputs, host, runnerVars, checked,
                 answers, lastSync>>

-----------------------------------------------------------------------------
(* split, the check for row independence, and the answers *)

\* _take_rows: the declared axis if the field is as long along it as the batch.
EffectiveAxis(f, extent, total) ==
  IF total = (IF f.axis = RowAxis THEN extent ELSE f.other) THEN RowAxis ELSE 0

\* The field of one request: along the wrong axis, it has a piece of every row.  A slice
\* ends where the array does.
TakeRows(value, f, start, stop, total) ==
  LET extent == Len(value.rows) IN
  IF EffectiveAxis(f, extent, total) = f.axis
    THEN [value EXCEPT !.rows = SubSeq(@, start + 1, IF stop < extent THEN stop ELSE extent)]
    ELSE [value EXCEPT !.other = @ \cap (start + 1)..stop]

\* TensorRpc.split: one response for each request, in their order.
SplitRows(t, set) ==
  LET rows(n) == Len(Column(SubSeq(set, 1, n), 1)) IN
  [k \in 1..Len(set) |->
     [f \in Fields |-> TakeRows(Value(t, f), f, rows(k - 1), rows(k), rows(Len(set)))]]

\* Mutant: what is sliced is still the view.
KeepView(t) == t

\* detach().cpu().numpy()
HostCopy(t) == [key |-> NoKey, count |-> 0, copy |-> [f \in Fields |-> Value(t, f)]]

\* The responses are slices of the copy.
Responses == SplitRows(host, Everyone)

Split ==
  /\ pc = "split"
  /\ host' = HostCopy(outputs)
  /\ pc' = "check"
  /\ UNCHANGED <<mixing, weightVars, batchVars, of, input, outputs, runnerVars, checked, ghostVars>>

\* Mutant: a batch that was merged from several requests is believed.
NeverCheck == FALSE

MustCheck == VerifyRows /\ ~checked /\ Len(requests) > 1

\* _verify_row_independence
Check ==
  /\ pc = "check"
  /\ IF MustCheck
       THEN checked' = TRUE /\ Enter(1, <<1>>)
       ELSE pc' = "put" /\ UNCHANGED <<checked, of, input>>
  /\ UNCHANGED <<mixing, weightVars, batchVars, outputs, host, runnerVars, ghostVars>>

\* _close_enough: np.allclose stretches an axis of length one to the other array's, raises
\* if the shapes do not meet even so, and has nothing against an array without elements.
Stretches(m, n)   == m = n \/ m = 1 \/ n = 1
HasNothing(value) == value.rows = <<>> \/ value.other = {}
CloseEnough(a, b) ==
  \/ a = b
  \/ /\ Stretches(Len(a.rows), Len(b.rows))
     /\ Stretches(Cardinality(a.other), Cardinality(b.other))
     /\ HasNothing(a) \/ HasNothing(b)

\* ... a field of one request alone, against its part of the batch.
FieldAgrees(f) == CloseEnough(SplitRows(outputs, <<of>>)[1][f], Responses[of][f])

Alone ==
  /\ pc = "alone"
  /\ IF \E f \in Fields : ~FieldAgrees(f)
       THEN Fail("rows") /\ UNCHANGED <<of, input>>
     ELSE IF of < Len(requests)
       THEN Enter(of + 1, <<of + 1>>) /\ UNCHANGED cause
       ELSE pc' = "put" /\ UNCHANGED <<of, input, cause>>
  /\ UNCHANGED <<mixing, weightVars, batchVars, outputs, host, runnerVars, checked, answers, lastSync>>

\* The puts; what was local to the batch is gone.
Put ==
  /\ pc = "put"
  /\ answers' = Responses
  /\ pc' = "idle" /\ of' = 0 /\ input' = <<>> /\ outputs' = NoTensor /\ host' = NoTensor
  /\ UNCHANGED <<mixing, weightVars, batchVars, runnerVars, checked, cause, lastSync>>

Serve ==
  \/ Collate \/ Look \/ Capture \/ RunnerFails \/ Replay \/ Compare \/ Eager
  \/ Split \/ Check \/ Alone \/ Put

Next == Publish \/ Sync \/ Batch \/ Serve \/ ModelRaises

\* The service is scheduled, and the device calls return.
Spec == Init /\ [][Next]_vars /\ WF_vars(Serve)

-----------------------------------------------------------------------------
(* Properties *)

\* The variables keep to their types: a graph holds as many rows as its bucket, and none
\* is wider than the widest batch rounded up, or than the 2 of a batch without rows.
TypeOK ==
  /\ published \in 1..MaxVersions /\ bound \in {1, 2} /\ served \in 0..MaxBatches
  /\ pc \in Phases /\ of \in 0..Len(requests)
  /\ DOMAIN verified \subseteq DOMAIN graphs /\ enabled \in BOOLEAN /\ checked \in BOOLEAN
  /\ \A k \in DOMAIN graphs :
       /\ k[2] \in Layouts /\ (k[1] < 2 * MaxRows \/ k[1] = 2)
       /\ Len(graphs[k].static) = k[1] /\ Len(graphs[k].out) = k[1]
  /\ cause # "none" <=> pc = "failed"

\* What request i asked for: its rows, each of them from all of its arrays, and no other.
Own(i) == LET t == Tokens(i, RowsIn(i)) IN Forward([j \in DOMAIN t |-> <<t[j], t[j]>>], layouts[i], bound)

SameRows(a, b) == Len(a) = Len(b) /\ \A p \in 1..Len(a) : a[p].row = b[p].row /\ a[p].layout = b[p].layout

\* Both axes of a field are as long as the batch: rpc.py:283-285 leaves it to the user.
Tie(f) == f.axis # RowAxis /\ f.other = Len(Joined(Everyone))

Padded(rows) == Bucket(rows) # rows

\* cudagraph.py:236-238 slices axis 0, which is right for a field of rows only.
Sliceable(f) == f.axis = 0 \/ MaxRows = 0

\* A graph that was compared on a batch which filled its bucket, where there was nothing to
\* cut, returns all of the bucket for a batch of fewer rows.
Misread(f, rows) ==
  LET key == <<Bucket(rows), layout>> IN
  /\ ~Sliceable(f) /\ rows <= MaxRows /\ Padded(rows)
  /\ key \in DOMAIN verified /\ ~Padded(verified[key])

\* The fields of the batch that were sliced along its axis, wherever they were.
Known == {f \in Fields : ~Tie(f) /\ ~Misread(f, Len(Joined(Everyone)))}

\* An answer has the rows of its request, all of them, in order and with all their columns:
\* no other request's, no padding, no row an earlier batch left in a static buffer, no other
\* layout's; but for a field whose axis was mistaken.
RowsAreOwn ==
  answers # <<>> =>
    \A i \in 1..Len(requests), f \in Known :
      SameRows(answers[i][f].rows, Own(i)) /\ answers[i][f].other = 1..f.other

\* Graph or not, a batch is served with the weights of the last sync.
WeightsAreSynced ==
  \A i \in 1..Len(answers), f \in Fields :
    \A p \in 1..Len(answers[i][f].rows) : answers[i][f].rows[p].weights = lastSync

\* The check sees rows being mixed, in a field that is what it seems.
CheckTells ==
  /\ VerifyRows /\ \A p \in Payloads : p[1] # 0
  /\ \E f \in Fields : Sliceable(f)

\* An answer is what its request alone would have been told, whatever it was batched
\* with or padded with, unless the model mixes rows; and with a check that can tell,
\* unless it mixes rows and a request came alone and had to be padded.
AnswersPure ==
  answers # <<>> =>
    \A i \in 1..Len(requests), f \in Known :
      \/ answers[i][f] = Whole(f, Own(i))
      \/ mixing # "none" /\ (CheckTells => Len(requests) = 1 /\ Padded(RowsIn(1)))

\* A graph is an accelerator and no change of behaviour: what it returns is what an eager
\* run of the batch would, with the weights and the layout of now.  Only a padded batch may
\* differ, of a model that mixes rows or in a field on another axis, and only if the graph
\* was compared on a batch that filled it, or the model does not see the zeros that were
\* there at first.
GraphIsEager ==
  pc \in {"split", "alone"} /\ outputs.key # NoKey =>
    \A f \in Fields :
      \/ Value(outputs, f) = Whole(f, Forward(input, layout, bound))
      \/ /\ Padded(Len(input))
         /\ mixing = "sum" \/ ((mixing = "mean" \/ f.axis # 0) /\ ~Padded(verified[Key]))

\* A graph that cannot be captured or replayed, or disagrees, never ends the service; a batch
\* of one layout with as many rows in each array is always joined; the check for row
\* independence ends the service only if the model mixes rows or for a field whose axis was
\* mistaken, in the batch or for the request alone.
NoFalseAlarm ==
  /\ cause \in {"none", "payload", "layouts", "model", "rows"}
  /\ cause = "payload" => ~RowsAgree
  /\ cause = "layouts" => ~SameLayout
  /\ cause = "rows" => \/ mixing # "none"
                       \/ \A f \in Known : Misread(f, RowsIn(of)) \/ FieldAgrees(f)

\* The fields whose axis nothing can mistake.
Sure == {f \in Fields : f.axis = RowAxis /\ Sliceable(f)}

\* What the answers say in the fields that were not mistaken, without what the model had
\* beside a row.
Told ==
  [i \in 1..Len(answers) |-> [f \in Known |->
     [p \in 1..Len(answers[i][f].rows) |->
        [row |-> answers[i][f].rows[p].row, layout |-> answers[i][f].rows[p].layout,
         weights |-> answers[i][f].rows[p].weights]]]]

Pure == \A i \in 1..Len(answers) : \A f \in Known : answers[i][f] = Whole(f, Own(i))

Phase == IF pc \in {"idle", "failed"} THEN pc ELSE "serving"

\* The batches of an rpc, without what is between them and their answers.
Batches == INSTANCE AtomicBatches WITH
  Fields  <- Sure,
  Others  <- Fields \ Sure,
  Checked <- CheckTells,
  mixes   <- mixing # "none",
  synced  <- lastSync,
  number  <- served,
  phase   <- Phase,
  told    <- Told,
  pure    <- Pure

\* collate, the graphs, split and the check together implement AtomicBatches: a batch is
\* answered once and whole, and nothing of an earlier batch, layout or sync gets into it.
ServesAtomically == Batches!Spec

\* Every batch is answered or ends the service.
BatchEnds == pc # "idle" ~> pc \in {"idle", "failed"}

=============================================================================
