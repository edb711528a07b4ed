------------------------------- MODULE Spawning -------------------------------
(***************************************************************************)
(* What a spawned child inherits: cuda_hidden_from_children and            *)
(* blas_threads_pinned around Process.start(), and the seeds.  Threads of  *)
(* the parent start one worker each, and share os.environ, which the two   *)
(* context managers save, mask and restore one variable at a time.         *)
(*                                                                         *)
(* A seed is a number of 32-bit words: Word stands for 2^32.  A stream is  *)
(* known by the words SeedSequence fills its pool of four with.            *)
(***************************************************************************)
EXTENDS Naturals, Sequences, Functions

CONSTANTS
  Threads,      \* of the parent
  BlasVars,     \* BLAS_THREAD_VARS, a sequence of names
  Word,         \* 2^32
  Seeds,        \* what setup_seed may be given; below Word^2
  Offsets       \* a worker's rank, plus its role's base

Cuda == "CUDA_VISIBLE_DEVICES"
Vars == {Cuda} \cup Range(BlasVars)

ASSUME SeedsAssumption ==
  /\ Word \in Nat \ {0, 1}
  /\ Seeds \subseteq 0..(Word * Word - 1) /\ Offsets \subseteq 0..(Word * Word - 1)
  /\ BlasVars \in Seq(STRING) /\ IsInjective(BlasVars) /\ Cuda \notin Range(BlasVars)

VARIABLES
  wanted,      \* per thread: whether its worker is to be without GPU, and with one BLAS thread
  at,          \* per thread: the operation of its program it is at
  env,         \* os.environ: "unset", "own" (the user's value) or "mask"
  saved,       \* per thread: previous
  inside,      \* history: per thread, the variables it has saved and not yet restored
  overlap,     \* history: the variables two threads have been inside of at once
  original,    \* history: os.environ before anybody masked it
  seed,        \* what setup_seed returned; it is in PYTHONHASHSEED, too
  child        \* per thread: how its start went and, if well, what its worker has

vars == <<wanted, at, env, saved, inside, overlap, original, seed, child>>

-----------------------------------------------------------------------------
(* The program of a thread *)

Ops(name, names) == [i \in DOMAIN names |-> [op |-> name, var |-> names[i]]]

\* Mutant: the child is started after the blocks.
Outside(enter, start, leave) == enter \o leave \o start

Within(enter, start, leave) == enter \o start \o leave

\* with cuda_hidden_from_children(hide), blas_threads_pinned(): process.start()
Block(hide, pin) ==
  LET cuda == IF hide THEN <<Cuda>> ELSE <<>>
      blas == IF pin THEN BlasVars ELSE <<>>
  IN  Within(Ops("save", cuda) \o Ops("mask", cuda) \o Ops("save", blas) \o Ops("mask", blas),
             <<[op |-> "start", var |-> Cuda]>>,
             Ops("restore", blas) \o Ops("restore", cuda))

Wants    == [hide : BOOLEAN, pin : BOOLEAN]
Programs == [want \in Wants |-> Block(want.hide, want.pin)]

Program(t)    == Programs[wanted[t]]
Does(t, name) == at[t] <= Len(Program(t)) /\ Program(t)[at[t]].op = name
Var(t)        == Program(t)[at[t]].var
Goes(t)       == at' = [at EXCEPT ![t] = @ + 1]

InsideOf(set) == UNION {inside[t] : t \in set}

Init ==
  /\ wanted \in [Threads -> Wants]
  /\ at = [t \in Threads |-> 1]
  /\ original \in [Vars -> {"unset", "own"}] /\ env = original
  /\ saved = [t \in Threads |-> [v \in Vars |-> "unset"]]
  /\ inside = [t \in Threads |-> {}] /\ overlap = {}
  /\ seed \in Seeds
  /\ child = [t \in Threads |-> [state |-> "none"]]

\* previous = os.environ.get(name)
Save(t) ==
  /\ Does(t, "save") /\ Goes(t)
  /\ saved' = [saved EXCEPT ![t][Var(t)] = env[Var(t)]]
  /\ inside' = [inside EXCEPT ![t] = @ \cup {Var(t)}]
  /\ overlap' = overlap \cup ({Var(t)} \cap InsideOf(Threads \ {t}))
  /\ UNCHANGED <<wanted, env, original, seed, child>>

Mask(t) ==
  /\ Does(t, "mask") /\ Goes(t)
  /\ env' = [env EXCEPT ![Var(t)] = "mask"]
  /\ UNCHANGED <<wanted, saved, inside, overlap, original, seed, child>>

\* Mutant: a variable that was not set is left as it is.
OnlyOwn(t) == IF saved[t][Var(t)] = "unset" THEN env[Var(t)] ELSE saved[t][Var(t)]

Previous(t) == saved[t][Var(t)]

\* finally: the value is put back, or the variable removed.
Restore(t) ==
  /\ Does(t, "restore") /\ Goes(t)
  /\ env' = [env EXCEPT ![Var(t)] = Previous(t)]
  /\ inside' = [inside EXCEPT ![t] = @ \ {Var(t)}]
  /\ UNCHANGED <<wanted, saved, overlap, original, seed, child>>

-----------------------------------------------------------------------------
(* The child *)

Words(n) == IF n < Word THEN <<n>> ELSE <<n % Word, n \div Word>>

\* Mutant: the seed alone.
SeedOnly(base, off) == Words(base)

\* SeedSequence([base_seed, offset]): the words one after the other, ...
Entropy(base, off) == Words(base) \o Words(off)

\* ... and zeros.
Pool(words) == [i \in 1..4 |-> IF i <= Len(words) THEN words[i] ELSE 0]

\* seed_worker, and worker_rng for a role inside the parent.
WorkerStream(off) == Pool(Entropy(seed, off))

\* default_rng(seed)
ParentStream == Pool(Words(seed))

\* The interpreter takes PYTHONHASHSEED below 2^32 and ends at once on any other.
HashSeedFits == seed < Word

\* prepare_cpu_only_worker, called by every worker with the device it was given.
TorchThreads(device) == IF device = "cpu" THEN "one" ELSE "all"

\* Process.start(): the child has os.environ as it is now, and reads the variables while
\* it imports; then it prepares and seeds itself.  "beside" is for the properties: what
\* other threads were inside of.
Start(t) ==
  /\ Does(t, "start") /\ Goes(t)
  /\ HashSeedFits
  /\ \E off \in Offsets, device \in {"cpu", "cuda"} :
       child' = [child EXCEPT ![t] =
         [state |-> "up", env |-> env, beside |-> InsideOf(Threads \ {t}),
          device |-> device, torch |-> TorchThreads(device),
          offset |-> off, stream |-> WorkerStream(off)]]
  /\ UNCHANGED <<wanted, env, saved, inside, overlap, original, seed>>

\* The start succeeds, and the child ends before its first line.
StartsInVain(t) ==
  /\ Does(t, "start") /\ Goes(t)
  /\ ~HashSeedFits
  /\ child' = [child EXCEPT ![t] = [state |-> "died"]]
  /\ UNCHANGED <<wanted, env, saved, inside, overlap, original, seed>>

\* Mutant: the blocks have no finally clause.
Escapes(t) == /\ at' = [at EXCEPT ![t] = Len(Program(t)) + 1]
              /\ inside' = [inside EXCEPT ![t] = {}]

Unwinds(t) == Goes(t) /\ UNCHANGED inside

\* The start raises (an argument that cannot be pickled): the blocks are left in order.
StartFails(t) ==
  /\ Does(t, "start") /\ Unwinds(t)
  /\ child' = [child EXCEPT ![t] = [state |-> "failed"]]
  /\ UNCHANGED <<wanted, env, saved, overlap, original, seed>>

Next ==
  \E t \in Threads :
    Save(t) \/ Mask(t) \/ Start(t) \/ StartsInVain(t) \/ StartFails(t) \/ Restore(t)

Spec == Init /\ [][Next]_vars

-----------------------------------------------------------------------------
(* Properties *)

\* The variables keep to their types.
TypeOK ==
  /\ wanted \in [Threads -> Wants]
  /\ at \in [Threads -> Nat \ {0}] /\ \A t \in Threads : at[t] <= Len(Program(t)) + 1
  /\ env \in [Vars -> {"unset", "own", "mask"}] /\ original \in [Vars -> {"unset", "own"}]
  /\ saved \in [Threads -> [Vars -> {"unset", "own", "mask"}]]
  /\ inside \in [Threads -> SUBSET Vars] /\ overlap \subseteq Vars
  /\ seed \in Seeds /\ \A t \in Threads : child[t].state \in {"none", "up", "failed", "died"}

Up(t) == child[t].state = "up"

\* A variable no thread is inside of has the user's value, whether the starts succeeded
\* or raised; two threads that were inside of it at once void that, for good.
EnvRestored ==
  \A v \in Vars \ (overlap \cup InsideOf(Threads)) : env[v] = original[v]

\* A worker that was to be cheap is: it finds no GPU, one BLAS thread by every name, and
\* on the CPU torch has one thread, too.
CheapWorker ==
  \A t \in Threads : Up(t) =>
    /\ wanted[t].hide /\ Cuda \notin overlap => child[t].env[Cuda] = "mask"
    /\ wanted[t].pin => \A v \in Range(BlasVars) \ overlap : child[t].env[v] = "mask"
    /\ child[t].device = "cpu" => child[t].torch = "one"

\* A worker that keeps its GPU or its BLAS threads finds them, unless another thread is
\* inside at that moment: the mask is the process's, not the thread's.
NoStrayMask ==
  \A t \in Threads : Up(t) =>
    \A v \in Vars \ (overlap \cup child[t].beside) :
      child[t].env[v] = "mask" => IF v = Cuda THEN wanted[t].hide ELSE wanted[t].pin

\* Workers draw from one stream only if they have one offset, and no worker draws from
\* the parent's but that of offset zero.
StreamsApart ==
  \A t \in Threads : Up(t) =>
    /\ child[t].stream = ParentStream => child[t].offset = 0
    /\ \A u \in Threads : Up(u) /\ child[u].stream = child[t].stream =>
         child[u].offset = child[t].offset

=============================================================================
