----------------------------- MODULE RunDirectory -----------------------------
(***************************************************************************)
(* claim_run_dir and write_run_manifest: runs that start at the same time, *)
(* or after one another died, take a directory each under one base, and    *)
(* write down which in a manifest they share.                              *)
(*                                                                         *)
(* A name is the sequence of its parts: "train_2" is the stem and a 2.     *)
(* A file is known by the run that created it, for a path may be opened by *)
(* one run, renamed by a second and written by the first.  Directories are *)
(* never removed.                                                          *)
(***************************************************************************)
EXTENDS Naturals, Sequences

CONSTANTS
  Runs,       \* the runs
  Pids,       \* os.getpid(): runs of one host differ, those of two hosts may not
  Tags,       \* the tags that are asked for, <<>> among them
  Found       \* sets of names that may be there from earlier runs

\* What a manifest path or an open file may be instead of a run's.
CONSTANTS NoFile, Empty, Garbled

Tag(s) == s # <<>>

ASSUME RunsAssumption ==
  /\ {NoFile, Empty, Garbled} \cap Runs = {}
  /\ Tags \subseteq Seq(Nat) /\ Pids \subseteq Nat /\ Found \subseteq SUBSET Seq(Nat)

VARIABLES
  pc, tag, suffix, dir,  \* per run: where it is, its tag, the suffix it tries, what it claimed
  dirs,                  \* the names in the base directory
  pid,                   \* per run
  tmp,                   \* per pid: the file under the temporary name, or NoFile
  fd,                    \* per run: the file it has open
  content,               \* per file: Empty, Garbled, or the run whose entries it holds
  manifest               \* the file under the manifest's path, or NoFile

vars == <<pc, tag, suffix, dir, dirs, pid, tmp, fd, content, manifest>>

Over == {"done", "refused", "failed", "crashed"}

\* default_run_tag, outside a batch scheduler: a time, here one for all, and the pid.
DefaultTag(p) == <<0, p>>

Init ==
  /\ pid \in [Runs -> Pids]
  /\ tag \in [Runs -> Tags \cup {DefaultTag(p) : p \in Pids}]
  /\ \A r \in Runs : tag[r] \in Tags \cup {DefaultTag(pid[r])}
  /\ dirs \in Found
  /\ pc = [r \in Runs |-> "check"]
  /\ suffix = [r \in Runs |-> 1] /\ dir = [r \in Runs |-> <<>>]
  /\ tmp = [p \in Pids |-> NoFile] /\ fd = [r \in Runs |-> NoFile]
  /\ content = [r \in Runs |-> Empty] /\ manifest = NoFile

GoTo(r, where) == pc[r] \notin Over /\ pc' = [pc EXCEPT ![r] = where]

-----------------------------------------------------------------------------
(* The claim *)

\* An empty tag would be the base directory itself.
CheckTag(r) ==
  /\ pc[r] = "check"
  /\ GoTo(r, IF Tag(tag[r]) THEN "claim" ELSE "refused")
  /\ UNCHANGED <<tag, suffix, dir, dirs, pid, tmp, fd, content, manifest>>

Name(r, k)   == IF k = 1 THEN tag[r] ELSE Append(tag[r], k)
Candidate(r) == Name(r, suffix[r])

\* Mutants: exist_ok = True; the suffix is counted in twos.
Whatever(r) == FALSE
Skipping(r) == suffix[r] + 2

Taken(r)      == Candidate(r) \in dirs
NextSuffix(r) == suffix[r] + 1

\* mkdir(exist_ok=False): the test and the creation are one step.
Claim(r) ==
  /\ pc[r] = "claim" /\ ~Taken(r)
  /\ dirs' = dirs \cup {Candidate(r)}
  /\ dir' = [dir EXCEPT ![r] = Candidate(r)]
  /\ \/ GoTo(r, "open")
     \/ GoTo(r, "done")          \* it writes no manifest
  /\ UNCHANGED <<tag, suffix, pid, tmp, fd, content, manifest>>

FileExists(r) ==
  /\ pc[r] = "claim" /\ Taken(r)
  /\ suffix' = [suffix EXCEPT ![r] = NextSuffix(r)]
  /\ UNCHANGED <<pc, tag, dir, dirs, pid, tmp, fd, content, manifest>>

-----------------------------------------------------------------------------
(* The manifest *)

\* Mutant: every writer uses the same temporary name.
OneName(r) == CHOOSE p \in Pids : TRUE

TempName(r) == pid[r]

\* write_text opens the temporary file: it is created, or emptied if it is there.
OpenTemp(r) ==
  /\ pc[r] = "open" /\ GoTo(r, "write")
  /\ LET file == IF tmp[TempName(r)] = NoFile THEN r ELSE tmp[TempName(r)]
     IN  /\ tmp' = [tmp EXCEPT ![TempName(r)] = file]
         /\ fd' = [fd EXCEPT ![r] = file]
         /\ content' = [content EXCEPT ![file] = Empty]
  /\ UNCHANGED <<tag, suffix, dir, dirs, pid, manifest>>

\* ... and writes it.  Two texts over one another are neither.
WriteTemp(r) ==
  /\ pc[r] = "write" /\ GoTo(r, "replace")
  /\ content' = [content EXCEPT ![fd[r]] = IF @ = Empty THEN r ELSE Garbled]
  /\ UNCHANGED <<tag, suffix, dir, dirs, pid, tmp, fd, manifest>>

\* Mutant: the temporary file is only removed after a write that succeeded.
GivesUp == "failed"

AfterFailure == "clean"

\* The disk is full.
WriteFails(r) ==
  /\ pc[r] = "write" /\ GoTo(r, AfterFailure)
  /\ UNCHANGED <<tag, suffix, dir, dirs, pid, tmp, fd, content, manifest>>

Replace(r) ==
  /\ pc[r] = "replace" /\ tmp[TempName(r)] # NoFile
  /\ manifest' = tmp[TempName(r)]
  /\ tmp' = [tmp EXCEPT ![TempName(r)] = NoFile]
  /\ GoTo(r, "unlink")
  /\ UNCHANGED <<tag, suffix, dir, dirs, pid, fd, content>>

\* Another run has renamed or removed the file.
ReplaceFails(r) ==
  /\ pc[r] = "replace" /\ tmp[TempName(r)] = NoFile
  /\ GoTo(r, AfterFailure)
  /\ UNCHANGED <<tag, suffix, dir, dirs, pid, tmp, fd, content, manifest>>

\* finally: unlink(missing_ok=True), and then the exception goes on, if there was one.
Unlink(r) ==
  /\ \/ pc[r] = "unlink" /\ GoTo(r, "done")
     \/ pc[r] = "clean" /\ GoTo(r, "failed")
  /\ tmp' = [tmp EXCEPT ![TempName(r)] = NoFile]
  /\ UNCHANGED <<tag, suffix, dir, dirs, pid, fd, content, manifest>>

\* The run is killed, at any moment.
Crash(r) ==
  /\ GoTo(r, "crashed")
  /\ UNCHANGED <<tag, suffix, dir, dirs, pid, tmp, fd, content, manifest>>

RunStep(r) ==
  \/ CheckTag(r) \/ Claim(r) \/ FileExists(r)
  \/ OpenTemp(r) \/ WriteTemp(r) \/ WriteFails(r)
  \/ Replace(r) \/ ReplaceFails(r) \/ Unlink(r)

Next == \E r \in Runs : RunStep(r) \/ Crash(r)

Spec == Init /\ [][Next]_vars

-----------------------------------------------------------------------------
(* Properties *)

\* The variables keep to their types.
TypeOK ==
  /\ pc \in [Runs -> Over \cup {"check", "claim", "open", "write", "replace", "unlink", "clean"}]
  /\ tag \in [Runs -> Seq(Nat)] /\ dir \in [Runs -> Seq(Nat)] /\ dirs \subseteq Seq(Nat)
  /\ suffix \in [Runs -> Nat \ {0}]
  /\ pid \in [Runs -> Pids] /\ tmp \in [Pids -> Runs \cup {NoFile}]
  /\ fd \in [Runs -> Runs \cup {NoFile}]
  /\ content \in [Runs -> Runs \cup {Empty, Garbled}]
  /\ manifest \in Runs \cup {NoFile}

Holds(r) == dir[r] # <<>>

\* No two runs have the same directory, whatever their tags and suffixes are, and a
\* directory that is claimed exists.
ClaimsDistinct ==
  \A r \in Runs : Holds(r) =>
    dir[r] \in dirs /\ \A q \in Runs \ {r} : dir[q] # dir[r]

\* The directory is the first unused one: whatever comes before it belongs to another
\* run, or was there.
FirstUnused ==
  \A r \in Runs : Holds(r) =>
    \A k \in 1..(suffix[r] - 1) : Name(r, k) \in dirs \ {dir[r]}

SharesPid(r) == \E q \in Runs \ {r} : pid[q] = pid[r]

\* Whoever reads the manifest, at any moment, finds the entries of a run that has its
\* directory, and all of them; two writers with one pid, on two hosts, void that.
ManifestWhole ==
  manifest # NoFile =>
    \/ content[manifest] \in Runs /\ Holds(content[manifest])
    \/ SharesPid(manifest)

\* No temporary file stays behind, unless a run was killed over it.
NoLitter ==
  \A p \in Pids : tmp[p] # NoFile =>
    \E r \in Runs : /\ pid[r] = p
                    /\ pc[r] \in {"write", "replace", "clean", "crashed"}

=============================================================================
