-------------------------- MODULE RunDirectoryProofs ---------------------------
(***************************************************************************)
(* However many runs start at once, under whatever tags, and wherever they *)
(* are killed: each has a directory of its own, the first unused one, and  *)
(* the manifest is whole.                                                  *)
(*                                                                         *)
(* mkdir is what makes a claim exclusive: a name is taken only if it is in *)
(* no run's hands yet, and names are never given back.  The manifest rests *)
(* on the pid: a run that shares its pid with no other is the only one to  *)
(* open its temporary file, so what it renames is what it wrote.           *)
(***************************************************************************)
EXTENDS RunDirectory, TLAPS

Before == {"check", "claim", "refused"}

\* What was claimed exists and is the candidate; everything before it exists.
ClaimInv ==
  \A r \in Runs :
    /\ pc[r] \in Before => ~Holds(r)
    /\ pc[r] \notin Before \cup {"crashed"} => Holds(r)
    /\ pc[r] = "claim" => Tag(tag[r])
    /\ Holds(r) => dir[r] \in dirs
    /\ \A k \in 1..(suffix[r] - 1) : Name(r, k) \in dirs

\* A file under a pid's temporary name, or opened by a run of that pid, is from a run of
\* that pid.
PidInv ==
  /\ \A p \in Pids : tmp[p] # NoFile => pid[tmp[p]] = p
  /\ \A r \in Runs : fd[r] # NoFile => pid[fd[r]] = pid[r]
  /\ \A r \in Runs : pc[r] = "write" => fd[r] # NoFile

\* What the file of a run that shares its pid with nobody holds.
FileInv(r) ==
  /\ pc[r] = "write" => content[r] = Empty
  /\ pc[r] = "replace" => content[r] = r
  /\ manifest = r =>
       /\ content[r] = r /\ Holds(r)
       /\ pc[r] \notin Before \cup {"open", "write", "replace"}

FilesInv == \A r \in Runs : SharesPid(r) \/ FileInv(r)

Inv ==
  /\ TypeOK /\ ClaimInv /\ PidInv /\ FilesInv
  /\ ClaimsDistinct /\ FirstUnused /\ NoLitter

-----------------------------------------------------------------------------
(* Names *)

\* A candidate is a name, and never the base directory itself.
LEMMA NameIsName ==
  ASSUME NEW t \in Seq(Nat), NEW k \in Nat, t # <<>>
  PROVE  /\ Append(t, k) \in Seq(Nat)
         /\ Append(t, k) # <<>>
  OBVIOUS

LEMMA CandidateIsName ==
  ASSUME TypeOK, NEW r \in Runs, Tag(tag[r])
  PROVE  Candidate(r) \in Seq(Nat) /\ Candidate(r) # <<>>
<1>1. tag[r] \in Seq(Nat) /\ suffix[r] \in Nat /\ tag[r] # <<>>
  BY DEF TypeOK, Tag
<1> QED
  BY <1>1, NameIsName DEF Candidate, Name

-----------------------------------------------------------------------------
(* The initial states *)

LEMMA InitTypes == Init => TypeOK
<1> SUFFICES ASSUME Init PROVE TypeOK
  OBVIOUS
<1>1. tag \in [Runs -> Seq(Nat)]
  <2>1. \A p \in Pids : DefaultTag(p) \in Seq(Nat)
    BY RunsAssumption DEF RunsAssumption, DefaultTag
  <2> QED
    BY <2>1, RunsAssumption DEF RunsAssumption, Init
<1>2. dirs \subseteq Seq(Nat)
  BY RunsAssumption DEF RunsAssumption, Init
<1>3. suffix \in [Runs -> Nat \ {0}] /\ dir \in [Runs -> Seq(Nat)]
  BY DEF Init
<1> QED
  BY <1>1, <1>2, <1>3 DEF Init, TypeOK, Over

LEMMA InitInv == Init => Inv
<1> SUFFICES ASSUME Init PROVE Inv
  OBVIOUS
<1>1. TypeOK
  BY InitTypes
<1>2. ClaimInv /\ ClaimsDistinct /\ FirstUnused
  BY DEF Init, ClaimInv, ClaimsDistinct, FirstUnused, Holds, Before
<1>3. PidInv /\ NoLitter
  BY DEF Init, PidInv, NoLitter
<1>4. FilesInv
  BY RunsAssumption DEF RunsAssumption, Init, FilesInv, FileInv
<1> QED
  BY <1>1, <1>2, <1>3, <1>4 DEF Inv

-----------------------------------------------------------------------------
(* Types *)

LEMMA TypeStep ==
  ASSUME TypeOK, ClaimInv, PidInv, [Next]_vars
  PROVE  TypeOK'
<1>1. CASE UNCHANGED vars
  BY <1>1 DEF vars, TypeOK
<1>2. ASSUME NEW r \in Runs, CheckTag(r) PROVE TypeOK'
  BY <1>2 DEF TypeOK, CheckTag, GoTo, Over
<1>3. ASSUME NEW r \in Runs, Claim(r) PROVE TypeOK'
  <2>1. Candidate(r) \in Seq(Nat)
    BY <1>3, CandidateIsName DEF Claim, ClaimInv
  <2> QED
    BY <2>1, <1>3 DEF TypeOK, Claim, GoTo, Over
<1>4. ASSUME NEW r \in Runs, FileExists(r) PROVE TypeOK'
  <2>1. suffix[r] + 1 \in Nat \ {0}
    BY DEF TypeOK
  <2> QED
    BY <2>1, <1>4 DEF TypeOK, FileExists, NextSuffix
<1>5. ASSUME NEW r \in Runs, OpenTemp(r) PROVE TypeOK'
  BY <1>5 DEF TypeOK, OpenTemp, TempName, GoTo, Over
<1>6. ASSUME NEW r \in Runs, WriteTemp(r) PROVE TypeOK'
  BY <1>6 DEF TypeOK, WriteTemp, GoTo, Over
<1>7. ASSUME NEW r \in Runs, WriteFails(r) \/ ReplaceFails(r) \/ Crash(r) PROVE TypeOK'
  BY <1>7 DEF TypeOK, WriteFails, ReplaceFails, Crash, AfterFailure, GoTo, Over
<1>8. ASSUME NEW r \in Runs, Replace(r) PROVE TypeOK'
  BY <1>8 DEF TypeOK, Replace, TempName, GoTo, Over
<1>9. ASSUME NEW r \in Runs, Unlink(r) PROVE TypeOK'
  BY <1>9 DEF TypeOK, Unlink, TempName, GoTo, Over
<1> QED
  BY <1>1, <1>2, <1>3, <1>4, <1>5, <1>6, <1>7, <1>8, <1>9 DEF Next, RunStep

-----------------------------------------------------------------------------
(* The claim *)

Claims == ClaimInv /\ ClaimsDistinct /\ FirstUnused

\* A step that claims and counts nothing, and moves no run across the claim.
LEMMA ClaimsStay ==
  ASSUME TypeOK, Claims, UNCHANGED <<tag, suffix, dir, dirs>>,
         NEW r \in Runs, NEW where, pc' = [pc EXCEPT ![r] = where],
         where \notin Before, where = "crashed" \/ pc[r] \notin Before \cup {"crashed"}
  PROVE  Claims'
<1>1. \A q \in Runs : (Holds(q) <=> Holds(q)') /\ \A k : Name(q, k)' = Name(q, k)
  BY DEF Holds, Name
<1>2. \A q \in Runs : pc'[q] = IF q = r THEN where ELSE pc[q]
  BY DEF TypeOK
<1>3. where = "claim" => where \in Before
  BY DEF Before
<1>4. ClaimInv'
  BY <1>1, <1>2, <1>3 DEF Claims, ClaimInv, Before
<1>5. ClaimsDistinct' /\ FirstUnused'
  BY <1>1 DEF Claims, ClaimsDistinct, FirstUnused
<1> QED
  BY <1>4, <1>5 DEF Claims

LEMMA ClaimsAtClaim ==
  ASSUME TypeOK, Claims, NEW r \in Runs, Claim(r)
  PROVE  Claims'
<1>1. /\ Candidate(r) \notin dirs /\ Candidate(r) # <<>>
      /\ dirs' = dirs \cup {Candidate(r)}
      /\ \A q \in Runs : dir'[q] = IF q = r THEN Candidate(r) ELSE dir[q]
      /\ \A q \in Runs : suffix'[q] = suffix[q] /\ tag'[q] = tag[q]
  BY CandidateIsName DEF Claim, Taken, Claims, ClaimInv, TypeOK
<1>2. \A q \in Runs : q # r => pc'[q] = pc[q]
  BY DEF Claim, GoTo, TypeOK
<1>3. pc'[r] \in {"open", "done"}
  BY DEF Claim, GoTo, TypeOK
<1>4. \A q \in Runs : Holds(q)' <=> q = r \/ Holds(q)
  BY <1>1 DEF Holds
<1>5. \A q \in Runs : \A k : Name(q, k)' = Name(q, k)
  BY <1>1 DEF Name
<1>6. ClaimInv'
  BY <1>1, <1>2, <1>3, <1>4, <1>5 DEF Claims, ClaimInv, Before
<1>7. ClaimsDistinct'
  BY <1>1, <1>4 DEF Claims, ClaimInv, ClaimsDistinct, Holds
<1>8. FirstUnused'
  BY <1>1, <1>4, <1>5 DEF Claims, ClaimInv, FirstUnused
<1> QED
  BY <1>6, <1>7, <1>8 DEF Claims

\* The suffix goes on by one, past a name that is taken.
LEMMA ClaimsAtSuffix ==
  ASSUME TypeOK, Claims, NEW r \in Runs, FileExists(r)
  PROVE  Claims'
<1>1. /\ \A q \in Runs : suffix'[q] = IF q = r THEN suffix[r] + 1 ELSE suffix[q]
      /\ suffix[r] \in Nat
      /\ UNCHANGED <<pc, tag, dir, dirs>>
  BY DEF FileExists, NextSuffix, TypeOK
<1>2. \A q \in Runs : (Holds(q) <=> Holds(q)') /\ \A k : Name(q, k)' = Name(q, k)
  BY <1>1 DEF Holds, Name
<1>3. Name(r, suffix[r]) \in dirs /\ ~Holds(r)
  BY DEF FileExists, Taken, Candidate, Claims, ClaimInv, Before
<1>4. \A k \in 1..(suffix[r] + 1 - 1) : k = suffix[r] \/ k \in 1..(suffix[r] - 1)
  BY <1>1
<1>5. \A k \in 1..(suffix'[r] - 1) : Name(r, k)' \in dirs'
  BY <1>1, <1>2, <1>3, <1>4 DEF Claims, ClaimInv
<1>6. ClaimInv'
  <2> SUFFICES ASSUME NEW q \in Runs
               PROVE  /\ pc'[q] \in Before => ~Holds(q)'
                      /\ pc'[q] \notin Before \cup {"crashed"} => Holds(q)'
                      /\ pc'[q] = "claim" => Tag(tag'[q])
                      /\ Holds(q)' => dir'[q] \in dirs'
                      /\ \A k \in 1..(suffix'[q] - 1) : Name(q, k)' \in dirs'
    BY DEF ClaimInv
  <2>1. \A k \in 1..(suffix'[q] - 1) : Name(q, k)' \in dirs'
    BY <1>1, <1>2, <1>5 DEF Claims, ClaimInv
  <2> QED
    BY <2>1, <1>1, <1>2 DEF Claims, ClaimInv
<1>7. ClaimsDistinct'
  BY <1>1, <1>2 DEF Claims, ClaimsDistinct
<1>8. FirstUnused'
  BY <1>1, <1>2, <1>3 DEF Claims, FirstUnused
<1> QED
  BY <1>6, <1>7, <1>8 DEF Claims

LEMMA ClaimsAtCheck ==
  ASSUME TypeOK, Claims, NEW r \in Runs, CheckTag(r)
  PROVE  Claims'
<1>1. /\ UNCHANGED <<tag, suffix, dir, dirs>> /\ pc[r] = "check"
      /\ \A q \in Runs : q # r => pc'[q] = pc[q]
      /\ pc'[r] \in {"claim", "refused"} /\ (pc'[r] = "claim" => Tag(tag[r]))
  BY DEF CheckTag, GoTo, TypeOK
<1>2. \A q \in Runs : (Holds(q) <=> Holds(q)') /\ \A k : Name(q, k)' = Name(q, k)
  BY <1>1 DEF Holds, Name
<1>3. ClaimInv'
  BY <1>1, <1>2 DEF Claims, ClaimInv, Before
<1>4. ClaimsDistinct' /\ FirstUnused'
  BY <1>1, <1>2 DEF Claims, ClaimsDistinct, FirstUnused
<1> QED
  BY <1>3, <1>4 DEF Claims

LEMMA ClaimsStep ==
  ASSUME TypeOK, Claims, [Next]_vars
  PROVE  Claims'
<1>1. CASE UNCHANGED vars
  BY <1>1 DEF vars, Claims, ClaimInv, ClaimsDistinct, FirstUnused, Holds, Name
<1>2. ASSUME NEW r \in Runs, OpenTemp(r) PROVE Claims'
  BY <1>2, ClaimsStay DEF OpenTemp, GoTo, Before
<1>3. ASSUME NEW r \in Runs, WriteTemp(r) PROVE Claims'
  BY <1>3, ClaimsStay DEF WriteTemp, GoTo, Before
<1>4. ASSUME NEW r \in Runs, WriteFails(r) PROVE Claims'
  BY <1>4, ClaimsStay DEF WriteFails, AfterFailure, GoTo, Before
<1>5. ASSUME NEW r \in Runs, Replace(r) PROVE Claims'
  BY <1>5, ClaimsStay DEF Replace, GoTo, Before
<1>6. ASSUME NEW r \in Runs, ReplaceFails(r) PROVE Claims'
  BY <1>6, ClaimsStay DEF ReplaceFails, AfterFailure, GoTo, Before
<1>7. ASSUME NEW r \in Runs, Unlink(r) PROVE Claims'
  BY <1>7, ClaimsStay DEF Unlink, GoTo, Before
<1>8. ASSUME NEW r \in Runs, Crash(r) PROVE Claims'
  BY <1>8, ClaimsStay DEF Crash, GoTo, Before
<1> QED
  BY <1>1, <1>2, <1>3, <1>4, <1>5, <1>6, <1>7, <1>8, ClaimsAtClaim, ClaimsAtSuffix,
     ClaimsAtCheck DEF Next, RunStep

-----------------------------------------------------------------------------
(* The temporary files *)

LEMMA PidStep ==
  ASSUME TypeOK, PidInv, [Next]_vars
  PROVE  PidInv'
<1>1. CASE UNCHANGED vars
  BY <1>1 DEF vars, PidInv
<1>2. ASSUME NEW r \in Runs, CheckTag(r) \/ Claim(r) PROVE PidInv'
  BY <1>2 DEF CheckTag, Claim, GoTo, PidInv, TypeOK
<1>3. ASSUME NEW r \in Runs, FileExists(r) PROVE PidInv'
  BY <1>3 DEF FileExists, PidInv
<1>4. ASSUME NEW r \in Runs, OpenTemp(r) PROVE PidInv'
  BY <1>4, RunsAssumption DEF RunsAssumption, OpenTemp, TempName, GoTo, PidInv, TypeOK
<1>5. ASSUME NEW r \in Runs, WriteTemp(r) PROVE PidInv'
  BY <1>5 DEF WriteTemp, GoTo, PidInv, TypeOK
<1>6. ASSUME NEW r \in Runs, WriteFails(r) \/ ReplaceFails(r) \/ Crash(r) PROVE PidInv'
  BY <1>6 DEF WriteFails, ReplaceFails, Crash, AfterFailure, GoTo, PidInv, TypeOK
<1>7. ASSUME NEW r \in Runs, Replace(r) PROVE PidInv'
  BY <1>7 DEF Replace, TempName, GoTo, PidInv, TypeOK
<1>8. ASSUME NEW r \in Runs, Unlink(r) PROVE PidInv'
  BY <1>8 DEF Unlink, TempName, GoTo, PidInv, TypeOK
<1> QED
  BY <1>1, <1>2, <1>3, <1>4, <1>5, <1>6, <1>7, <1>8 DEF Next, RunStep

\* Whatever is done with the file of a run that shares its pid with nobody, it is that run.
LEMMA OwnFile ==
  ASSUME TypeOK, PidInv, NEW r \in Runs, ~SharesPid(r), NEW q \in Runs
  PROVE  /\ pid[q] = pid[r] => q = r
         /\ tmp[pid[q]] = r => q = r
         /\ fd[q] = r => q = r
<1>1. pid[q] = pid[r] => q = r
  BY DEF SharesPid
<1>2. r # NoFile
  BY RunsAssumption DEF RunsAssumption
<1>3. pid[q] \in Pids
  BY DEF TypeOK
<1> QED
  BY <1>1, <1>2, <1>3 DEF PidInv

LEMMA FilesStep ==
  ASSUME TypeOK, ClaimInv, PidInv, FilesInv, [Next]_vars
  PROVE  FilesInv'
<1>1. pid' = pid
  BY DEF Next, RunStep, vars, CheckTag, Claim, FileExists, OpenTemp, WriteTemp, WriteFails, Replace,
         ReplaceFails, Unlink, Crash
<1> SUFFICES ASSUME NEW r \in Runs, ~SharesPid(r)
             PROVE  FileInv(r)'
  BY <1>1 DEF FilesInv, SharesPid
<1> USE DEF Before
<1>2. FileInv(r)
  BY DEF FilesInv
<1>3. r # NoFile
  BY RunsAssumption DEF RunsAssumption
<1>4. CASE UNCHANGED vars
  BY <1>2, <1>4 DEF vars, FileInv, Holds
<1>5. ASSUME NEW q \in Runs, CheckTag(q) PROVE FileInv(r)'
  BY <1>2, <1>5 DEF CheckTag, GoTo, FileInv, Holds, TypeOK
<1>6. ASSUME NEW q \in Runs, Claim(q) PROVE FileInv(r)'
  BY <1>2, <1>6 DEF Claim, GoTo, FileInv, Holds, TypeOK
<1>7. ASSUME NEW q \in Runs, FileExists(q) PROVE FileInv(r)'
  BY <1>2, <1>7 DEF FileExists, FileInv, Holds
<1>8. ASSUME NEW q \in Runs, OpenTemp(q) PROVE FileInv(r)'
  <2>1. CASE q = r
    <3>1. tmp[pid[r]] \in {NoFile, r}
      <4>1. pid[r] \in Pids /\ tmp[pid[r]] \in Runs \cup {NoFile}
        BY DEF TypeOK
      <4>2. tmp[pid[r]] # NoFile => pid[tmp[pid[r]]] = pid[r]
        BY <4>1 DEF PidInv
      <4> QED
        BY <4>1, <4>2, OwnFile
    <3>2. content'[r] = Empty /\ pc'[r] = "write" /\ manifest' = manifest /\ pc[r] = "open"
      BY <3>1, <2>1, <1>8 DEF OpenTemp, TempName, GoTo, TypeOK
    <3> QED
      BY <3>2, <1>2 DEF FileInv
  <2>2. CASE q # r
    <3>1. tmp[pid[q]] # r
      BY <2>2, OwnFile
    <3>2. /\ content'[r] = content[r] /\ pc'[r] = pc[r]
          /\ manifest' = manifest /\ dir' = dir
      BY <3>1, <2>2, <1>8 DEF OpenTemp, TempName, GoTo, TypeOK
    <3> QED
      BY <3>2, <1>2 DEF FileInv, Holds
  <2> QED
    BY <2>1, <2>2
<1>9. ASSUME NEW q \in Runs, WriteTemp(q) PROVE FileInv(r)'
  <2>1. CASE q = r
    <3>1. fd[r] = r
      <4>1. fd[r] # NoFile /\ pid[fd[r]] = pid[r] /\ fd[r] \in Runs
        BY <2>1, <1>9 DEF WriteTemp, PidInv, TypeOK
      <4> QED
        BY <4>1, OwnFile
    <3>2. content'[r] = r /\ pc'[r] = "replace" /\ manifest' = manifest /\ pc[r] = "write"
      BY <3>1, <2>1, <1>2, <1>9 DEF WriteTemp, FileInv, GoTo, TypeOK
    <3> QED
      BY <3>2, <1>2 DEF FileInv
  <2>2. CASE q # r
    <3>1. fd[q] # r
      BY <2>2, OwnFile
    <3>2. /\ content'[r] = content[r] /\ pc'[r] = pc[r]
          /\ manifest' = manifest /\ dir' = dir
      BY <3>1, <2>2, <1>9 DEF WriteTemp, GoTo, TypeOK
    <3> QED
      BY <3>2, <1>2 DEF FileInv, Holds
  <2> QED
    BY <2>1, <2>2
<1>10. ASSUME NEW q \in Runs, WriteFails(q) \/ ReplaceFails(q) \/ Crash(q) \/ Unlink(q)
       PROVE  FileInv(r)'
  BY <1>2, <1>10 DEF WriteFails, ReplaceFails, Crash, Unlink, AfterFailure, GoTo, FileInv, Holds, TypeOK
<1>11. ASSUME NEW q \in Runs, Replace(q) PROVE FileInv(r)'
  <2>1. CASE tmp[pid[q]] = r
    <3>1. q = r
      BY <2>1, OwnFile
    <3>2. /\ pc[r] = "replace" /\ pc'[r] = "unlink" /\ content' = content
          /\ manifest' = r /\ dir' = dir
      BY <3>1, <2>1, <1>11 DEF Replace, TempName, GoTo, TypeOK
    <3>3. Holds(r)
      BY <3>2 DEF ClaimInv
    <3> QED
      BY <3>2, <3>3, <1>2 DEF FileInv, Holds
  <2>2. CASE tmp[pid[q]] # r
    <3>1. manifest' # r /\ content' = content /\ pc'[r] \in {pc[r], "unlink"}
      BY <2>2, <1>11 DEF Replace, TempName, GoTo, TypeOK
    <3> QED
      BY <3>1, <1>2 DEF FileInv
  <2> QED
    BY <2>1, <2>2
<1> QED
  BY <1>4, <1>5, <1>6, <1>7, <1>8, <1>9, <1>10, <1>11 DEF Next, RunStep

Litter == {"write", "replace", "clean", "crashed"}

\* Whoever goes on past its temporary file has removed or renamed it.
LEMMA LitterStays ==
  ASSUME TypeOK, NoLitter, NEW r \in Runs, NEW where,
         pc' = [pc EXCEPT ![r] = where], UNCHANGED pid,
         \A p \in Pids : p # pid[r] => tmp'[p] = tmp[p],
         \/ where \in Litter
         \/ tmp'[pid[r]] = NoFile
         \/ pc[r] \notin Litter /\ tmp'[pid[r]] = tmp[pid[r]]
  PROVE  NoLitter'
<1> SUFFICES ASSUME NEW p \in Pids, tmp'[p] # NoFile
             PROVE  \E q \in Runs : pid[q] = p /\ pc'[q] \in Litter
  BY DEF NoLitter, Litter
<1>1. \A q \in Runs : pc'[q] = IF q = r THEN where ELSE pc[q]
  BY DEF TypeOK
<1>2. CASE p = pid[r] /\ where \in Litter
  BY <1>1, <1>2
<1>3. CASE p # pid[r] \/ where \notin Litter
  <2>1. tmp[p] # NoFile /\ (p = pid[r] => pc[r] \notin Litter)
    BY <1>3
  <2>2. PICK q \in Runs : pid[q] = p /\ pc[q] \in Litter
    BY <2>1 DEF NoLitter, Litter
  <2>3. q # r
    BY <2>1, <2>2
  <2> QED
    BY <1>1, <2>2, <2>3
<1> QED
  BY <1>2, <1>3

LEMMA LitterStep ==
  ASSUME TypeOK, NoLitter, [Next]_vars
  PROVE  NoLitter'
<1> USE DEF Litter
<1>1. CASE UNCHANGED vars
  BY <1>1 DEF vars, NoLitter
<1>2. ASSUME NEW r \in Runs, CheckTag(r) PROVE NoLitter'
  BY <1>2, LitterStays DEF CheckTag, GoTo
<1>3. ASSUME NEW r \in Runs, Claim(r) PROVE NoLitter'
  BY <1>3, LitterStays DEF Claim, GoTo
<1>4. ASSUME NEW r \in Runs, FileExists(r) PROVE NoLitter'
  BY <1>4 DEF FileExists, NoLitter
<1>5. ASSUME NEW r \in Runs, OpenTemp(r) PROVE NoLitter'
  <2>1. \A p \in Pids : p # pid[r] => tmp'[p] = tmp[p]
    BY <1>5 DEF OpenTemp, TempName, TypeOK
  <2> QED
    BY <1>5, <2>1, LitterStays DEF OpenTemp, GoTo
<1>6. ASSUME NEW r \in Runs, WriteTemp(r) PROVE NoLitter'
  BY <1>6, LitterStays DEF WriteTemp, GoTo
<1>7. ASSUME NEW r \in Runs, WriteFails(r) PROVE NoLitter'
  BY <1>7, LitterStays DEF WriteFails, AfterFailure, GoTo
<1>8. ASSUME NEW r \in Runs, ReplaceFails(r) PROVE NoLitter'
  BY <1>8, LitterStays DEF ReplaceFails, AfterFailure, GoTo
<1>9. ASSUME NEW r \in Runs, Crash(r) PROVE NoLitter'
  BY <1>9, LitterStays DEF Crash, GoTo
<1>10. ASSUME NEW r \in Runs, Replace(r) \/ Unlink(r) PROVE NoLitter'
  <2>1. /\ \A p \in Pids : p # pid[r] => tmp'[p] = tmp[p]
        /\ tmp'[pid[r]] = NoFile
    BY <1>10 DEF Replace, Unlink, TempName, TypeOK
  <2>2. CASE Replace(r)
    BY <2>1, <2>2, LitterStays DEF Replace, GoTo
  <2>3. CASE Unlink(r)
    BY <2>1, <2>3, LitterStays DEF Unlink, GoTo
  <2> QED
    BY <1>10, <2>2, <2>3
<1> QED
  BY <1>1, <1>2, <1>3, <1>4, <1>5, <1>6, <1>7, <1>8, <1>9, <1>10 DEF Next, RunStep

-----------------------------------------------------------------------------
(* The results *)

THEOREM Invariance == Spec => []Inv
<1>1. Inv /\ [Next]_vars => Inv'
  BY TypeStep, ClaimsStep, PidStep, FilesStep, LitterStep DEF Inv, Claims
<1> QED
  BY InitInv, <1>1, PTL DEF Spec

\* Type correctness of the claim and of the manifest's files.
THEOREM TypeCorrect == Spec => []TypeOK
  BY Invariance, PTL DEF Inv

\* No two runs ever have the same directory, for any number of runs and any tags
\* (claim_run_dir).
THEOREM DirectoriesAreOwn == Spec => []ClaimsDistinct
  BY Invariance, PTL DEF Inv

\* A run's directory is the first that was unused (claim_run_dir).
THEOREM SuffixesAreDense == Spec => []FirstUnused
  BY Invariance, PTL DEF Inv

\* No temporary file stays behind but that of a run that was killed over it
\* (the finally clause of write_run_manifest).
THEOREM NoLitterIsLeft == Spec => []NoLitter
  BY Invariance, PTL DEF Inv

\* A manifest is whole whenever it is read, wherever its writers are killed, unless it is
\* from one of two runs with one pid (write_run_manifest).
THEOREM ManifestIsWhole == Spec => []ManifestWhole
<1>1. Inv => ManifestWhole
  BY DEF Inv, FilesInv, FileInv, ManifestWhole, TypeOK
<1> QED
  BY Invariance, <1>1, PTL

=============================================================================
