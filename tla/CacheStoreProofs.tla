-------------------------- MODULE CacheStoreProofs --------------------------
(***************************************************************************)
(* Proofs about the cache file, for any number of processes, scopes,       *)
(* files, edits and builds, with kills and power losses at any moment.     *)
(***************************************************************************)
EXTENDS CacheStore, FiniteSetTheorems, TLAPS

Labels == {"idle", "hash", "errsweep", "create", "encode", "sync", "rename"}
Builds ==
  [start : Seen, hash : Seen \cup {NoHash}, scope : {Scope[p] : p \in Procs},
   content : Seen, result : {"none", "fresh", "loaded", "empty", "error"}]
FileStates == [data : Contents, synced : BOOLEAN]

-----------------------------------------------------------------------------
(* Typing.                                                                 *)

LEMMA NewBuildType ==
  ASSUME NEW p \in Procs, NEW s \in Seen  PROVE  NewBuild(p, s) \in Builds
BY DEF NewBuild, Builds

LEMMA NoFileType == NoFile \in FileStates
BY DEF NoFile, FileStates, Contents

LEMMA PayloadType ==
  ASSUME NEW p \in Procs, build[p] \in Builds  PROVE  Payload(p) \in Caches
BY DEF Payload, Builds, Caches, Format

LEMMA InitTypeOK == Init => TypeOK
<1> SUFFICES ASSUME Init  PROVE  TypeOK
  OBVIOUS
<1>1. src \in Seen /\ \A f \in Files : src[f] <= edits
  BY StoreAssumption DEF Init, Seen, Versions
<1>2. path \in FileStates /\ durable \in Contents
  <2>1. CASE path = NoFile
    BY <2>1, NoFileType DEF Init, NoFile, Contents
  <2>2. CASE path \in [data : Old(src), synced : {TRUE}]
    <3>1. Old(src) \subseteq Caches
      BY <1>1 DEF Old, Caches
    <3> QED  BY <2>2, <3>1 DEF Init, FileStates, Contents
  <2> QED  BY <2>1, <2>2 DEF Init
<1>3. build \in [Procs -> Builds]
  BY <1>1, NewBuildType DEF Init
<1>4. tmp \in [Procs -> FileStates]
  BY NoFileType DEF Init
<1>5. pc \in [Procs -> Labels]
  BY DEF Init, Labels
<1>6. edits \in 0..MaxEdits /\ builds \in 0..MaxBuilds /\ orphans \in Nat
  BY StoreAssumption DEF Init
<1> QED  BY <1>1, <1>2, <1>3, <1>4, <1>5, <1>6, Zenon
         DEF TypeOK, Builds, FileStates, Labels

\* Steps of a build leave the machine alone.
LEMMA BuildStepFrame ==
  ASSUME NEW p \in Procs, BuildStep(p)
  PROVE  /\ UNCHANGED <<src, edits, durable, orphans>>
         /\ builds' = builds \/ (builds' = builds + 1 /\ builds < MaxBuilds)
         /\ path' = path \/ (pc[p] = "rename" /\ path' = tmp[p])
<1> USE DEF diskVars
<1>1. CASE Start(p)
  BY <1>1 DEF Start
<1>2. CASE Hash(p) \/ Succeed(p) \/ Fallback(p)
  BY <1>2 DEF Hash, Succeed, Fallback
<1>3. CASE Create(p) \/ Encode(p) \/ Sync(p)
  BY <1>3 DEF Create, Encode, Sync, Done, Step, Discard
<1>4. CASE Rename(p)
  BY <1>4 DEF Rename, Done, Discard
<1> QED  BY <1>1, <1>2, <1>3, <1>4 DEF BuildStep

\* A build step moves one process.
LEMMA BuildStepPc ==
  ASSUME pc \in [Procs -> Labels], NEW p \in Procs, BuildStep(p)
  PROVE  \E label \in Labels : pc' = [pc EXCEPT ![p] = label]
<1> USE DEF Goto, Labels
<1>1. CASE Start(p) \/ Hash(p) \/ Succeed(p) \/ Fallback(p)
  BY <1>1 DEF Start, Hash, Succeed, Fallback
<1>2. CASE Create(p) \/ Encode(p) \/ Sync(p) \/ Rename(p)
  BY <1>2 DEF Create, Encode, Sync, Rename, Step, Done, Discard, Return
<1> QED  BY <1>1, <1>2 DEF BuildStep

LEMMA BuildStepTmp ==
  ASSUME TypeOK, NEW p \in Procs, BuildStep(p)
  PROVE  \E t \in FileStates : tmp' = [tmp EXCEPT ![p] = t]
<1>1. tmp \in [Procs -> FileStates] /\ build[p] \in Builds
  BY Zenon DEF TypeOK, Builds, FileStates
<1>2. tmp[p] \in FileStates /\ tmp = [tmp EXCEPT ![p] = tmp[p]]
  BY <1>1
<1>3. CASE tmp' = tmp
  BY <1>2, <1>3
<1>4. CASE tmp' = [tmp EXCEPT ![p] = NoFile]
  BY <1>4, NoFileType
<1>5. Start(p) \/ Hash(p) \/ Succeed(p) \/ Fallback(p) => tmp' = tmp
  BY DEF Start, Hash, Succeed, Fallback
<1>6. /\ [data |-> Torn, synced |-> FALSE] \in FileStates
      /\ [data |-> Payload(p), synced |-> FALSE] \in FileStates
      /\ [data |-> tmp[p].data, synced |-> TRUE] \in FileStates
  BY <1>1, <1>2, PayloadType DEF FileStates, Contents
<1>7. CASE Create(p)
  BY <1>3, <1>6, <1>7 DEF Create, Write
<1>8. CASE Encode(p)
  BY <1>4, <1>6, <1>8 DEF Encode, Write, Discard
<1>9. CASE Sync(p)
  BY <1>4, <1>6, <1>9 DEF Sync, Write, Discard
<1>10. CASE Rename(p)
  BY <1>4, <1>10 DEF Rename, Discard
<1> QED  BY <1>3, <1>5, <1>7, <1>8, <1>9, <1>10 DEF BuildStep

LEMMA BuildStepBuild ==
  ASSUME TypeOK, NEW p \in Procs, BuildStep(p)
  PROVE  \E b \in Builds : build' = [build EXCEPT ![p] = b]
<1>1. build \in [Procs -> Builds] /\ src \in Seen /\ path \in FileStates
  BY Zenon DEF TypeOK, Builds, FileStates
<1>2. build[p] \in Builds /\ build = [build EXCEPT ![p] = build[p]]
  BY <1>1
<1>3. CASE Start(p)
  BY <1>1, <1>3, NewBuildType DEF Start, Known
<1>4. CASE Hash(p)
  <2>1. PICK h \in Seen \cup {NoHash} :
          build' = [build EXCEPT ![p] = [build[p] EXCEPT !.hash = h, !.content = src]]
    BY <1>4 DEF Hash, Known, Passes
  <2>2. [build[p] EXCEPT !.hash = h, !.content = src] \in Builds
    BY <1>1, <1>2 DEF Builds
  <2> QED  BY <2>1, <2>2
<1>5. CASE Succeed(p)
  <2>1. PICK seen \in Seen : build' = [build EXCEPT ![p] = [build[p] EXCEPT !.content = seen]]
    BY <1>5 DEF Succeed, Known, Passes
  <2>2. [build[p] EXCEPT !.content = seen] \in Builds
    BY <1>2 DEF Builds
  <2> QED  BY <2>1, <2>2
<1>6. CASE Fallback(p)
  <2>1. ASSUME Loadable(p)
        PROVE  [build[p] EXCEPT !.scope = path.data.scope,
                                !.content = path.data.content,
                                !.result = "loaded"] \in Builds
    <3>1. path.data \in Caches
      BY <1>1, <2>1 DEF Loadable, FileStates, Contents
    <3> QED  BY <1>2, <3>1 DEF Builds, Caches
  <2>2. ASSUME NEW result \in {"error", "empty"}
        PROVE  [build[p] EXCEPT !.result = result] \in Builds
    BY <1>2 DEF Builds
  <2> QED  BY <1>6, <2>1, <2>2 DEF Fallback, Known
<1>7. CASE Create(p) \/ Encode(p) \/ Sync(p) \/ Rename(p)
  <2>1. [build[p] EXCEPT !.result = "fresh"] \in Builds
    BY <1>2 DEF Builds
  <2>2. build' = build \/ build' = [build EXCEPT ![p] = [build[p] EXCEPT !.result = "fresh"]]
    BY <1>7 DEF Create, Encode, Sync, Rename, Step, Done, Discard, Return, Known
  <2> QED  BY <1>2, <2>1, <2>2
<1> QED  BY <1>3, <1>4, <1>5, <1>6, <1>7 DEF BuildStep

LEMMA EditTypeOK ==
  ASSUME TypeOK, NEW f \in Files, Edit(f)
  PROVE  src' \in Seen /\ edits' \in 0..MaxEdits /\ \A g \in Files : src'[g] <= edits'
<1>1. /\ src \in [Files -> 0..MaxEdits] /\ edits \in 0..MaxEdits
      /\ \A g \in Files : src[g] <= edits
  BY DEF TypeOK, Seen, Versions
<1>2. edits < MaxEdits /\ edits' = edits + 1 /\ src' = [src EXCEPT ![f] = @ + 1]
  BY DEF Edit
<1>3. src[f] + 1 \in 0..MaxEdits
  BY <1>1, <1>2, StoreAssumption
<1> QED  BY <1>1, <1>2, <1>3, StoreAssumption DEF Seen, Versions

\* Steps of the machine and of the user.
LEMMA MachineTypeOK ==
  ASSUME TypeOK, Flush \/ PowerLoss \/ \E p \in Procs : Kill(p)
  PROVE  /\ UNCHANGED <<src, edits, builds, build>>
         /\ path' \in FileStates /\ durable' \in Contents
         /\ tmp' \in [Procs -> FileStates] /\ orphans' \in Nat
         /\ pc' \in [Procs -> Labels]
<1>1. /\ path \in FileStates /\ durable \in Contents /\ orphans \in Nat
      /\ tmp \in [Procs -> FileStates] /\ pc \in [Procs -> Labels]
  BY Zenon DEF TypeOK, FileStates, Labels
<1>2. CASE Flush
  BY <1>1, <1>2 DEF Flush, FileStates, Contents
<1>3. CASE PowerLoss
  <2>1. Cardinality({p \in Procs : tmp[p] # NoFile}) \in Nat
    BY StoreAssumption, FS_Subset, FS_CardinalityType
  <2>2. orphans' \in Nat
    BY <1>1, <1>3, <2>1 DEF PowerLoss
  <2>3. path' \in FileStates
    BY <1>1, <1>3 DEF PowerLoss, FileStates
  <2> QED  BY <1>1, <1>3, <2>2, <2>3, NoFileType DEF PowerLoss, Labels
<1>4. ASSUME NEW p \in Procs, Kill(p)
      PROVE  /\ UNCHANGED <<src, edits, builds, build, path, durable>>
             /\ tmp' \in [Procs -> FileStates] /\ orphans' \in Nat
             /\ pc' \in [Procs -> Labels]
  BY <1>1, <1>4, NoFileType DEF Kill, Goto, diskVars, Labels
<1> QED  BY <1>1, <1>2, <1>3, <1>4

LEMMA NextTypeOK == TypeOK /\ [Next]_vars => TypeOK'
<1> SUFFICES ASSUME TypeOK, [Next]_vars  PROVE  TypeOK'
  OBVIOUS
<1>1. /\ src \in Seen /\ edits \in 0..MaxEdits /\ builds \in 0..MaxBuilds
      /\ \A f \in Files : src[f] <= edits
      /\ path \in FileStates /\ durable \in Contents
      /\ tmp \in [Procs -> FileStates] /\ orphans \in Nat
      /\ pc \in [Procs -> Labels] /\ build \in [Procs -> Builds]
  BY Zenon DEF TypeOK, Builds, FileStates, Labels
<1> SUFFICES /\ src' \in Seen /\ edits' \in 0..MaxEdits /\ builds' \in 0..MaxBuilds
             /\ \A f \in Files : src'[f] <= edits'
             /\ path' \in FileStates /\ durable' \in Contents
             /\ tmp' \in [Procs -> FileStates] /\ orphans' \in Nat
             /\ pc' \in [Procs -> Labels] /\ build' \in [Procs -> Builds]
  BY Zenon DEF TypeOK, Builds, FileStates, Labels
<1>2. CASE \E f \in Files : Edit(f)
  <2>1. UNCHANGED <<builds, path, durable, tmp, orphans, pc, build>>
    BY <1>2 DEF Edit, diskVars
  <2> QED  BY <1>1, <1>2, <2>1, EditTypeOK
<1>3. ASSUME NEW p \in Procs, BuildStep(p)
      PROVE  /\ UNCHANGED <<src, edits, durable, orphans>>
             /\ builds' \in 0..MaxBuilds /\ path' \in FileStates
             /\ tmp' \in [Procs -> FileStates]
             /\ pc' \in [Procs -> Labels] /\ build' \in [Procs -> Builds]
  <2>1. builds' \in 0..MaxBuilds
    BY <1>1, <1>3, BuildStepFrame, StoreAssumption
  <2>2. path' \in FileStates
    BY <1>1, <1>3, BuildStepFrame
  <2>3. tmp' \in [Procs -> FileStates]
    BY <1>1, <1>3, BuildStepTmp
  <2>4. pc' \in [Procs -> Labels]
    BY <1>1, <1>3, BuildStepPc
  <2>5. build' \in [Procs -> Builds]
    BY <1>1, <1>3, BuildStepBuild
  <2> QED  BY <1>3, <2>1, <2>2, <2>3, <2>4, <2>5, BuildStepFrame
<1>4. CASE Flush \/ PowerLoss \/ \E p \in Procs : Kill(p)
  BY <1>1, <1>4, MachineTypeOK
<1>5. CASE UNCHANGED vars
  BY <1>1, <1>5 DEF vars, diskVars
<1> QED  BY <1>1, <1>2, <1>3, <1>4, <1>5 DEF Next

\* Every variable keeps its type, however builds, edits and crashes interleave.
THEOREM TypeCorrect == Spec => []TypeOK
BY InitTypeOK, NextTypeOK, PTL DEF Spec

-----------------------------------------------------------------------------
(* Only whole, synced caches are renamed into place.                       *)

Whole == Caches \cup {Absent}

FileInv == path.data \in Whole /\ path.synced = TRUE /\ durable \in Whole

TmpInv(p) ==
  /\ pc[p] = "sync" => tmp[p].data \in Caches
  /\ pc[p] = "rename" => tmp[p].data \in Caches /\ tmp[p].synced = TRUE

AtomicInv == FileInv /\ \A p \in Procs : TmpInv(p)

LEMMA InitAtomicInv == Init => AtomicInv
<1> SUFFICES ASSUME Init  PROVE  AtomicInv
  OBVIOUS
<1>1. src \in Seen
  BY StoreAssumption DEF Init, Seen, Versions
<1>2. Old(src) \subseteq Caches
  BY <1>1 DEF Old, Caches
<1>3. path.data \in Whole /\ path.synced = TRUE
  <2>1. CASE path = NoFile
    BY <2>1 DEF NoFile, Whole
  <2>2. CASE path \in [data : Old(src), synced : {TRUE}]
    BY <1>2, <2>2 DEF Whole
  <2> QED  BY <2>1, <2>2 DEF Init
<1>4. FileInv
  BY <1>3 DEF Init, FileInv
<1>5. \A p \in Procs : TmpInv(p)
  BY DEF Init, TmpInv
<1> QED  BY <1>4, <1>5 DEF AtomicInv

\* Where a save is after a step of it, and what its temporary file holds.
LEMMA BuildStepTmpInv ==
  ASSUME TypeOK, NEW p \in Procs, BuildStep(p), TmpInv(p)  PROVE  TmpInv(p)'
<1>1. /\ pc \in [Procs -> Labels] /\ tmp \in [Procs -> FileStates]
      /\ build[p] \in Builds
  BY Zenon DEF TypeOK, Builds, FileStates, Labels
<1>2. CASE Start(p) \/ Hash(p) \/ Succeed(p) \/ Fallback(p)
  BY <1>1, <1>2 DEF Start, Hash, Succeed, Fallback, Goto, TmpInv
<1>3. CASE Create(p)
  BY <1>1, <1>3 DEF Create, Step, Done, Return, Goto, TmpInv
<1>4. CASE Encode(p)
  BY <1>1, <1>4, PayloadType
  DEF Encode, Step, Discard, Done, Return, Goto, Write, TmpInv
<1>5. CASE Sync(p)
  BY <1>1, <1>5 DEF Sync, Step, Discard, Done, Return, Goto, Write, TmpInv
<1>6. CASE Rename(p)
  BY <1>1, <1>6 DEF Rename, Discard, Done, Return, Goto, TmpInv
<1> QED  BY <1>2, <1>3, <1>4, <1>5, <1>6 DEF BuildStep

\* A process that does not move keeps its place and its file.
LEMMA OthersStill ==
  ASSUME TypeOK, NEW p \in Procs, BuildStep(p), NEW q \in Procs, q # p
  PROVE  pc'[q] = pc[q] /\ tmp'[q] = tmp[q] /\ build'[q] = build[q]
<1>1. /\ pc \in [Procs -> Labels] /\ tmp \in [Procs -> FileStates]
      /\ build \in [Procs -> Builds]
  BY Zenon DEF TypeOK, Builds, FileStates, Labels
<1> QED  BY <1>1, BuildStepPc, BuildStepTmp, BuildStepBuild

LEMMA NextAtomicInv == TypeOK /\ AtomicInv /\ [Next]_vars => AtomicInv'
<1> SUFFICES ASSUME TypeOK, AtomicInv, [Next]_vars  PROVE  AtomicInv'
  OBVIOUS
<1> USE DEF AtomicInv
<1>1. ASSUME NEW p \in Procs, BuildStep(p)  PROVE  AtomicInv'
  <2>1. FileInv'
    BY <1>1, BuildStepFrame DEF FileInv, TmpInv, Whole
  <2>2. ASSUME NEW q \in Procs  PROVE  TmpInv(q)'
    <3>1. CASE q = p
      BY <1>1, <3>1, BuildStepTmpInv
    <3>2. CASE q # p
      BY <1>1, <3>2, OthersStill DEF TmpInv
    <3> QED  BY <3>1, <3>2
  <2> QED  BY <2>1, <2>2
<1>2. CASE (\E f \in Files : Edit(f)) \/ UNCHANGED vars
  BY <1>2 DEF Edit, vars, diskVars, FileInv, TmpInv
<1>3. ASSUME NEW p \in Procs, Kill(p)  PROVE  AtomicInv'
  <2>1. pc \in [Procs -> Labels] /\ tmp \in [Procs -> FileStates]
    BY Zenon DEF TypeOK, FileStates, Labels
  <2> QED  BY <1>3, <2>1 DEF Kill, Goto, diskVars, FileInv, TmpInv
<1>4. CASE Flush
  BY <1>4 DEF Flush, FileInv, TmpInv
<1>5. CASE PowerLoss
  BY <1>5 DEF PowerLoss, FileInv, TmpInv
<1> QED  BY <1>1, <1>2, <1>3, <1>4, <1>5 DEF Next

LEMMA StepAtomic ==
  TypeOK /\ AtomicInv /\ [Next]_vars => [File!Next]_(File!vars)
<1> SUFFICES ASSUME TypeOK, AtomicInv, [Next]_vars
             PROVE  File!Next \/ UNCHANGED File!vars
  OBVIOUS
<1> USE DEF File!vars
<1>1. ASSUME NEW p \in Procs, BuildStep(p)
      PROVE  File!Next \/ UNCHANGED File!vars
  <2>1. CASE path' = path
    BY <1>1, <2>1, BuildStepFrame
  <2>2. CASE pc[p] = "rename" /\ path' = tmp[p]
    <3>1. path'.data \in Caches
      BY <2>2 DEF AtomicInv, TmpInv
    <3> QED  BY <1>1, <3>1, BuildStepFrame DEF File!Next, File!Replace
  <2> QED  BY <1>1, <2>1, <2>2, BuildStepFrame
<1>2. CASE \/ \E f \in Files : Edit(f)
           \/ \E p \in Procs : Kill(p)
           \/ UNCHANGED vars
  BY <1>2 DEF Edit, Kill, vars, diskVars
<1>3. CASE Flush
  BY <1>3 DEF Flush, AtomicInv, FileInv, File!Next, File!Flush
<1>4. CASE PowerLoss
  BY <1>4 DEF PowerLoss, File!Next, File!Lose
<1> QED  BY <1>1, <1>2, <1>3, <1>4 DEF Next

\* The cache file is an atomic register: concurrent saves, failed system calls,
\* kills and power losses never leave a torn or half-written cache where a
\* reader finds it (cache_store.go:38-79).
THEOREM CacheFileAtomic == Spec => SavesAtomically
<1>1. Init => File!Init
  <2> SUFFICES ASSUME Init  PROVE  File!Init
    OBVIOUS
  <2>1. FileInv
    BY InitAtomicInv DEF AtomicInv
  <2> QED  BY <2>1 DEF Init, FileInv, Whole, File!Init, File!TypeOK
<1> QED  BY <1>1, InitTypeOK, NextTypeOK, InitAtomicInv, NextAtomicInv, StepAtomic, PTL
         DEF Spec, SavesAtomically, File!Spec

LEMMA BuildStepLeaves ==
  ASSUME TypeOK, NoLeftovers, NEW p \in Procs, BuildStep(p)
  PROVE  pc'[p] \in {"idle", "hash", "errsweep", "create"} => tmp'[p] = NoFile
<1>1. /\ pc \in [Procs -> Labels] /\ tmp \in [Procs -> FileStates]
  BY Zenon DEF TypeOK, FileStates, Labels
<1>2. CASE Start(p) \/ Hash(p) \/ Succeed(p) \/ Fallback(p)
  BY <1>1, <1>2 DEF Start, Hash, Succeed, Fallback, NoLeftovers
<1>3. CASE Create(p)
  BY <1>1, <1>3 DEF Create, Step, Goto, NoLeftovers
<1>4. CASE Encode(p) \/ Sync(p)
  BY <1>1, <1>4 DEF Encode, Sync, Step, Discard, Goto
<1>5. CASE Rename(p)
  BY <1>1, <1>5 DEF Rename, Discard
<1> QED  BY <1>2, <1>3, <1>4, <1>5 DEF BuildStep

LEMMA NextNoLeftovers == TypeOK /\ NoLeftovers /\ [Next]_vars => NoLeftovers'
<1> SUFFICES ASSUME TypeOK, NoLeftovers, [Next]_vars  PROVE  NoLeftovers'
  OBVIOUS
<1>1. ASSUME NEW p \in Procs, BuildStep(p)  PROVE  NoLeftovers'
  BY <1>1, BuildStepLeaves, OthersStill DEF NoLeftovers
<1>2. ASSUME NEW p \in Procs, Kill(p)  PROVE  NoLeftovers'
  <2>1. pc \in [Procs -> Labels] /\ tmp \in [Procs -> FileStates]
    BY Zenon DEF TypeOK, FileStates, Labels
  <2> QED  BY <1>2, <2>1 DEF Kill, Goto, NoLeftovers
<1>3. CASE (\E f \in Files : Edit(f)) \/ Flush \/ UNCHANGED vars
  BY <1>3 DEF Edit, Flush, vars, diskVars, NoLeftovers
<1>4. CASE PowerLoss
  BY <1>4 DEF PowerLoss, NoLeftovers
<1> QED  BY <1>1, <1>2, <1>3, <1>4 DEF Next

\* Every error path of a save removes the temporary file: a process that is not
\* in the middle of a save has none (cache_store.go:54-77).
THEOREM ErrorsCleanUp == Spec => []NoLeftovers
<1>1. Init => NoLeftovers
  BY DEF Init, NoLeftovers
<1> QED  BY <1>1, InitTypeOK, NextTypeOK, NextNoLeftovers, PTL DEF Spec

-----------------------------------------------------------------------------
(* What a cache claims, and what a build returns.                          *)

\* A cache does not claim to be of newer sources than it was computed from.
Honest(data) ==
  data \in Caches /\ data.hash # NoHash => Covers(data.content, data.hash)

HonestInv ==
  /\ Honest(path.data) /\ Honest(durable)
  /\ \A p \in Procs : Honest(tmp[p].data)

\* What a build knows of the sources is at least what they were at its start,
\* and it is never more than they are.
BuildInv(p) ==
  /\ pc[p] # "idle" => build[p].scope = Scope[p] /\ build[p].result = "none"
  /\ pc[p] = "hash" => Covers(src, build[p].start)
  /\ pc[p] = "errsweep" => Covers(src, build[p].content)
  /\ pc[p] \notin {"idle", "hash"} =>
       /\ Covers(build[p].content, build[p].start)
       /\ build[p].hash = NoHash => HashMayFail
       /\ build[p].hash # NoHash =>
            /\ Covers(build[p].content, build[p].hash)
            /\ Covers(build[p].hash, build[p].start)
  /\ ~HashMayFail /\ build[p].result \in {"fresh", "loaded"} =>
       build[p].scope = Scope[p] /\ Covers(build[p].content, build[p].start)

CurrentInv == HonestInv /\ \A p \in Procs : BuildInv(p)

LEMMA SeenInt == ASSUME NEW s \in Seen, NEW f \in Files  PROVE  s[f] \in Int
BY StoreAssumption DEF Seen, Versions

LEMMA CoversReflexive == ASSUME NEW s \in Seen  PROVE  Covers(s, s)
BY SeenInt DEF Covers

LEMMA CoversTransitive ==
  ASSUME NEW r \in Seen, NEW s \in Seen, NEW t \in Seen, Covers(r, s), Covers(s, t)
  PROVE  Covers(r, t)
BY SeenInt DEF Covers

\* A pass sees nothing older than what it began with, nothing newer than now.
LEMMA PassCovers ==
  ASSUME NEW from \in Seen, src \in Seen, NEW seen \in Passes(from)
  PROVE  seen \in Seen /\ Covers(seen, from) /\ Covers(src, seen)
BY SeenInt DEF Passes, Covers

LEMMA InitCurrentInv == Init => CurrentInv
<1> SUFFICES ASSUME Init  PROVE  CurrentInv
  OBVIOUS
<1>1. src \in Seen
  BY StoreAssumption DEF Init, Seen, Versions
<1>2. Honest(Absent)
  BY StoreAssumption DEF Honest
<1>3. ASSUME NEW data \in Old(src)  PROVE  Honest(data)
  BY <1>1, <1>3, CoversReflexive DEF Old, Honest
<1>4. Honest(path.data)
  <2>1. CASE path = NoFile
    BY <1>2, <2>1 DEF NoFile
  <2>2. CASE path \in [data : Old(src), synced : {TRUE}]
    BY <1>3, <2>2
  <2> QED  BY <2>1, <2>2 DEF Init
<1>5. HonestInv
  BY <1>2, <1>4 DEF Init, NoFile, HonestInv
<1>6. \A p \in Procs : BuildInv(p)
  BY DEF Init, NewBuild, BuildInv
<1> QED  BY <1>5, <1>6 DEF CurrentInv

\* What p's step leaves p's build with.
LEMMA StartBuildInv ==
  ASSUME TypeOK, NEW p \in Procs, Start(p), BuildInv(p)  PROVE  BuildInv(p)'
<1>1. /\ pc \in [Procs -> Labels] /\ build \in [Procs -> Builds]
      /\ src \in Seen
  BY Zenon DEF TypeOK, Builds, Labels
<1>2. /\ pc'[p] = "hash" /\ build'[p] = NewBuild(p, src) /\ src' = src
  BY <1>1 DEF Start, Goto, Known
<1> QED  BY <1>1, <1>2, CoversReflexive DEF NewBuild, BuildInv, Covers

LEMMA HashBuildInv ==
  ASSUME TypeOK, NEW p \in Procs, Hash(p), BuildInv(p)  PROVE  BuildInv(p)'
<1>1. /\ pc \in [Procs -> Labels] /\ build \in [Procs -> Builds]
      /\ build[p] \in Builds /\ src \in Seen /\ build[p].start \in Seen
  BY Zenon DEF TypeOK, Builds, Labels
<1>2. PICK h \in Passes(build[p].start) \cup (IF HashMayFail THEN {NoHash} ELSE {}) :
        build' = [build EXCEPT ![p] = [build[p] EXCEPT !.hash = h, !.content = src]]
  BY DEF Hash, Known
<1> DEFINE b == build'[p]
<1>3. /\ b.start = build[p].start /\ b.hash = h /\ b.content = src
      /\ b.scope = build[p].scope /\ b.result = build[p].result
  BY <1>1, <1>2 DEF Builds
<1>4. pc[p] = "hash" /\ pc'[p] = "errsweep" /\ src' = src
  BY <1>1 DEF Hash, Goto
<1>5. Covers(src, build[p].start) /\ b.scope = Scope[p] /\ b.result = "none"
  BY <1>3, <1>4 DEF BuildInv
<1>6. Covers(src, src)
  BY <1>1, CoversReflexive
<1>7. CASE h = NoHash
  <2>1. NoHash \notin Passes(build[p].start)
    BY StoreAssumption DEF Passes
  <2>2. HashMayFail
    BY <1>7, <2>1
  <2> QED  BY <1>3, <1>4, <1>5, <1>6, <1>7, <2>2 DEF BuildInv
<1>8. CASE h # NoHash
  <2>1. h \in Passes(build[p].start)
    BY <1>8
  <2>2. Covers(h, build[p].start) /\ Covers(src, h)
    BY <1>1, <2>1, PassCovers
  <2> QED  BY <1>3, <1>4, <1>5, <1>6, <1>8, <2>2 DEF BuildInv
<1> QED  BY <1>7, <1>8

LEMMA SucceedBuildInv ==
  ASSUME TypeOK, NEW p \in Procs, Succeed(p), BuildInv(p)  PROVE  BuildInv(p)'
<1>1. /\ pc \in [Procs -> Labels] /\ build \in [Procs -> Builds]
      /\ build[p] \in Builds /\ src \in Seen /\ build[p].start \in Seen
      /\ build[p].content \in Seen /\ build[p].hash \in Seen \cup {NoHash}
  BY Zenon DEF TypeOK, Builds, Labels
<1>2. PICK seen \in Passes(build[p].content) :
        build' = [build EXCEPT ![p] = [build[p] EXCEPT !.content = seen]]
  BY DEF Succeed, Known
<1> DEFINE b == build'[p]
<1>3. /\ b.start = build[p].start /\ b.hash = build[p].hash /\ b.content = seen
      /\ b.scope = build[p].scope /\ b.result = build[p].result
  BY <1>1, <1>2 DEF Builds
<1>4. pc[p] = "errsweep" /\ pc'[p] = "create" /\ src' = src
  BY <1>1 DEF Succeed, Goto
<1>5. seen \in Seen /\ Covers(seen, build[p].content)
  BY <1>1, PassCovers
<1>6. Covers(seen, build[p].start)
  BY <1>1, <1>4, <1>5, CoversTransitive DEF BuildInv
<1>7. build[p].hash # NoHash => Covers(seen, build[p].hash)
  BY <1>1, <1>4, <1>5, CoversTransitive DEF BuildInv
<1> QED  BY <1>3, <1>4, <1>6, <1>7 DEF BuildInv

LEMMA FallbackBuildInv ==
  ASSUME TypeOK, HonestInv, NEW p \in Procs, Fallback(p), BuildInv(p)
  PROVE  BuildInv(p)'
<1>1. /\ pc \in [Procs -> Labels] /\ build \in [Procs -> Builds]
      /\ build[p] \in Builds /\ build[p].start \in Seen
      /\ build[p].hash \in Seen \cup {NoHash} /\ path.data \in Contents
  BY Zenon DEF TypeOK, Builds, Labels
<1>2. pc[p] = "errsweep" /\ pc'[p] = "idle"
  BY <1>1 DEF Fallback, Goto
<1>3. CASE Loadable(p) /\ Known(p, [build[p] EXCEPT !.scope = path.data.scope,
                                      !.content = path.data.content,
                                      !.result = "loaded"])
  <2>1. /\ build'[p].start = build[p].start
        /\ build'[p].scope = path.data.scope
        /\ build'[p].content = path.data.content
    BY <1>1, <1>3 DEF Known, Builds
  <2>2. /\ path.data \in Caches /\ path.data.scope = Scope[p]
        /\ path.data.hash = build[p].hash
    BY <1>1, <1>3 DEF Loadable, Matches, Contents
  <2>3. ASSUME ~HashMayFail  PROVE  Covers(path.data.content, build[p].start)
    <3>1. build[p].hash # NoHash /\ Covers(build[p].hash, build[p].start)
      BY <1>2, <2>3 DEF BuildInv
    <3>2. Covers(path.data.content, build[p].hash)
      BY <2>2, <3>1 DEF HonestInv, Honest
    <3>3. path.data.content \in Seen
      BY <2>2 DEF Caches
    <3> QED  BY <1>1, <3>1, <3>2, <3>3, CoversTransitive
  <2> QED  BY <1>2, <2>1, <2>2, <2>3 DEF BuildInv
<1>4. CASE \E result \in {"error", "empty"} :
             Known(p, [build[p] EXCEPT !.result = result])
  BY <1>1, <1>2, <1>4 DEF Known, Builds, BuildInv
<1> QED  BY <1>3, <1>4 DEF Fallback

\* A save leaves the build as it is, but for its result.
LEMMA SaveBuildInv ==
  ASSUME TypeOK, NEW p \in Procs, BuildInv(p),
         Create(p) \/ Encode(p) \/ Sync(p) \/ Rename(p)
  PROVE  BuildInv(p)'
<1>1. /\ pc \in [Procs -> Labels] /\ build \in [Procs -> Builds]
      /\ build[p] \in Builds
  BY Zenon DEF TypeOK, Builds, Labels
<1>2. /\ pc[p] \notin {"idle", "hash", "errsweep"} /\ src' = src
      /\ \/ pc'[p] = "idle" /\ build' = [build EXCEPT ![p] = [build[p] EXCEPT !.result = "fresh"]]
         \/ pc'[p] \notin {"idle", "hash", "errsweep"} /\ build' = build
  BY <1>1 DEF Create, Encode, Sync, Rename, Step, Discard, Done, Return, Goto, Known
<1>3. CASE pc'[p] = "idle"
           /\ build' = [build EXCEPT ![p] = [build[p] EXCEPT !.result = "fresh"]]
  <2>1. /\ build'[p].start = build[p].start /\ build'[p].content = build[p].content
        /\ build'[p].scope = build[p].scope
    BY <1>1, <1>3 DEF Builds
  <2> QED  BY <1>2, <1>3, <2>1 DEF BuildInv
<1>4. CASE pc'[p] \notin {"idle", "hash", "errsweep"} /\ build' = build
  BY <1>2, <1>4 DEF BuildInv
<1> QED  BY <1>2, <1>3, <1>4

\* Caches that are written, renamed or flushed stay honest.
LEMMA BuildStepHonest ==
  ASSUME TypeOK, HonestInv, NEW p \in Procs, BuildStep(p), BuildInv(p)
  PROVE  HonestInv'
<1>1. /\ tmp \in [Procs -> FileStates] /\ build[p] \in Builds
  BY Zenon DEF TypeOK, Builds, FileStates
<1>2. Honest(Absent) /\ Honest(Torn)
  BY StoreAssumption DEF Honest
<1>3. ASSUME pc[p] = "encode"  PROVE  Honest(Payload(p))
  BY <1>3 DEF BuildInv, Honest, Payload
<1>4. /\ durable' = durable
      /\ path' = path \/ path' = tmp[p]
  BY BuildStepFrame
<1>5. \/ tmp' = tmp
      \/ \E data \in {Absent, Torn, tmp[p].data} : \E synced \in BOOLEAN :
           tmp' = [tmp EXCEPT ![p] = [data |-> data, synced |-> synced]]
      \/ pc[p] = "encode" /\ tmp' = [tmp EXCEPT ![p] = [data |-> Payload(p), synced |-> FALSE]]
  <2>1. CASE Start(p) \/ Hash(p) \/ Succeed(p) \/ Fallback(p)
    BY <2>1 DEF Start, Hash, Succeed, Fallback
  <2>2. CASE Create(p) \/ Sync(p)
    BY <2>2 DEF Create, Sync, Write, Discard, NoFile
  <2>3. CASE Encode(p)
    BY <2>3 DEF Encode, Write, Discard, NoFile
  <2>4. CASE Rename(p)
    BY <2>4 DEF Rename, Discard, NoFile
  <2> QED  BY <2>1, <2>2, <2>3, <2>4 DEF BuildStep
<1>6. \A q \in Procs : Honest(tmp'[q].data)
  <2>1. CASE tmp' = tmp
    BY <2>1 DEF HonestInv
  <2>2. CASE \E data \in {Absent, Torn, tmp[p].data} : \E synced \in BOOLEAN :
               tmp' = [tmp EXCEPT ![p] = [data |-> data, synced |-> synced]]
    <3>1. PICK data \in {Absent, Torn, tmp[p].data}, synced \in BOOLEAN :
            tmp' = [tmp EXCEPT ![p] = [data |-> data, synced |-> synced]]
      BY <2>2
    <3>2. Honest(data)
      BY <1>2, <3>1 DEF HonestInv
    <3> TAKE q \in Procs
    <3>3. CASE q = p
      BY <1>1, <3>1, <3>2, <3>3
    <3>4. CASE q # p
      BY <1>1, <3>1, <3>4 DEF HonestInv
    <3> QED  BY <3>3, <3>4
  <2>3. CASE /\ pc[p] = "encode"
             /\ tmp' = [tmp EXCEPT ![p] = [data |-> Payload(p), synced |-> FALSE]]
    <3> TAKE q \in Procs
    <3>1. CASE q = p
      BY <1>1, <1>3, <2>3, <3>1
    <3>2. CASE q # p
      BY <1>1, <2>3, <3>2 DEF HonestInv
    <3> QED  BY <3>1, <3>2
  <2> QED  BY <1>5, <2>1, <2>2, <2>3
<1>7. Honest(path'.data)
  BY <1>4 DEF HonestInv
<1>8. Honest(durable')
  BY <1>4 DEF HonestInv
<1> QED  BY <1>6, <1>7, <1>8 DEF HonestInv, Honest

LEMMA MachineCurrent ==
  ASSUME TypeOK, CurrentInv, Flush \/ PowerLoss \/ \E p \in Procs : Kill(p)
  PROVE  CurrentInv'
<1>1. /\ pc \in [Procs -> Labels] /\ tmp \in [Procs -> FileStates]
  BY Zenon DEF TypeOK, FileStates, Labels
<1>2. Honest(Absent) /\ Honest(Torn)
  BY StoreAssumption DEF Honest
<1>3. CASE Flush
  <2>1. durable' \in {path.data, Torn} /\ path' = path
        /\ UNCHANGED <<src, tmp, pc, build>>
    BY <1>3 DEF Flush
  <2>2. Honest(durable') /\ Honest(path'.data) /\ \A p \in Procs : Honest(tmp'[p].data)
    BY <1>2, <2>1 DEF CurrentInv, HonestInv
  <2>3. \A p \in Procs : BuildInv(p)'
    BY <2>1 DEF CurrentInv, BuildInv
  <2> QED  BY <2>2, <2>3 DEF CurrentInv, HonestInv, Honest
<1>4. CASE PowerLoss
  <2>1. /\ path'.data = durable /\ durable' = durable
        /\ \A p \in Procs : tmp'[p].data = Absent /\ pc'[p] = "idle"
        /\ UNCHANGED <<src, build>>
    BY <1>4 DEF PowerLoss, NoFile
  <2>2. Honest(durable') /\ Honest(path'.data) /\ \A p \in Procs : Honest(tmp'[p].data)
    BY <1>2, <2>1 DEF CurrentInv, HonestInv
  <2>3. \A p \in Procs : BuildInv(p)'
    BY <2>1 DEF CurrentInv, BuildInv
  <2> QED  BY <2>2, <2>3 DEF CurrentInv, HonestInv, Honest
<1>5. ASSUME NEW p \in Procs, Kill(p)  PROVE  CurrentInv'
  <2>1. /\ path' = path /\ durable' = durable
        /\ \A q \in Procs : tmp'[q].data \in {Absent, tmp[q].data}
        /\ \A q \in Procs : pc'[q] \in {"idle", pc[q]}
        /\ UNCHANGED <<src, build>>
    BY <1>1, <1>5 DEF Kill, Goto, NoFile, diskVars
  <2>2. Honest(durable') /\ Honest(path'.data) /\ \A q \in Procs : Honest(tmp'[q].data)
    BY <1>2, <2>1 DEF CurrentInv, HonestInv
  <2>3. \A q \in Procs : BuildInv(q)'
    BY <2>1 DEF CurrentInv, BuildInv
  <2> QED  BY <2>2, <2>3 DEF CurrentInv, HonestInv, Honest
<1> QED  BY <1>3, <1>4, <1>5

LEMMA NextCurrentInv == TypeOK /\ CurrentInv /\ [Next]_vars => CurrentInv'
<1> SUFFICES ASSUME TypeOK, CurrentInv, [Next]_vars  PROVE  CurrentInv'
  OBVIOUS
<1>1. ASSUME NEW p \in Procs, BuildStep(p)  PROVE  CurrentInv'
  <2>1. HonestInv'
    BY <1>1, BuildStepHonest DEF CurrentInv
  <2>2. ASSUME NEW q \in Procs  PROVE  BuildInv(q)'
    <3>1. CASE q = p
      BY <1>1, <3>1, StartBuildInv, HashBuildInv, SucceedBuildInv, FallbackBuildInv,
         SaveBuildInv, Zenon DEF CurrentInv, BuildStep
    <3>2. CASE q # p
      BY <1>1, <3>2, OthersStill, BuildStepFrame DEF CurrentInv, BuildInv
    <3> QED  BY <3>1, <3>2
  <2> QED  BY <2>1, <2>2 DEF CurrentInv
<1>2. ASSUME NEW f \in Files, Edit(f)  PROVE  CurrentInv'
  <2>1. UNCHANGED <<path, durable, tmp, pc, build>>
    BY <1>2 DEF Edit, diskVars
  <2>2. /\ src \in Seen /\ src' \in Seen /\ build \in [Procs -> Builds]
    BY <1>2, EditTypeOK, Zenon DEF TypeOK, Builds
  <2>3. Covers(src', src)
    BY <1>2, <2>2, SeenInt DEF Edit, Covers, Seen, Versions
  <2>4. ASSUME NEW q \in Procs  PROVE  BuildInv(q)'
    <3>1. build[q].start \in Seen /\ build[q].content \in Seen
      BY <2>2 DEF Builds
    <3>2. /\ Covers(src, build[q].start) => Covers(src', build[q].start)
          /\ Covers(src, build[q].content) => Covers(src', build[q].content)
      BY <2>2, <2>3, <3>1, CoversTransitive
    <3> QED  BY <2>1, <3>2 DEF CurrentInv, BuildInv
  <2> QED  BY <2>1, <2>4 DEF CurrentInv, HonestInv, Honest
<1>3. CASE UNCHANGED vars
  BY <1>3 DEF vars, diskVars, CurrentInv, HonestInv, Honest, BuildInv
<1> QED  BY <1>1, <1>2, <1>3, MachineCurrent DEF Next

\* A cache file never claims newer sources than its entries were computed
\* from, because the hash is taken before errsweep runs (loader.go:56-97).
THEOREM FileHonest == Spec => []HashNotAhead
<1>1. CurrentInv => HashNotAhead
  BY DEF CurrentInv, HonestInv, Honest, HashNotAhead
<1> QED  BY <1>1, InitTypeOK, NextTypeOK, InitCurrentInv, NextCurrentInv, PTL DEF Spec

\* As long as hashing succeeds, a build never returns results of sources older
\* than its start, or of another workspace: neither computed nor loaded ones
\* (loader.go:48-99, cache_store.go:156-163).
THEOREM BuildsCurrent == ASSUME ~HashMayFail  PROVE  Spec => []ResultCurrent
<1>1. CurrentInv => ResultCurrent
  BY DEF CurrentInv, BuildInv, ResultCurrent
<1> QED  BY <1>1, InitTypeOK, NextTypeOK, InitCurrentInv, NextCurrentInv, PTL DEF Spec
=============================================================================
