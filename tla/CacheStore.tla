----------------------------- MODULE CacheStore -----------------------------
(***************************************************************************)
(* BuildCache of package proxy and the cache file it falls back on:        *)
(* several processes (the proxies and servers of several editor windows)   *)
(* hash the sources, run errsweep, save the result through a temporary     *)
(* file and, when errsweep gives nothing, load what is in the file if its  *)
(* metadata match.  Sources change at any moment, every system call of a   *)
(* save may fail, a process may be killed and the machine may lose power.  *)
(*                                                                         *)
(* Sources are versions of files; an edit makes a version that never       *)
(* existed before, as a new modification time does.  What an analysis or a *)
(* hash read is the version of each file it saw.                           *)
(***************************************************************************)
EXTENDS Integers, FiniteSets

CONSTANTS
  Procs,                \* processes that share the cache file
  Scope,                \* Scope[p]: the workspace and pattern p analyses
  Files,                \* source files of the workspaces
  NoHash,               \* the empty string of a failed computeSourceHash
  Absent,               \* there is no file
  Torn,                 \* a file whose content is not a whole cache
  MaxEdits,             \* bound: edits in a behaviour
  MaxBuilds,            \* bound: builds in a behaviour
  HashMayFail,          \* whether computeSourceHash may return an error
  MayKill,              \* whether processes are killed
  MayLosePower          \* whether the machine loses power

Versions == 0..MaxEdits
Seen     == [Files -> Versions]
Format   == 2             \* cacheFormatVersion

\* A cache with its metadata: the hash was taken of versions `hash`, the
\* entries were computed from versions `content`.
Caches ==
  [format : {1, Format}, scope : {Scope[p] : p \in Procs},
   hash : Seen \cup {NoHash}, content : Seen]

ASSUME StoreAssumption ==
  /\ IsFiniteSet(Procs)
  /\ NoHash \notin Seen /\ {Absent, Torn} \cap Caches = {}
  /\ MaxEdits \in Nat
  /\ MaxBuilds \in Nat
  /\ {HashMayFail, MayKill, MayLosePower} \subseteq BOOLEAN

VARIABLES
  src,                  \* versions of the files on disk
  edits, builds,        \* edits and builds so far
  path,                 \* the cache file: its data and whether they are synced
  durable,              \* the cache file as it is on the medium
  tmp,                  \* tmp[p]: p's temporary file, in the same way
  orphans,              \* temporary files of killed processes
  pc,                   \* where each process is in BuildCache
  build                 \* build[p]: what p's last or current build knows

diskVars == <<path, durable>>
vars == <<src, edits, builds, diskVars, tmp, orphans, pc, build>>

NoFile == [data |-> Absent, synced |-> TRUE]

\* Metadata saved without normalizeMetadata.
MutantNotNormalized(p) ==
  [format |-> 0, scope |-> Scope[p], hash |-> build[p].hash, content |-> build[p].content]

\* What a build is about to save.
Payload(p) ==
  [format |-> Format, scope |-> Scope[p],
   hash |-> build[p].hash, content |-> build[p].content]

NewBuild(p, s) ==
  [start |-> s, hash |-> NoHash, scope |-> Scope[p], content |-> s, result |-> "none"]

Old(s) == {[format |-> 1, scope |-> Scope[p], hash |-> s, content |-> s] : p \in Procs}

Init ==
  /\ src = [f \in Files |-> 0]
  /\ edits = 0 /\ builds = 0
  \* No file, or one that an earlier version of the program left.
  /\ path \in {NoFile} \cup [data : Old(src), synced : {TRUE}]
  /\ durable = path.data
  /\ tmp = [p \in Procs |-> NoFile]
  /\ orphans = 0
  /\ pc = [p \in Procs |-> "idle"]
  /\ build = [p \in Procs |-> NewBuild(p, src)]

-----------------------------------------------------------------------------
Goto(p, label) == pc' = [pc EXCEPT ![p] = label]
Known(p, b) == build' = [build EXCEPT ![p] = b]
Return(p, result) == Goto(p, "idle") /\ Known(p, [build[p] EXCEPT !.result = result])

Edit(f) ==
  /\ edits < MaxEdits
  /\ edits' = edits + 1
  /\ src' = [src EXCEPT ![f] = @ + 1]
  /\ UNCHANGED <<builds, diskVars, tmp, orphans, pc, build>>

Start(p) ==
  /\ pc[p] = "idle"
  /\ builds < MaxBuilds
  /\ builds' = builds + 1
  /\ Goto(p, "hash")
  /\ Known(p, NewBuild(p, src))
  /\ UNCHANGED <<src, edits, diskVars, tmp, orphans>>

\* A pass over the sources that began at versions `from` and ends now saw, of
\* each file, one of the versions it had meanwhile.
Passes(from) == {seen \in Seen : \A f \in Files : seen[f] \in from[f]..src[f]}

\* computeSourceHash; its error is dropped and leaves the empty hash.  Until
\* errsweep ends, `content` is what it began with.
Hash(p) ==
  /\ pc[p] = "hash"
  /\ \E h \in Passes(build[p].start) \cup (IF HashMayFail THEN {NoHash} ELSE {}) :
       Known(p, [build[p] EXCEPT !.hash = h, !.content = src])
  /\ Goto(p, "errsweep")
  /\ UNCHANGED <<src, edits, builds, diskVars, tmp, orphans>>

\* The hash taken of the sources as they are when errsweep is done.
MutantHashAfter(p) ==
  /\ pc[p] = "errsweep"
  /\ \E seen \in Passes(build[p].content) :
       Known(p, [build[p] EXCEPT !.content = seen, !.hash = src])
  /\ Goto(p, "create")
  /\ UNCHANGED <<src, edits, builds, diskVars, tmp, orphans>>

\* errsweep printed something that parses, with whatever exit code: the analysis
\* of the packages that load, and error objects, which say nothing, for others.
Succeed(p) ==
  /\ pc[p] = "errsweep"
  /\ \E seen \in Passes(build[p].content) :
       Known(p, [build[p] EXCEPT !.content = seen])
  /\ Goto(p, "create")
  /\ UNCHANGED <<src, edits, builds, diskVars, tmp, orphans>>

MutantAnyHash(p) == path.data.format = Format /\ path.data.scope = Scope[p]

\* loadValidCache and metadataMatches.
Matches(p) ==
  /\ path.data.format = Format
  /\ path.data.scope = Scope[p]
  /\ path.data.hash = build[p].hash

Loadable(p) == path.data \notin {Absent, Torn} /\ Matches(p)

\* errsweep timed out, failed without output, printed something that does not
\* parse, or printed nothing: only the last is no error without a cache file.
Fallback(p) ==
  /\ pc[p] = "errsweep"
  /\ Goto(p, "idle")
  /\ \/ /\ Loadable(p)
        /\ Known(p, [build[p] EXCEPT !.scope = path.data.scope,
                                     !.content = path.data.content,
                                     !.result = "loaded"])
     \/ /\ ~Loadable(p)
        /\ \E result \in {"error", "empty"} :
             Known(p, [build[p] EXCEPT !.result = result])
  /\ UNCHANGED <<src, edits, builds, diskVars, tmp, orphans>>

-----------------------------------------------------------------------------
(* SaveCacheToFileWithMetadata.  An error ends the save, not the build.    *)

Write(p, data, synced) ==
  tmp' = [tmp EXCEPT ![p] = [data |-> data, synced |-> synced]]

Done(p) == Return(p, "fresh") /\ UNCHANGED <<src, edits, builds, orphans>>
Step(p, label) == Goto(p, label) /\ UNCHANGED <<src, edits, builds, orphans, build>>

Create(p) ==
  /\ pc[p] = "create"
  /\ \/ Write(p, Torn, FALSE) /\ Step(p, "encode")
     \/ UNCHANGED tmp /\ Done(p)
  /\ UNCHANGED diskVars

\* Every error path removes the temporary file.
Discard(p) == tmp' = [tmp EXCEPT ![p] = NoFile] /\ Done(p)

Encode(p) ==
  /\ pc[p] = "encode"
  /\ \/ Write(p, Payload(p), FALSE) /\ Step(p, "sync")
     \/ Discard(p)
  /\ UNCHANGED diskVars

\* fsync left out.
MutantUnsynced(p) ==
  /\ pc[p] = "sync"
  /\ UNCHANGED tmp /\ Step(p, "rename")
  /\ UNCHANGED diskVars

\* Sync, then close.
Sync(p) ==
  /\ pc[p] = "sync"
  /\ \/ Write(p, tmp[p].data, TRUE) /\ Step(p, "rename")
     \/ Discard(p)
  /\ UNCHANGED diskVars

\* A failed rename reported without removing the file.
MutantRenameLeaves(p) ==
  /\ pc[p] = "rename"
  /\ UNCHANGED tmp /\ Done(p)
  /\ UNCHANGED diskVars

Rename(p) ==
  /\ pc[p] = "rename"
  /\ \/ /\ path' = tmp[p]
        /\ Discard(p)
        /\ UNCHANGED durable
     \/ Discard(p) /\ UNCHANGED diskVars

-----------------------------------------------------------------------------
(* The file system and what may happen to the processes.                   *)

\* The rename reaches the medium, and of the file what was synced of it.
Flush ==
  /\ MayLosePower
  /\ durable' \in {path.data} \cup (IF path.synced THEN {} ELSE {Torn})
  /\ UNCHANGED <<src, edits, builds, path, tmp, orphans, pc, build>>

\* The editor exits in the middle of a refresh: the process goes with it.
Kill(p) ==
  /\ MayKill
  /\ pc[p] # "idle"
  /\ Goto(p, "idle")
  /\ tmp' = [tmp EXCEPT ![p] = NoFile]
  /\ orphans' = orphans + (IF tmp[p] = NoFile THEN 0 ELSE 1)
  /\ UNCHANGED <<src, edits, builds, diskVars, build>>

\* The sources survive a power loss; they are not this program's to sync.
PowerLoss ==
  /\ MayLosePower
  /\ path' = [data |-> durable, synced |-> TRUE]
  /\ pc' = [p \in Procs |-> "idle"]
  /\ tmp' = [p \in Procs |-> NoFile]
  /\ orphans' = orphans + Cardinality({p \in Procs : tmp[p] # NoFile})
  /\ UNCHANGED <<src, edits, builds, durable, build>>

BuildStep(p) ==
  \/ Start(p) \/ Hash(p) \/ Succeed(p) \/ Fallback(p)
  \/ Create(p) \/ Encode(p) \/ Sync(p) \/ Rename(p)

Next ==
  \/ \E f \in Files : Edit(f)
  \/ \E p \in Procs : BuildStep(p) \/ Kill(p)
  \/ Flush
  \/ PowerLoss

Spec == Init /\ [][Next]_vars

-----------------------------------------------------------------------------
(* Properties.                                                             *)

Contents == Caches \cup {Absent, Torn}

TypeOK ==
  /\ src \in Seen /\ edits \in 0..MaxEdits /\ builds \in 0..MaxBuilds
  /\ \A f \in Files : src[f] <= edits
  /\ path \in [data : Contents, synced : BOOLEAN]
  /\ durable \in Contents
  /\ tmp \in [Procs -> [data : Contents, synced : BOOLEAN]]
  /\ orphans \in Nat
  /\ pc \in [Procs -> {"idle", "hash", "errsweep", "create", "encode", "sync", "rename"}]
  /\ build \in [Procs -> [start : Seen, hash : Seen \cup {NoHash},
                         scope : {Scope[p] : p \in Procs}, content : Seen,
                         result : {"none", "fresh", "loaded", "empty", "error"}]]

\* At least as recent as.
Covers(content, seen) == \A f \in Files : seen[f] <= content[f]

\* A cache never claims to be of newer sources than it was computed from: the
\* hash is taken before errsweep runs (loader.go:56, 67, 97).
HashNotAhead ==
  path.data \in Caches /\ path.data.hash # NoHash
    => Covers(path.data.content, path.data.hash)

\* What BuildCache returns is of the right workspace and reflects the sources at
\* least as they were when it was called, whether errsweep computed it or
\* another process did, whoever saved meanwhile and whatever crashed
\* (loader.go:211).
ResultCurrent ==
  \A p \in Procs :
    build[p].result \in {"fresh", "loaded"} =>
      build[p].scope = Scope[p] /\ Covers(build[p].content, build[p].start)

\* Only a process that dies leaves a temporary file behind.
NoLeftovers ==
  \A p \in Procs : pc[p] \in {"idle", "hash", "errsweep", "create"} => tmp[p] = NoFile

\* The file promises what AtomicFile says: readers never meet a torn or
\* half-written cache, whatever processes save at the same time and whenever
\* they or the machine stop (cache_store.go:38-40).
File == INSTANCE AtomicFile WITH
  Values <- Caches, file <- path.data, durable <- durable

SavesAtomically == File!Spec
=============================================================================
