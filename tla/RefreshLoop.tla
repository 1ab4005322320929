---------------------------- MODULE RefreshLoop ----------------------------
(***************************************************************************)
(* The cache refresher of cmd/errsweep-lsp-proxy: the goroutine that reads *)
(* the editor's notifications and turns them into refresh requests, the    *)
(* pendingRefresh record the requests are coalesced in, the one-slot       *)
(* channel refreshCh, and the goroutine that debounces, throttles, drains  *)
(* and re-analyses.                                                        *)
(*                                                                         *)
(* Source text is abstracted to what changed since an analysis read it.    *)
(* A unit is a package directory or the module files (go.mod, go.sum,      *)
(* go.work); gens[d] is the set of generations that what the cache says of *)
(* package directory d comes from, a generation being the set of units     *)
(* that changed on disk after that analysis read them.  A fresh package    *)
(* has gens[d] = {{}}; an empty set of generations is a package that no    *)
(* analysis in the cache covers.                                           *)
(*                                                                         *)
(* An analysis may say nothing of a directory: errsweep -json reports a    *)
(* package that does not load by an error object, which the parser skips,  *)
(* and may print nothing at all.  The loader accepts both as results.  The *)
(* cache then holds no entry of the directory, which is `unloaded`.        *)
(*                                                                         *)
(* Time is abstracted to saturating ages: sinceAttempt and sinceFull count *)
(* ticks up to the interval they are compared with, which decides every    *)
(* comparison the code makes on the real clock.                            *)
(***************************************************************************)
EXTENDS Integers, Sequences

CONSTANTS
  Dirs,                 \* package directories of the workspace
  Root,                 \* the workspace root; in Dirs when it holds a package
  Mod,                  \* the module files
  Other,                \* any file the refresher ignores
  Needs,                \* Needs[d]: units the diagnostics of d depend on
  Messages,             \* notifications the editor may send: sets of files
  MinInterval,          \* --cache-refresh-min-interval, in ticks
  FullInterval,         \* --cache-full-refresh-interval, in ticks
  Debounce,             \* the debounce sleep, in ticks
  MaxSaves,             \* bound: notifications sent in a behaviour
  Unloadable,           \* directories of which an accepted run may say nothing
  MayFail,              \* whether the loader may refuse an errsweep run
  HashMayFail           \* whether hashing the sources may fail

Units == Dirs \cup {Mod}

ASSUME FilesAssumption ==
  /\ Mod \notin Dirs
  /\ Other \notin Units
  /\ Messages \subseteq SUBSET (Units \cup {Other})

ASSUME NeedsAssumption ==
  /\ Needs \in [Dirs -> SUBSET Units]
  /\ \A d \in Dirs : {d, Mod} \subseteq Needs[d]

ASSUME BoundsAssumption ==
  /\ MinInterval \in Nat
  /\ FullInterval \in Nat
  /\ Debounce \in Nat
  /\ MaxSaves \in Nat
  /\ Unloadable \subseteq Dirs
  /\ {MayFail, HashMayFail} \subseteq BOOLEAN

VARIABLES
  gens,                 \* generations the cache has, per directory
  unloaded,             \* directories whose latest result in the cache is nothing
  inbox,                \* notifications the proxy has not read yet
  saves,                \* notifications sent so far
  editor,               \* editor goroutine: "read", or "signal" after add
  pendingFull,          \* pendingRefresh.full
  pendingDirs,          \* pendingRefresh.pkgDirs
  refreshCh,            \* TRUE when the one-slot channel is occupied
  loop,                 \* where the refresh goroutine is
  jobDirs,              \* the directories drained for the run under way
  changed,              \* units changed on disk since that run started
  lost,                 \* directories a failed run took and nobody redid
  skipped,              \* the last wake-up was thrown away by the throttle
  timer,                \* ticks left of the debounce sleep
  sinceAttempt,         \* age of lastRefreshAttempt, up to MinInterval
  sinceFull             \* age of lastFullRefresh, up to FullInterval

requestVars == <<editor, pendingFull, pendingDirs, refreshCh>>
cacheVars   == <<gens, unloaded>>
clockVars   == <<timer, sinceAttempt, sinceFull>>
jobVars     == <<loop, jobDirs, changed, lost, skipped>>
vars == <<cacheVars, inbox, saves, requestVars, jobVars, clockVars>>

Building == loop \in {"initial", "full", "partial"}

\* The directories whose cached entries the run under way replaces.
Replaced == IF loop = "partial" THEN jobDirs
            ELSE IF Building THEN Dirs ELSE {}

\* pkgDirsToPatterns turns the workspace root into "./...", so a partial
\* run that includes the root analyses every package.
Analysed == IF Root \in jobDirs THEN Dirs ELSE jobDirs

TypeOK ==
  /\ gens \in [Dirs -> SUBSET SUBSET Units]
  /\ unloaded \subseteq Unloadable
  /\ inbox \in Seq(Messages)
  /\ saves \in 0..MaxSaves
  /\ editor \in {"read", "signal"}
  /\ pendingFull \in BOOLEAN
  /\ pendingDirs \subseteq Dirs
  /\ refreshCh \in BOOLEAN
  /\ loop \in {"initial", "wait", "debounce", "full", "partial"}
  /\ jobDirs \subseteq Dirs
  /\ changed \subseteq Units
  /\ lost \subseteq Dirs
  /\ skipped \in BOOLEAN
  /\ timer \in 0..Debounce
  /\ sinceAttempt \in 0..MinInterval
  /\ sinceFull \in 0..FullInterval

\* main() first builds the cache; only then do the goroutines start.  A zero
\* lastRefreshAttempt never throttles, as an attempt MinInterval ago.
Init ==
  /\ gens = [d \in Dirs |-> {}]
  /\ unloaded = {}
  /\ inbox = <<>>
  /\ saves = 0
  /\ editor = "read"
  /\ pendingFull = FALSE
  /\ pendingDirs = {}
  /\ refreshCh = FALSE
  /\ loop = "initial"
  /\ jobDirs = {}
  /\ changed = {}
  /\ lost = {}
  /\ skipped = FALSE
  /\ timer = 0
  /\ sinceAttempt = MinInterval
  /\ sinceFull = 0

-----------------------------------------------------------------------------
(* The editor and the goroutine that reads from it.                        *)

\* The user saves, creates, renames or deletes files and the editor
\* announces them in one notification.
Save(msg) ==
  /\ saves < MaxSaves
  /\ saves' = saves + 1
  /\ gens' = [d \in Dirs |-> {g \cup (msg \cap Needs[d]) : g \in gens[d]}]
  /\ changed' = IF Building THEN changed \cup (msg \cap Units) ELSE changed
  /\ inbox' = Append(inbox, msg)
  /\ UNCHANGED <<unloaded, requestVars, loop, jobDirs, lost, skipped, clockVars>>

\* refreshRequestFromURIs: the module files ask for a full run, a Go file
\* for its directory, anything else for nothing.
IsRefresh(msg) == msg \cap Units # {}
WantsFull(msg) == Mod \in msg

MutantAnyParent(msg) == msg \cap Units
MutantFirstFile(msg) ==
  IF msg \cap Dirs = {} THEN {} ELSE {CHOOSE d \in msg \cap Dirs : TRUE}
PackageDirs(msg) == msg \cap Dirs

ReadMessage ==
  /\ loop # "initial"
  /\ editor = "read"
  /\ inbox # <<>>
  /\ inbox' = Tail(inbox)

IgnoreMessage ==
  /\ ReadMessage
  /\ ~IsRefresh(Head(inbox))
  /\ UNCHANGED <<cacheVars, saves, requestVars, jobVars, clockVars>>

\* pending.add(req)
AddRequest ==
  /\ ReadMessage
  /\ IsRefresh(Head(inbox))
  /\ pendingFull' = (pendingFull \/ WantsFull(Head(inbox)))
  /\ pendingDirs' = pendingDirs \cup PackageDirs(Head(inbox))
  /\ editor' = "signal"
  /\ UNCHANGED <<cacheVars, saves, refreshCh, jobVars, clockVars>>

\* The channel without its slot: only a waiting receiver takes the wake-up.
MutantSignalUnbuffered ==
  /\ editor = "signal"
  /\ refreshCh' = (loop = "wait")
  /\ editor' = "read"
  /\ UNCHANGED <<cacheVars, inbox, saves, pendingFull, pendingDirs, jobVars, clockVars>>

\* select { case refreshCh <- struct{}{}: default: }
SignalRefresh ==
  /\ editor = "signal"
  /\ refreshCh' = TRUE
  /\ editor' = "read"
  /\ UNCHANGED <<cacheVars, inbox, saves, pendingFull, pendingDirs, jobVars, clockVars>>

-----------------------------------------------------------------------------
(* The refresh goroutine.                                                  *)

Receive ==
  /\ loop = "wait"
  /\ refreshCh
  /\ refreshCh' = FALSE
  /\ loop' = "debounce"
  /\ timer' = Debounce
  /\ skipped' = FALSE
  /\ UNCHANGED <<cacheVars, inbox, saves, editor, pendingFull, pendingDirs,
                 jobDirs, changed, lost, sinceAttempt, sinceFull>>

ShouldRunRefresh    == sinceAttempt >= MinInterval
ShouldUpgradeToFull == FullInterval > 0 /\ sinceFull >= FullInterval

Awake == loop = "debounce" /\ timer = 0

\* drain() moved above the check of the interval.
MutantThrottleDrained ==
  /\ Awake
  /\ ~ShouldRunRefresh
  /\ loop' = "wait"
  /\ skipped' = TRUE
  /\ pendingFull' = FALSE
  /\ pendingDirs' = {}
  /\ UNCHANGED <<cacheVars, inbox, saves, editor, refreshCh, jobDirs, changed, lost, clockVars>>

\* Too soon after the last attempt: the wake-up is consumed and the pending
\* requests stay where they are.
Throttle ==
  /\ Awake
  /\ ~ShouldRunRefresh
  /\ loop' = "wait"
  /\ skipped' = TRUE
  /\ UNCHANGED <<cacheVars, inbox, saves, requestVars, jobDirs, changed, lost, clockVars>>

\* pending.drain() and the start of an errsweep run.
Drain(mode) ==
  /\ Awake
  /\ ShouldRunRefresh
  /\ sinceAttempt' = 0
  /\ pendingFull' = FALSE
  /\ pendingDirs' = {}
  /\ jobDirs' = pendingDirs
  /\ changed' = {}
  /\ loop' = mode
  /\ UNCHANGED <<cacheVars, inbox, saves, editor, refreshCh, lost, skipped, timer, sinceFull>>

\* A full run: asked for, due as a safety net, or because nothing is pending.
MutantFlagIgnored == pendingDirs = {} \/ ShouldUpgradeToFull
WantFull == pendingFull \/ pendingDirs = {} \/ ShouldUpgradeToFull

StartFull    == Drain("full") /\ WantFull
StartPartial == Drain("partial") /\ ~WantFull

\* A run reads each unit that changes meanwhile either before or after the
\* change: `missed` are those it read before.  `silent` are the directories its
\* result says nothing of.
EndRun(newGens, newUnloaded, newLost) ==
  /\ gens' = newGens
  /\ unloaded' = newUnloaded
  /\ lost' = newLost
  /\ loop' = "wait"
  /\ jobDirs' = {}
  /\ changed' = {}
  /\ UNCHANGED <<inbox, saves, requestVars, skipped, timer, sinceAttempt>>

\* p.SetCache(newCache), or the cache the proxy is created with.  The loader
\* accepts any output that parses, whatever the exit code, and an empty one
\* with exit code 0 or 3.  A cache file that it falls back on with a matching
\* hash was computed from the sources as they were when this run began.
FinishFull(missed, silent) ==
  /\ loop \in {"initial", "full"}
  /\ EndRun([d \in Dirs |-> {missed \cap Needs[d]}], silent, {})
  /\ sinceFull' = 0

\* Entries the result brings for a directory that was not drained are added to
\* those the cache holds, if it holds any.
Added(d, missed, silent) ==
  IF d \in silent THEN gens[d]
  ELSE (IF d \in unloaded THEN {} ELSE gens[d]) \cup {missed \cap Needs[d]}

\* The merge deletes what the patterns cover, not what was drained.
MutantDeletesAnalysed(missed, silent) ==
  /\ loop = "partial"
  /\ EndRun([d \in Dirs |-> IF d \in Analysed THEN {missed \cap Needs[d]} ELSE gens[d]],
            (unloaded \ Analysed) \cup (silent \cap Analysed), lost \ jobDirs)
  /\ UNCHANGED sinceFull

\* p.MergePartial(partial, pkgDirs): entries directly under the drained
\* directories are replaced, other entries of the result are added.
FinishPartial(missed, silent) ==
  /\ loop = "partial"
  /\ EndRun([d \in Dirs |->
               IF d \in jobDirs THEN {missed \cap Needs[d]}
               ELSE IF d \in Analysed THEN Added(d, missed, silent)
               ELSE gens[d]],
            (unloaded \ Analysed) \cup (silent \cap (jobDirs \cup unloaded)),
            lost \ jobDirs)
  /\ UNCHANGED sinceFull

\* A full run fails and hashing failed, for this build as for the one that
\* wrote the cache file: the two empty hashes match and the file is installed,
\* from whatever sources it comes.  main() takes it for a result.
FallBack(old, silent) ==
  /\ MayFail /\ HashMayFail
  /\ loop \in {"initial", "full"}
  /\ EndRun([d \in Dirs |-> {old \cap Needs[d]}], silent, Dirs)
  /\ sinceFull' = 0

\* The initial build is refused: the proxy goes on with an empty cache.
FailInitial ==
  /\ MayFail
  /\ loop = "initial"
  /\ EndRun([d \in Dirs |-> {}], {}, Dirs)
  /\ sinceFull' = 0

\* The loader returns the cache file without comparing metadata.
MutantLoadsAnyFile ==
  /\ MayFail
  /\ loop \in {"full", "partial"}
  /\ EndRun([d \in Dirs |-> {Needs[d]}], {}, lost \cup Replaced)
  /\ UNCHANGED sinceFull

\* A refresh is refused (a timeout, no output with another exit code, or output
\* that does not parse, and no cache file that matches): it is logged and what
\* it had drained is not put back.
FailRefresh ==
  /\ MayFail
  /\ loop \in {"full", "partial"}
  /\ EndRun(gens, unloaded, lost \cup Replaced)
  /\ UNCHANGED sinceFull

-----------------------------------------------------------------------------
Older(age, limit) == IF age < limit THEN age + 1 ELSE age

Tick ==
  /\ timer > 0 \/ sinceAttempt < MinInterval \/ sinceFull < FullInterval
  /\ timer' = IF timer > 0 THEN timer - 1 ELSE 0
  /\ sinceAttempt' = Older(sinceAttempt, MinInterval)
  /\ sinceFull' = Older(sinceFull, FullInterval)
  /\ UNCHANGED <<cacheVars, inbox, saves, requestVars, jobVars>>

Finish ==
  \E missed \in SUBSET changed, silent \in SUBSET Unloadable :
    FinishFull(missed, silent) \/ FinishPartial(missed, silent)

FellBack == \E old \in SUBSET Units, silent \in SUBSET Unloadable : FallBack(old, silent)

EndOfRun == Finish \/ FellBack \/ FailInitial \/ FailRefresh

Reader == IgnoreMessage \/ AddRequest \/ SignalRefresh

Refresher == Receive \/ Throttle \/ StartFull \/ StartPartial

Next ==
  \/ \E msg \in Messages : Save(msg)
  \/ Reader
  \/ Refresher
  \/ EndOfRun
  \/ Tick

Spec == Init /\ [][Next]_vars

\* Goroutines are scheduled, time passes and a run ends (its context times
\* out); nothing obliges the user to save.
FairSpec ==
  /\ Spec
  /\ WF_vars(Reader)
  /\ WF_vars(Refresher)
  /\ WF_vars(EndOfRun)
  /\ WF_vars(Tick)

-----------------------------------------------------------------------------
(* Safety.                                                                 *)

NamedIn(u, msgs) == \E i \in DOMAIN msgs : u \in msgs[i]

\* A change to unit u has been announced and no run has taken it yet.
Announced(u) ==
  \/ u \in pendingDirs
  \/ u = Mod /\ pendingFull
  \/ NamedIn(u, inbox)

\* Whatever change of a package's own files or of the module files the cache
\* does not know of is owed: announced by a notification, being re-analysed,
\* or taken by a run that failed.  Coalescing in pendingRefresh, the one-slot
\* channel and the throttle never forget a saved file.
OwedByDirs ==
  \A d \in Dirs :
    (gens[d] = {} \/ \E g \in gens[d] : d \in g)
      => Announced(d) \/ d \in Replaced \/ d \in lost

OwedByMod ==
  \A d \in Dirs :
    (\E g \in gens[d] : Mod \in g)
      => Announced(Mod) \/ loop \in {"initial", "full"} \/ d \in lost

Accounted == OwedByDirs /\ OwedByMod

\* Pending requests are never left without a wake-up: the channel is
\* occupied, the reader is about to send, the refresher is awake, or the
\* throttle threw the wake-up away.
Pending == pendingFull \/ pendingDirs # {}

NoLostWakeup ==
  Pending => refreshCh \/ editor = "signal" \/ loop = "debounce" \/ skipped

\* No step of the proxy makes the cache older: what a run installs for a
\* directory was read no earlier than all the cache had of it, however changes,
\* notifications and failures interleave with the run (main.go:140-163,
\* proxy.go:36-48).  The one exception is a cache file that no hash vouches for,
\* which `store_no_hash` shows.
NeverRegresses ==
  [][\/ saves' # saves
     \/ \A d \in Dirs : \A h \in gens'[d] :
          h \in gens[d] \/ \A g \in gens[d] : h \subseteq g
     \/ FellBack]_vars

\* The cache holds what an analysis of d found.
Shows(d) == gens[d] # {} /\ d \notin unloaded

\* A directory loses its entries only to an accepted run that was to re-analyse
\* it and got nothing of it.  A run that is refused takes nothing away, and a
\* run over other directories does not either, even when the workspace root
\* among them makes errsweep analyse this one too and find it does not load
\* (loader.go:148, cache.go:89-93, 108-134).
EntriesKept ==
  [][\/ \A d \in Dirs : Shows(d) /\ ~Shows(d)' =>
          d \in Replaced \cap Unloadable /\ d \notin lost'
     \/ FellBack]_vars

\* What makes the properties above inductive: whatever changed during the run
\* under way has been announced, and the cache is already known to lack it.
ChangesAnnounced == \A u \in changed : Announced(u)

ChangesKnown ==
  Building => \A d \in Dirs : \A g \in gens[d] : changed \cap Needs[d] \subseteq g

StartsEmpty == loop = "initial" => \A d \in Dirs : gens[d] = {}

IInv ==
  /\ TypeOK /\ Accounted /\ NoLostWakeup
  /\ ChangesAnnounced /\ ChangesKnown /\ StartsEmpty

-----------------------------------------------------------------------------
(* Liveness, and what the comments of main.go promise.                     *)

\* Once the saves stop, the cache comes to reflect every saved Go file
\* (cmd/errsweep-lsp-proxy/main.go:117: a notification is debounced, then the
\* cache is rebuilt): it has what an analysis of that file said, which is
\* nothing when the package did not load.
Reflected == \A d \in Dirs : gens[d] # {} /\ \A g \in gens[d] : d \notin g

Converges == <>[]Reflected

-----------------------------------------------------------------------------
(* The refresher implements the coalescing queue of requests.              *)

Coalescing == INSTANCE CoalescingRefresh WITH
  waiting <- IF pendingFull THEN Dirs ELSE pendingDirs,
  running <- Replaced,
  dropped <- lost

CoalescesRequests     == Coalescing!Spec
ServesEveryRequest    == Coalescing!FairSpec
=============================================================================
