------------------------- MODULE RefreshLoopProofs -------------------------
(***************************************************************************)
(* Proofs about the cache refresher, for every workspace, every dependency *)
(* relation, every interval and every number of saves.                     *)
(***************************************************************************)
EXTENDS RefreshLoop, TLAPS

-----------------------------------------------------------------------------
(* What the reader's queue of notifications names.                         *)

\* Appending a notification adds exactly the units it names.
LEMMA NamedAppend ==
  ASSUME NEW S, NEW msgs \in Seq(S), NEW msg \in S, NEW u
  PROVE  NamedIn(u, Append(msgs, msg)) <=> NamedIn(u, msgs) \/ u \in msg
<1>1. /\ DOMAIN msgs = 1..Len(msgs)
      /\ DOMAIN Append(msgs, msg) = 1..(Len(msgs) + 1)
      /\ Len(msgs) \in Nat
  OBVIOUS
<1>2. \A i \in 1..Len(msgs) : Append(msgs, msg)[i] = msgs[i]
  OBVIOUS
<1>3. Append(msgs, msg)[Len(msgs) + 1] = msg
  OBVIOUS
<1> QED  BY <1>1, <1>2, <1>3 DEF NamedIn

\* A non-empty queue names what its head names and what its tail names.
LEMMA NamedTail ==
  ASSUME NEW S, NEW msgs \in Seq(S), msgs # <<>>, NEW u
  PROVE  NamedIn(u, msgs) <=> u \in Head(msgs) \/ NamedIn(u, Tail(msgs))
<1>1. /\ DOMAIN msgs = 1..Len(msgs)
      /\ DOMAIN Tail(msgs) = 1..(Len(msgs) - 1)
      /\ Len(msgs) \in Nat \ {0}
  OBVIOUS
<1>2. \A i \in 1..(Len(msgs) - 1) : Tail(msgs)[i] = msgs[i + 1]
  OBVIOUS
<1>3. Head(msgs) = msgs[1]
  OBVIOUS
<1>4. \A i \in 1..Len(msgs) : i = 1 \/ i - 1 \in 1..(Len(msgs) - 1)
  BY <1>1
<1>5. \A i \in 1..(Len(msgs) - 1) : i + 1 \in 1..Len(msgs)
  BY <1>1
<1>6. ASSUME NamedIn(u, msgs)  PROVE  u \in Head(msgs) \/ NamedIn(u, Tail(msgs))
  <2>1. PICK i \in 1..Len(msgs) : u \in msgs[i]
    BY <1>1, <1>6 DEF NamedIn
  <2>2. CASE i = 1
    BY <2>1, <2>2, <1>3
  <2>3. CASE i - 1 \in 1..(Len(msgs) - 1)
    <3>1. Tail(msgs)[i - 1] = msgs[i]
      BY <2>3, <1>2
    <3> QED  BY <3>1, <2>1, <2>3, <1>1 DEF NamedIn
  <2> QED  BY <2>2, <2>3, <1>4
<1>7. ASSUME u \in Head(msgs)  PROVE  NamedIn(u, msgs)
  BY <1>1, <1>3, <1>7 DEF NamedIn
<1>8. ASSUME NamedIn(u, Tail(msgs))  PROVE  NamedIn(u, msgs)
  <2>1. PICK i \in 1..(Len(msgs) - 1) : u \in Tail(msgs)[i]
    BY <1>1, <1>8 DEF NamedIn
  <2> QED  BY <2>1, <1>1, <1>2, <1>5 DEF NamedIn
<1> QED  BY <1>6, <1>7, <1>8

-----------------------------------------------------------------------------
(* Typing.                                                                 *)

LEMMA InitTypeOK == Init => TypeOK
<1> SUFFICES ASSUME Init  PROVE  TypeOK
  OBVIOUS
<1>1. <<>> \in Seq(Messages)
  OBVIOUS
<1>2. /\ saves \in 0..MaxSaves
      /\ timer \in 0..Debounce
      /\ sinceAttempt \in 0..MinInterval
      /\ sinceFull \in 0..FullInterval
  BY BoundsAssumption DEF Init
<1>3. gens \in [Dirs -> SUBSET SUBSET Units]
  BY DEF Init
<1> QED  BY <1>1, <1>2, <1>3, Zenon DEF Init, TypeOK

LEMMA EndRunTypeOK ==
  ASSUME TypeOK, NEW newGens \in [Dirs -> SUBSET SUBSET Units],
         NEW newUnloaded \in SUBSET Unloadable, NEW newLost \in SUBSET Dirs,
         EndRun(newGens, newUnloaded, newLost), sinceFull' \in 0..FullInterval
  PROVE  TypeOK'
BY DEF TypeOK, EndRun, requestVars

LEMMA NextTypeOK == TypeOK /\ [Next]_vars => TypeOK'
<1> SUFFICES ASSUME TypeOK, [Next]_vars  PROVE  TypeOK'
  OBVIOUS
<1> USE FilesAssumption, NeedsAssumption, BoundsAssumption
<1>1. ASSUME NEW msg \in Messages, Save(msg)  PROVE  TypeOK'
  <2>1. gens' \in [Dirs -> SUBSET SUBSET Units]
    BY <1>1 DEF Save, TypeOK, Units
  <2>2. inbox' \in Seq(Messages)
    BY <1>1 DEF Save, TypeOK
  <2>3. saves' \in 0..MaxSaves
    BY <1>1 DEF Save, TypeOK
  <2>4. changed' \subseteq Units
    BY <1>1 DEF Save, TypeOK
  <2> QED  BY <1>1, <2>1, <2>2, <2>3, <2>4
           DEF Save, TypeOK, requestVars, clockVars
<1>2. CASE Reader
  <2>1. ReadMessage => inbox' \in Seq(Messages)
    BY DEF ReadMessage, TypeOK
  <2>2. CASE IgnoreMessage
    BY <2>1, <2>2 DEF IgnoreMessage, TypeOK, requestVars, jobVars, clockVars, cacheVars
  <2>3. CASE AddRequest
    BY <2>1, <2>3
    DEF AddRequest, WantsFull, PackageDirs, TypeOK, jobVars, clockVars, cacheVars
  <2>4. CASE SignalRefresh
    BY <2>4 DEF SignalRefresh, TypeOK, jobVars, clockVars, cacheVars
  <2> QED  BY <1>2, <2>2, <2>3, <2>4 DEF Reader
<1>3. CASE Refresher
  <2>1. CASE Receive
    <3>1. timer' \in 0..Debounce
      BY <2>1 DEF Receive
    <3> QED  BY <2>1, <3>1, Zenon DEF Receive, TypeOK, cacheVars
  <2>2. CASE Throttle
    BY <2>2 DEF Throttle, TypeOK, requestVars, clockVars, cacheVars
  <2>3. CASE StartFull \/ StartPartial
    <3>1. PICK mode \in {"full", "partial"} : Drain(mode)
      BY <2>3 DEF StartFull, StartPartial
    <3>2. sinceAttempt' \in 0..MinInterval
      BY <3>1 DEF Drain
    <3>3. loop' \in {"initial", "wait", "debounce", "full", "partial"}
      BY <3>1 DEF Drain
    <3> QED  BY <3>1, <3>2, <3>3, Zenon DEF Drain, TypeOK, cacheVars
  <2> QED  BY <1>3, <2>1, <2>2, <2>3 DEF Refresher
<1>4. CASE EndOfRun
  <2>1. ASSUME NEW missed \in SUBSET changed, NEW silent \in SUBSET Unloadable,
               FinishFull(missed, silent)
        PROVE  TypeOK'
    <3>1. [d \in Dirs |-> {missed \cap Needs[d]}] \in [Dirs -> SUBSET SUBSET Units]
      BY DEF TypeOK
    <3> QED  BY <2>1, <3>1, EndRunTypeOK DEF FinishFull
  <2>2. ASSUME NEW missed \in SUBSET changed, NEW silent \in SUBSET Unloadable,
               FinishPartial(missed, silent)
        PROVE  TypeOK'
    <3> DEFINE newGens ==
          [d \in Dirs |->
             IF d \in jobDirs THEN {missed \cap Needs[d]}
             ELSE IF d \in Analysed THEN Added(d, missed, silent)
             ELSE gens[d]]
        newUnloaded == (unloaded \ Analysed) \cup (silent \cap (jobDirs \cup unloaded))
    <3>1. \A d \in Dirs : Added(d, missed, silent) \in SUBSET SUBSET Units
      BY DEF Added, TypeOK
    <3>2. newGens \in [Dirs -> SUBSET SUBSET Units]
      BY <3>1 DEF TypeOK
    <3>3. newUnloaded \in SUBSET Unloadable
      BY DEF TypeOK
    <3>4. lost \ jobDirs \in SUBSET Dirs /\ sinceFull' \in 0..FullInterval
      BY <2>2 DEF FinishPartial, TypeOK
    <3>5. EndRun(newGens, newUnloaded, lost \ jobDirs)
      BY <2>2 DEF FinishPartial
    <3> QED  BY <3>2, <3>3, <3>4, <3>5, EndRunTypeOK
  <2>5. ASSUME NEW old \in SUBSET Units, NEW silent \in SUBSET Unloadable,
               FallBack(old, silent)
        PROVE  TypeOK'
    <3>1. [d \in Dirs |-> {old \cap Needs[d]}] \in [Dirs -> SUBSET SUBSET Units]
      OBVIOUS
    <3> QED  BY <2>5, <3>1, EndRunTypeOK DEF FallBack
  <2>3. CASE FailInitial
    <3>1. [d \in Dirs |-> {}] \in [Dirs -> SUBSET SUBSET Units]
      OBVIOUS
    <3> QED  BY <2>3, <3>1, EndRunTypeOK DEF FailInitial
  <2>4. CASE FailRefresh
    <3>1. lost \cup Replaced \in SUBSET Dirs
      BY DEF Replaced, TypeOK
    <3>2. sinceFull' \in 0..FullInterval
      BY <2>4 DEF FailRefresh, TypeOK
    <3> QED  BY <2>4, <3>1, <3>2, EndRunTypeOK DEF FailRefresh, TypeOK
  <2> QED  BY <1>4, <2>1, <2>2, <2>3, <2>4, <2>5 DEF EndOfRun, Finish, FellBack
<1>5. CASE Tick
  <2>1. timer' \in 0..Debounce
    BY <1>5 DEF Tick, TypeOK
  <2>2. sinceAttempt' \in 0..MinInterval /\ sinceFull' \in 0..FullInterval
    BY <1>5 DEF Tick, Older, TypeOK
  <2> QED  BY <1>5, <2>1, <2>2 DEF Tick, TypeOK, requestVars, jobVars, cacheVars
<1>6. CASE UNCHANGED vars
  BY <1>6 DEF vars, requestVars, jobVars, clockVars, TypeOK, cacheVars
<1> QED  BY <1>1, <1>2, <1>3, <1>4, <1>5, <1>6 DEF Next

\* Every variable of the refresher keeps its type.
THEOREM TypeCorrect == Spec => []TypeOK
BY InitTypeOK, NextTypeOK, PTL DEF Spec
-----------------------------------------------------------------------------
(* Nothing saved is forgotten.                                             *)

\* The reader moves units from the queue to the pending requests.
LEMMA ReadKeepsAnnounced ==
  ASSUME TypeOK, IgnoreMessage \/ AddRequest, NEW u \in Units, Announced(u)
  PROVE  Announced(u)'
<1> USE FilesAssumption
<1>1. inbox \in Seq(Messages) /\ inbox # <<>> /\ inbox' = Tail(inbox)
  BY DEF TypeOK, IgnoreMessage, AddRequest, ReadMessage
<1>2. NamedIn(u, inbox) => u \in Head(inbox) \/ NamedIn(u, inbox')
  BY <1>1, NamedTail
<1>3. CASE IgnoreMessage
  <2>1. u \notin Head(inbox)
    BY <1>3 DEF IgnoreMessage, IsRefresh
  <2>2. UNCHANGED <<pendingFull, pendingDirs>>
    BY <1>3 DEF IgnoreMessage, requestVars
  <2> QED  BY <1>2, <2>1, <2>2, Zenon DEF Announced
<1>4. CASE AddRequest
  <2>1. pendingDirs' = pendingDirs \cup (Head(inbox) \cap Dirs)
    BY <1>4 DEF AddRequest, PackageDirs
  <2>2. pendingFull' = (pendingFull \/ Mod \in Head(inbox))
    BY <1>4, Zenon DEF AddRequest, WantsFull
  <2>3. u \in Head(inbox) => u \in pendingDirs' \/ (u = Mod /\ pendingFull')
    <3>1. CASE u \in Dirs
      BY <2>1, <3>1
    <3>2. CASE u = Mod
      BY <2>2, <3>2, Zenon
    <3> QED  BY <3>1, <3>2 DEF Units
  <2>4. pendingFull => pendingFull'
    BY <2>2, Zenon
  <2>5. u \in pendingDirs => u \in pendingDirs'
    BY <2>1
  <2> QED  BY <1>2, <2>3, <2>4, <2>5, Zenon DEF Announced
<1> QED  BY <1>3, <1>4

\* A notification announces the units it names and silences none.
LEMMA SaveAnnounces ==
  ASSUME TypeOK, NEW msg \in Messages, Save(msg), NEW u,
         Announced(u) \/ u \in msg
  PROVE  Announced(u)'
<1>1. inbox \in Seq(Messages) /\ inbox' = Append(inbox, msg)
  BY DEF TypeOK, Save
<1>2. NamedIn(u, inbox') <=> NamedIn(u, inbox) \/ u \in msg
  BY <1>1, NamedAppend
<1>3. UNCHANGED <<pendingFull, pendingDirs>>
  BY DEF Save, requestVars
<1> QED  BY <1>2, <1>3, Zenon DEF Announced

\* Steps that touch neither the queue nor the pending requests.
LEMMA SameAnnounced ==
  ASSUME UNCHANGED <<inbox, pendingFull, pendingDirs>>, NEW u
  PROVE  Announced(u)' <=> Announced(u)
BY Zenon DEF Announced, NamedIn

\* Draining for a partial run leaves the queue and takes the directories.
LEMMA PartialKeepsQueue ==
  ASSUME TypeOK, StartPartial, NEW u, Announced(u)
  PROVE  Announced(u)' \/ u \in jobDirs'
<1>1. ~pendingFull
  BY DEF StartPartial, WantFull
<1>2. inbox' = inbox /\ jobDirs' = pendingDirs
  BY DEF StartPartial, Drain
<1> QED  BY <1>1, <1>2, Zenon DEF Announced, NamedIn

-----------------------------------------------------------------------------
(* Pending requests keep a wake-up.                                        *)

\* Every way to leave a run keeps requests, channel and reader as they are.
LEMMA EndOfRunKeepsRequests ==
  ASSUME EndOfRun
  PROVE  /\ UNCHANGED <<inbox, requestVars, skipped>>
         /\ loop \in {"initial", "full", "partial"}
         /\ loop' = "wait" /\ jobDirs' = {} /\ changed' = {}
BY DEF EndOfRun, Finish, FellBack, FinishFull, FinishPartial, FallBack,
       FailInitial, FailRefresh, EndRun

\* A run starts with nothing pending.
LEMMA DrainTakesAll ==
  ASSUME StartFull \/ StartPartial
  PROVE  /\ ~pendingFull' /\ pendingDirs' = {} /\ changed' = {}
         /\ UNCHANGED <<gens, unloaded, inbox, lost>>
         /\ jobDirs' = pendingDirs /\ loop = "debounce"
         /\ loop' = IF StartFull THEN "full" ELSE "partial"
BY DEF StartFull, StartPartial, Drain, Awake, cacheVars

LEMMA NextNoLostWakeup == TypeOK /\ NoLostWakeup /\ [Next]_vars => NoLostWakeup'
<1> SUFFICES ASSUME TypeOK, NoLostWakeup, [Next]_vars  PROVE  NoLostWakeup'
  OBVIOUS
<1> USE DEF NoLostWakeup, Pending
<1>1. ASSUME NEW msg \in Messages, Save(msg)  PROVE  NoLostWakeup'
  BY <1>1, Zenon DEF Save, requestVars
<1>2. CASE Reader
  BY <1>2, Zenon
  DEF Reader, IgnoreMessage, AddRequest, SignalRefresh, requestVars, jobVars
<1>3. CASE Receive \/ Throttle
  BY <1>3, Zenon DEF Receive, Throttle, requestVars
<1>4. CASE StartFull \/ StartPartial
  BY <1>4, DrainTakesAll
<1>5. CASE EndOfRun
  <2>1. loop # "debounce"
    BY <1>5, EndOfRunKeepsRequests
  <2> QED  BY <1>5, <2>1, EndOfRunKeepsRequests, Zenon DEF requestVars
<1>6. CASE Tick
  BY <1>6, Zenon DEF Tick, requestVars, jobVars
<1>7. CASE UNCHANGED vars
  BY <1>7, Zenon DEF vars, requestVars, jobVars
<1> QED  BY <1>1, <1>2, <1>3, <1>4, <1>5, <1>6, <1>7 DEF Next, Refresher

\* Coalescing, the one-slot channel and the throttle never leave a request
\* pending that nothing will look at (main.go:198-204, 126-138), for any
\* number of saves; the throttle alone may throw the wake-up away.
THEOREM WakeupKept == Spec => []NoLostWakeup
<1>1. Init => NoLostWakeup
  BY DEF Init, NoLostWakeup, Pending
<1> QED  BY <1>1, InitTypeOK, NextTypeOK, NextNoLostWakeup, PTL DEF Spec

-----------------------------------------------------------------------------
(* What changed during a run is announced, so the next run repairs it.     *)

LEMMA NextChangesAnnounced ==
  TypeOK /\ ChangesAnnounced /\ [Next]_vars => ChangesAnnounced'
<1> SUFFICES ASSUME TypeOK, ChangesAnnounced, [Next]_vars, NEW u \in changed'
             PROVE  Announced(u)'
  BY DEF ChangesAnnounced
<1>1. ASSUME NEW msg \in Messages, Save(msg)  PROVE  Announced(u)'
  <2>1. u \in changed \/ u \in msg
    BY <1>1 DEF Save
  <2> QED  BY <1>1, <2>1, SaveAnnounces DEF ChangesAnnounced
<1>2. ASSUME changed' = changed, Announced(u) => Announced(u)'
      PROVE  Announced(u)'
  BY <1>2 DEF ChangesAnnounced
<1>3. CASE IgnoreMessage \/ AddRequest
  <2>1. changed' = changed
    BY <1>3 DEF IgnoreMessage, AddRequest, jobVars
  <2>2. u \in Units
    BY <2>1 DEF TypeOK
  <2> QED  BY <1>2, <1>3, <2>1, <2>2, ReadKeepsAnnounced
<1>4. CASE SignalRefresh \/ Receive \/ Throttle \/ Tick \/ UNCHANGED vars
  <2>1. UNCHANGED <<inbox, pendingFull, pendingDirs, changed>>
    BY <1>4 DEF SignalRefresh, Receive, Throttle, Tick, vars, requestVars, jobVars
  <2> QED  BY <1>2, <2>1, SameAnnounced
<1>5. CASE StartFull \/ StartPartial \/ EndOfRun
  BY <1>5, DrainTakesAll, EndOfRunKeepsRequests
<1> QED  BY <1>1, <1>3, <1>4, <1>5 DEF Next, Reader, Refresher

-----------------------------------------------------------------------------
(* What the cache gets wrong is owed.                                      *)

\* Accounted, for one directory.
StaleOwn(d) == gens[d] = {} \/ \E g \in gens[d] : d \in g
StaleMod(d) == \E g \in gens[d] : Mod \in g
OwedOwn(d) == Announced(d) \/ d \in Replaced \/ d \in lost
OwedMod(d) == Announced(Mod) \/ loop \in {"initial", "full"} \/ d \in lost

LEMMA AccountedDef ==
  Accounted <=> \A d \in Dirs : (StaleOwn(d) => OwedOwn(d)) /\ (StaleMod(d) => OwedMod(d))
BY Zenon DEF Accounted, OwedByDirs, OwedByMod, StaleOwn, StaleMod, OwedOwn, OwedMod

\* A step that leaves the cache, the run and its failures alone, and forgets
\* no announcement of a unit, keeps the account.
LEMMA QuietKeepsAccounted ==
  ASSUME Accounted, UNCHANGED <<gens, loop, jobDirs, lost>>,
         \A u \in Units : Announced(u) => Announced(u)'
  PROVE  Accounted'
<1> SUFFICES ASSUME NEW d \in Dirs
             PROVE  (StaleOwn(d)' => OwedOwn(d)') /\ (StaleMod(d)' => OwedMod(d)')
  BY Zenon DEF Accounted, OwedByDirs, OwedByMod, StaleOwn, StaleMod, OwedOwn, OwedMod
<1>1. (StaleOwn(d)' <=> StaleOwn(d)) /\ (StaleMod(d)' <=> StaleMod(d))
  BY Zenon DEF StaleOwn, StaleMod
<1>2. d \in Units /\ Mod \in Units
  BY DEF Units
<1>3. Replaced' = Replaced
  BY Zenon DEF Replaced, Building
<1>4. OwedOwn(d) => OwedOwn(d)'
  BY <1>2, <1>3, Zenon DEF OwedOwn
<1>5. OwedMod(d) => OwedMod(d)'
  BY <1>2, Zenon DEF OwedMod
<1> QED  BY <1>1, <1>4, <1>5, AccountedDef, Zenon

LEMMA SaveKeepsAccounted ==
  ASSUME TypeOK, Accounted, NEW msg \in Messages, Save(msg)  PROVE  Accounted'
<1> SUFFICES ASSUME NEW d \in Dirs
             PROVE  (StaleOwn(d)' => OwedOwn(d)') /\ (StaleMod(d)' => OwedMod(d)')
  BY Zenon DEF Accounted, OwedByDirs, OwedByMod, StaleOwn, StaleMod, OwedOwn, OwedMod
<1>1. gens'[d] = {g \cup (msg \cap Needs[d]) : g \in gens[d]}
  BY DEF Save
<1>2. UNCHANGED <<loop, jobDirs, lost>>
  BY DEF Save
<1>3. \A u : Announced(u) \/ u \in msg => Announced(u)'
  BY SaveAnnounces
<1>4. OwedOwn(d) => OwedOwn(d)'
  BY <1>2, <1>3, Zenon DEF OwedOwn, Replaced, Building
<1>5. OwedMod(d) => OwedMod(d)'
  BY <1>2, <1>3, Zenon DEF OwedMod
<1>6. StaleOwn(d)' => StaleOwn(d) \/ d \in msg
  BY <1>1 DEF StaleOwn
<1>7. StaleMod(d)' => StaleMod(d) \/ Mod \in msg
  BY <1>1 DEF StaleMod
<1>8. d \in msg => OwedOwn(d)'
  BY <1>3, Zenon DEF OwedOwn
<1>9. Mod \in msg => OwedMod(d)'
  BY <1>3, Zenon DEF OwedMod
<1> QED  BY <1>4, <1>5, <1>6, <1>7, <1>8, <1>9, AccountedDef, Zenon

LEMMA DrainKeepsAccounted ==
  ASSUME TypeOK, Accounted, StartFull \/ StartPartial  PROVE  Accounted'
<1> SUFFICES ASSUME NEW d \in Dirs
             PROVE  (StaleOwn(d)' => OwedOwn(d)') /\ (StaleMod(d)' => OwedMod(d)')
  BY Zenon DEF Accounted, OwedByDirs, OwedByMod, StaleOwn, StaleMod, OwedOwn, OwedMod
<1>1. CASE StartFull
  <2>1. loop' = "full"
    BY <1>1, DrainTakesAll
  <2> QED  BY <2>1 DEF OwedOwn, OwedMod, Replaced, Building
<1>2. CASE ~StartFull
  <2>1. /\ UNCHANGED <<gens, lost>>
        /\ loop = "debounce" /\ loop' = "partial"
    BY <1>2, DrainTakesAll
  <2>2. \A u : Announced(u) => Announced(u)' \/ u \in jobDirs'
    BY <1>2, PartialKeepsQueue
  <2>3. OwedOwn(d) => OwedOwn(d)'
    BY <2>1, <2>2 DEF OwedOwn, Replaced, Building
  <2>4. Mod \notin jobDirs'
    BY DrainTakesAll, FilesAssumption DEF TypeOK
  <2>5. OwedMod(d) => OwedMod(d)'
    BY <2>1, <2>2, <2>4 DEF OwedMod
  <2>6. (StaleOwn(d)' <=> StaleOwn(d)) /\ (StaleMod(d)' <=> StaleMod(d))
    BY <2>1, Zenon DEF StaleOwn, StaleMod
  <2> QED  BY <2>3, <2>5, <2>6, AccountedDef, Zenon
<1> QED  BY <1>1, <1>2

\* A run that ends announces nothing and forgets no announcement.
LEMMA EndOfRunKeepsAnnounced ==
  ASSUME EndOfRun, NEW u  PROVE  Announced(u)' <=> Announced(u)
BY EndOfRunKeepsRequests, SameAnnounced DEF requestVars

LEMMA FinishFullAccounted ==
  ASSUME TypeOK, ChangesAnnounced, NEW missed \in SUBSET changed,
         NEW silent \in SUBSET Unloadable, FinishFull(missed, silent)
  PROVE  Accounted'
<1> SUFFICES ASSUME NEW d \in Dirs
             PROVE  (StaleOwn(d)' => OwedOwn(d)') /\ (StaleMod(d)' => OwedMod(d)')
  BY Zenon DEF Accounted, OwedByDirs, OwedByMod, StaleOwn, StaleMod, OwedOwn, OwedMod
<1>1. EndOfRun
  BY DEF EndOfRun, Finish
<1>2. gens'[d] = {missed \cap Needs[d]}
  BY DEF FinishFull, EndRun
<1>3. \A u \in missed : Announced(u)'
  BY <1>1, EndOfRunKeepsAnnounced DEF ChangesAnnounced
<1>4. StaleOwn(d)' => d \in missed
  BY <1>2 DEF StaleOwn
<1>5. StaleMod(d)' => Mod \in missed
  BY <1>2 DEF StaleMod
<1> QED  BY <1>3, <1>4, <1>5, Zenon DEF OwedOwn, OwedMod

LEMMA FinishPartialAccounted ==
  ASSUME TypeOK, Accounted, ChangesAnnounced, NEW missed \in SUBSET changed,
         NEW silent \in SUBSET Unloadable, FinishPartial(missed, silent)
  PROVE  Accounted'
<1> SUFFICES ASSUME NEW d \in Dirs
             PROVE  (StaleOwn(d)' => OwedOwn(d)') /\ (StaleMod(d)' => OwedMod(d)')
  BY Zenon DEF Accounted, OwedByDirs, OwedByMod, StaleOwn, StaleMod, OwedOwn, OwedMod
<1>1. EndOfRun
  BY DEF EndOfRun, Finish
<1>2. \A u : Announced(u)' <=> Announced(u)
  BY <1>1, EndOfRunKeepsAnnounced
<1>3. \A u \in missed : Announced(u)'
  BY <1>2, Zenon DEF ChangesAnnounced
<1>4. lost' = lost \ jobDirs /\ loop = "partial"
  BY DEF FinishPartial, EndRun
<1>5. CASE d \in jobDirs
  <2>1. gens'[d] = {missed \cap Needs[d]}
    BY <1>5 DEF FinishPartial, EndRun
  <2>2. StaleOwn(d)' => d \in missed
    BY <2>1 DEF StaleOwn
  <2>3. StaleMod(d)' => Mod \in missed
    BY <2>1 DEF StaleMod
  <2> QED  BY <1>3, <2>2, <2>3, Zenon DEF OwedOwn, OwedMod
<1>6. CASE d \notin jobDirs
  <2>1. \A g \in gens'[d] : g \in gens[d] \/ g \subseteq missed
    BY <1>6 DEF FinishPartial, EndRun, Added
  <2>2. gens'[d] = {} => gens[d] = {}
    BY <1>6 DEF FinishPartial, EndRun, Added
  <2>3. StaleOwn(d)' => StaleOwn(d) \/ d \in missed
    BY <2>1, <2>2 DEF StaleOwn
  <2>4. StaleMod(d)' => StaleMod(d) \/ Mod \in missed
    BY <2>1 DEF StaleMod
  <2>5. OwedOwn(d) => OwedOwn(d)'
    BY <1>2, <1>4, <1>6 DEF OwedOwn, Replaced
  <2>6. OwedMod(d) => OwedMod(d)'
    BY <1>2, <1>4, <1>6 DEF OwedMod
  <2>7. (d \in missed => OwedOwn(d)') /\ (Mod \in missed => OwedMod(d)')
    BY <1>3, Zenon DEF OwedOwn, OwedMod
  <2> QED  BY <2>3, <2>4, <2>5, <2>6, <2>7, AccountedDef, Zenon
<1> QED  BY <1>5, <1>6

LEMMA FailKeepsAccounted ==
  ASSUME TypeOK, Accounted, FellBack \/ FailInitial \/ FailRefresh  PROVE  Accounted'
<1> SUFFICES ASSUME NEW d \in Dirs
             PROVE  (StaleOwn(d)' => OwedOwn(d)') /\ (StaleMod(d)' => OwedMod(d)')
  BY Zenon DEF Accounted, OwedByDirs, OwedByMod, StaleOwn, StaleMod, OwedOwn, OwedMod
<1>1. \A u : Announced(u)' <=> Announced(u)
  BY EndOfRunKeepsAnnounced DEF EndOfRun
<1>2. CASE FellBack \/ FailInitial
  BY <1>2 DEF FellBack, FallBack, FailInitial, EndRun, OwedOwn, OwedMod
<1>3. CASE FailRefresh
  <2>1. gens' = gens /\ lost' = lost \cup Replaced
    BY <1>3 DEF FailRefresh, EndRun
  <2>2. loop = "full" => Replaced = Dirs
    BY DEF Replaced, Building
  <2>3. OwedOwn(d) => OwedOwn(d)'
    BY <1>1, <2>1 DEF OwedOwn
  <2>4. loop # "initial"
    BY <1>3 DEF FailRefresh
  <2>5. OwedMod(d) => OwedMod(d)'
    BY <1>1, <2>1, <2>2, <2>4 DEF OwedMod
  <2>6. (StaleOwn(d)' <=> StaleOwn(d)) /\ (StaleMod(d)' <=> StaleMod(d))
    BY <2>1, Zenon DEF StaleOwn, StaleMod
  <2> QED  BY <2>3, <2>5, <2>6, AccountedDef, Zenon
<1> QED  BY <1>2, <1>3

LEMMA NextAccounted ==
  TypeOK /\ Accounted /\ ChangesAnnounced /\ [Next]_vars => Accounted'
<1> SUFFICES ASSUME TypeOK, Accounted, ChangesAnnounced, [Next]_vars
             PROVE  Accounted'
  OBVIOUS
<1>1. ASSUME NEW msg \in Messages, Save(msg)  PROVE  Accounted'
  BY <1>1, SaveKeepsAccounted
<1>2. CASE IgnoreMessage \/ AddRequest
  <2>1. UNCHANGED <<gens, loop, jobDirs, lost>>
    BY <1>2 DEF IgnoreMessage, AddRequest, jobVars, cacheVars
  <2>2. \A u \in Units : Announced(u) => Announced(u)'
    BY <1>2, ReadKeepsAnnounced
  <2> QED  BY <2>1, <2>2, QuietKeepsAccounted
<1>3. CASE SignalRefresh \/ Tick \/ UNCHANGED vars
  <2>1. UNCHANGED <<gens, loop, jobDirs, lost, inbox, pendingFull, pendingDirs>>
    BY <1>3 DEF SignalRefresh, Tick, vars, requestVars, jobVars, cacheVars
  <2>2. \A u \in Units : Announced(u) => Announced(u)'
    BY <2>1, SameAnnounced
  <2> QED  BY <2>1, <2>2, QuietKeepsAccounted
<1>4. CASE Receive \/ Throttle
  <2>1. /\ UNCHANGED <<gens, jobDirs, lost, inbox, pendingFull, pendingDirs>>
        /\ {loop, loop'} \subseteq {"wait", "debounce"}
    BY <1>4 DEF Receive, Throttle, Awake, requestVars, cacheVars
  <2>2. \A u : Announced(u)' <=> Announced(u)
    BY <2>1, SameAnnounced
  <2>3. Replaced = {} /\ Replaced' = {}
    BY <2>1 DEF Replaced, Building
  <2> SUFFICES ASSUME NEW d \in Dirs
               PROVE  (StaleOwn(d)' => OwedOwn(d)') /\ (StaleMod(d)' => OwedMod(d)')
    BY Zenon DEF Accounted, OwedByDirs, OwedByMod, StaleOwn, StaleMod, OwedOwn, OwedMod
  <2>4. (OwedOwn(d) => OwedOwn(d)') /\ (OwedMod(d) => OwedMod(d)')
    BY <2>1, <2>2, <2>3 DEF OwedOwn, OwedMod
  <2>5. (StaleOwn(d)' <=> StaleOwn(d)) /\ (StaleMod(d)' <=> StaleMod(d))
    BY <2>1, Zenon DEF StaleOwn, StaleMod
  <2> QED  BY <2>4, <2>5, AccountedDef, Zenon
<1>5. CASE StartFull \/ StartPartial
  BY <1>5, DrainKeepsAccounted
<1>6. CASE EndOfRun
  BY <1>6, FinishFullAccounted, FinishPartialAccounted, FailKeepsAccounted
  DEF EndOfRun, Finish
<1> QED  BY <1>1, <1>2, <1>3, <1>4, <1>5, <1>6 DEF Next, Reader, Refresher

\* The refresher never forgets a saved file or a changed go.mod: what the
\* cache gets wrong about it is announced, being re-analysed, or was taken by
\* a run that failed (main.go:126-164, 198-204).
THEOREM NothingForgotten == Spec => []Accounted
<1>1. Init => Accounted /\ ChangesAnnounced
  BY DEF Init, Accounted, OwedByDirs, OwedByMod, Replaced, Building,
         ChangesAnnounced
<1> QED  BY <1>1, InitTypeOK, NextTypeOK, NextChangesAnnounced, NextAccounted, PTL
         DEF Spec

-----------------------------------------------------------------------------
(* The cache never gets worse.                                             *)

LEMMA NextChangesKnown == TypeOK /\ ChangesKnown /\ [Next]_vars => ChangesKnown'
<1> SUFFICES ASSUME TypeOK, ChangesKnown, [Next]_vars, Building',
                    NEW d \in Dirs, NEW g \in gens'[d]
             PROVE  changed' \cap Needs[d] \subseteq g
  BY DEF ChangesKnown
<1>1. ASSUME NEW msg \in Messages, Save(msg)
      PROVE  changed' \cap Needs[d] \subseteq g
  <2>1. PICK h \in gens[d] : g = h \cup (msg \cap Needs[d])
    BY <1>1 DEF Save
  <2>2. Building
    BY <1>1 DEF Save, Building
  <2>3. changed' = changed \cup (msg \cap Units)
    BY <1>1, <2>2 DEF Save
  <2> QED  BY <2>1, <2>2, <2>3 DEF ChangesKnown
<1>2. CASE Reader \/ Tick \/ UNCHANGED vars
  <2>1. UNCHANGED <<gens, changed, loop>>
    BY <1>2 DEF Reader, IgnoreMessage, AddRequest, SignalRefresh, Tick, vars,
                jobVars, cacheVars
  <2> QED  BY <2>1, Zenon DEF ChangesKnown, Building
<1>3. CASE Receive \/ Throttle
  BY <1>3 DEF Receive, Throttle, Building
<1>4. CASE StartFull \/ StartPartial \/ EndOfRun
  BY <1>4, DrainTakesAll, EndOfRunKeepsRequests
<1> QED  BY <1>1, <1>2, <1>3, <1>4 DEF Next, Refresher

LEMMA NextStartsEmpty == TypeOK /\ StartsEmpty /\ [Next]_vars => StartsEmpty'
<1> SUFFICES ASSUME TypeOK, StartsEmpty, [Next]_vars, loop' = "initial",
                    NEW d \in Dirs
             PROVE  gens'[d] = {}
  BY DEF StartsEmpty
<1>1. ASSUME NEW msg \in Messages, Save(msg)  PROVE  gens'[d] = {}
  BY <1>1 DEF Save, StartsEmpty
<1>2. CASE Reader \/ Tick \/ UNCHANGED vars
  <2>1. gens' = gens /\ loop' = loop
    BY <1>2 DEF Reader, IgnoreMessage, AddRequest, SignalRefresh, Tick, vars,
                jobVars, cacheVars
  <2> QED  BY <2>1 DEF StartsEmpty
<1>3. CASE Refresher \/ EndOfRun
  BY <1>3, DrainTakesAll, EndOfRunKeepsRequests DEF Refresher, Receive, Throttle
<1> QED  BY <1>1, <1>2, <1>3 DEF Next

\* A run that ends, for one directory it does not take from an unhashed file.
LEMMA FinishInstalls ==
  ASSUME TypeOK, ChangesKnown, NEW missed \in SUBSET changed,
         NEW silent \in SUBSET Unloadable, NEW d \in Dirs,
         FinishFull(missed, silent) \/ FinishPartial(missed, silent)
  PROVE  /\ \A h \in gens'[d] : h \in gens[d] \/ \A g \in gens[d] : h \subseteq g
         /\ gens[d] # {} => gens'[d] # {}
         /\ d \in unloaded' /\ d \notin unloaded => d \in Replaced \cap Unloadable
         /\ d \in Replaced => d \notin lost'
<1>1. \A g \in gens[d] : missed \cap Needs[d] \subseteq g
  BY DEF ChangesKnown, Building, FinishFull, FinishPartial
<1>2. CASE FinishFull(missed, silent)
  <2>1. gens'[d] = {missed \cap Needs[d]} /\ unloaded' = silent /\ lost' = {}
    BY <1>2 DEF FinishFull, EndRun
  <2>2. Replaced = Dirs
    BY <1>2 DEF FinishFull, Replaced, Building
  <2> QED  BY <1>1, <2>1, <2>2
<1>3. CASE FinishPartial(missed, silent)
  <2>1. /\ \/ gens'[d] = {missed \cap Needs[d]}
           \/ gens'[d] = gens[d] \cup {missed \cap Needs[d]}
           \/ gens'[d] = gens[d]
        /\ unloaded' = (unloaded \ Analysed) \cup (silent \cap (jobDirs \cup unloaded))
        /\ lost' = lost \ jobDirs
    BY <1>3 DEF FinishPartial, EndRun, Added
  <2>2. Replaced = jobDirs
    BY <1>3 DEF FinishPartial, Replaced
  <2> QED  BY <1>1, <2>1, <2>2
<1> QED  BY <1>2, <1>3

\* Steps that leave the cache as it is.
LEMMA CacheUntouched ==
  ASSUME Reader \/ Refresher \/ Tick \/ FailRefresh \/ UNCHANGED vars
  PROVE  UNCHANGED <<gens, unloaded>>
BY DEF Reader, IgnoreMessage, AddRequest, SignalRefresh, Refresher, Receive,
       Throttle, StartFull, StartPartial, Drain, Tick, FailRefresh, EndRun,
       vars, cacheVars

LEMMA StepNeverRegresses ==
  ASSUME TypeOK, ChangesKnown, [Next]_vars, saves' = saves, ~FellBack, NEW d \in Dirs
  PROVE  \A h \in gens'[d] : h \in gens[d] \/ \A g \in gens[d] : h \subseteq g
<1>1. ASSUME NEW msg \in Messages, Save(msg)  PROVE  FALSE
  BY <1>1 DEF Save, TypeOK
<1>2. CASE Reader \/ Refresher \/ Tick \/ FailRefresh \/ UNCHANGED vars
  BY <1>2, CacheUntouched
<1>3. CASE Finish
  BY <1>3, FinishInstalls DEF Finish
<1>4. CASE FailInitial
  BY <1>4 DEF FailInitial, EndRun
<1> QED  BY <1>1, <1>2, <1>3, <1>4 DEF Next, EndOfRun

\* No run installs what is older than anything the cache had of a directory
\* (main.go:140-163, proxy.go:36-48): runs never overlap, and changes during a
\* run are known to be missing from the cache.  The step that installs a cache
\* file no hash vouches for is the only exception.
THEOREM CacheNeverRegresses == Spec => NeverRegresses
<1> DEFINE Step ==
      \/ saves' # saves
      \/ \A d \in Dirs : \A h \in gens'[d] :
           h \in gens[d] \/ \A g \in gens[d] : h \subseteq g
      \/ FellBack
<1>1. Init => ChangesKnown
  BY DEF Init, ChangesKnown
<1>2. TypeOK /\ ChangesKnown /\ [Next]_vars => [Step]_vars
  BY StepNeverRegresses
<1> QED
  BY <1>1, <1>2, InitTypeOK, NextTypeOK, NextChangesKnown, PTL
  DEF Spec, NeverRegresses

LEMMA StepKeepsEntries ==
  ASSUME TypeOK, ChangesKnown, StartsEmpty, [Next]_vars, ~FellBack,
         NEW d \in Dirs, Shows(d), ~Shows(d)'
  PROVE  d \in Replaced \cap Unloadable /\ d \notin lost'
<1>1. ASSUME NEW msg \in Messages, Save(msg)  PROVE  FALSE
  <2>1. gens'[d] = {g \cup (msg \cap Needs[d]) : g \in gens[d]} /\ unloaded' = unloaded
    BY <1>1 DEF Save
  <2> QED  BY <2>1 DEF Shows
<1>2. CASE Reader \/ Refresher \/ Tick \/ FailRefresh \/ UNCHANGED vars
  BY <1>2, CacheUntouched DEF Shows
<1>3. CASE Finish
  BY <1>3, FinishInstalls DEF Finish, Shows
<1>4. CASE FailInitial
  BY <1>4 DEF FailInitial, StartsEmpty, Shows
<1> QED  BY <1>1, <1>2, <1>3, <1>4 DEF Next, EndOfRun

\* A run that is refused empties no directory, and an accepted one empties only
\* those it was to re-analyse and got nothing of (loader.go:146-154,
\* cache.go:89-93): not those which it analysed because "./..." covers them.
THEOREM EntriesAreKept == Spec => EntriesKept
<1> DEFINE Step ==
      \/ \A d \in Dirs : Shows(d) /\ ~Shows(d)' =>
           d \in Replaced \cap Unloadable /\ d \notin lost'
      \/ FellBack
<1>1. Init => ChangesKnown /\ StartsEmpty
  BY DEF Init, ChangesKnown, StartsEmpty
<1>2. TypeOK /\ ChangesKnown /\ StartsEmpty /\ [Next]_vars => [Step]_vars
  BY StepKeepsEntries
<1> QED
  BY <1>1, <1>2, InitTypeOK, NextTypeOK, NextChangesKnown, NextStartsEmpty, PTL
  DEF Spec, EntriesKept

-----------------------------------------------------------------------------
(* A refresher at rest.                                                    *)

\* All notifications are read, no wake-up is due and no run is under way.
AtRest == inbox = <<>> /\ editor = "read" /\ ~refreshCh /\ loop = "wait"

\* What the cache has of a package comes from an analysis of its own files and
\* of the module files as they are now.
Current == Reflected /\ \A d \in Dirs : \A g \in gens[d] : Mod \notin g

\* What `Converges` says can be said of a state: once all is read and done, the
\* cache is current, unless the last wake-up was thrown away by the throttle or
\* a run has failed that nobody redid (main.go:123-164).
THEOREM CurrentAtRest == Spec => [](AtRest /\ ~skipped /\ lost = {} => Current)
<1>1. Accounted /\ NoLostWakeup /\ AtRest /\ ~skipped /\ lost = {} => Current
  <2> SUFFICES ASSUME Accounted, NoLostWakeup, AtRest, ~skipped, lost = {}  PROVE Current
    OBVIOUS
  <2>1. ~pendingFull /\ pendingDirs = {} /\ inbox = <<>> /\ Replaced = {} /\ loop = "wait"
    BY DEF NoLostWakeup, Pending, AtRest, Replaced, Building
  <2>2. \A u : ~NamedIn(u, inbox)
    BY <2>1 DEF NamedIn
  <2>3. \A u : ~Announced(u)
    BY <2>1, <2>2 DEF Announced
  <2>4. ASSUME NEW d \in Dirs  PROVE gens[d] # {} /\ \A g \in gens[d] : d \notin g /\ Mod \notin g
    BY <2>1, <2>3 DEF Accounted, OwedByDirs, OwedByMod
  <2> QED  BY <2>4 DEF Current, Reflected
<1> QED  BY <1>1, NothingForgotten, WakeupKept, PTL

LEMMA NeverThrottled ==
  ASSUME MinInterval = 0, ~MayFail
  PROVE  Spec => [](~skipped /\ lost = {})
<1> DEFINE I == ~skipped /\ lost = {}
<1>1. Init => I
  BY DEF Init
<1>2. TypeOK /\ I /\ [Next]_vars => I'
  <2> SUFFICES ASSUME TypeOK, I, [Next]_vars  PROVE I'
    OBVIOUS
  <2>1. ShouldRunRefresh
    BY DEF ShouldRunRefresh, TypeOK
  <2>2. CASE Reader \/ Tick \/ UNCHANGED vars \/ \E msg \in Messages : Save(msg)
    <3>1. lost' = lost /\ skipped' = skipped
      BY <2>2 DEF Reader, IgnoreMessage, AddRequest, SignalRefresh, Tick, Save, vars, jobVars
    <3> QED  BY <3>1, Zenon
  <2>3. CASE Refresher
    BY <2>1, <2>3 DEF Refresher, Receive, Throttle, StartFull, StartPartial, Drain
  <2>4. CASE EndOfRun
    BY <2>4 DEF EndOfRun, Finish, FellBack, FinishFull, FinishPartial, FallBack,
                FailInitial, FailRefresh, EndRun
  <2> QED  BY <2>2, <2>3, <2>4 DEF Next
<1> QED  BY <1>1, <1>2, TypeCorrect, PTL DEF Spec

\* Without a minimum interval and without failing runs a refresher at rest has
\* a current cache; `refresh_throttled` shows that the first condition is needed.
THEOREM CurrentUnlessThrottled ==
  MinInterval = 0 /\ ~MayFail => (Spec => [](AtRest => Current))
<1> SUFFICES ASSUME MinInterval = 0, ~MayFail  PROVE Spec => [](AtRest => Current)
  OBVIOUS
<1> QED  BY NeverThrottled, CurrentAtRest, PTL

-----------------------------------------------------------------------------
(* The refresher implements the coalescing queue.                          *)

Waiting == IF pendingFull THEN Dirs ELSE pendingDirs

LEMMA SameRequests ==
  ASSUME UNCHANGED <<pendingFull, pendingDirs, lost>>, Replaced' = Replaced
  PROVE  UNCHANGED Coalescing!vars
BY Zenon DEF Coalescing!vars

LEMMA AddRequestRefines ==
  ASSUME TypeOK, AddRequest  PROVE  \E S \in SUBSET Dirs : Coalescing!Request(S)
<1>1. Replaced' = Replaced /\ lost' = lost
  BY Zenon DEF AddRequest, jobVars, Replaced, Building
<1>2. PICK S \in SUBSET Dirs : Waiting' = Waiting \cup S
  <2>1. CASE pendingFull'
    <3>1. Waiting' = Waiting \cup Dirs
      BY <2>1 DEF Waiting, TypeOK
    <3> QED  BY <3>1
  <2>2. CASE ~pendingFull'
    <3>1. ~pendingFull
      BY <2>2, Zenon DEF AddRequest
    <3>2. pendingDirs' = pendingDirs \cup (Head(inbox) \cap Dirs)
      BY DEF AddRequest, PackageDirs
    <3>3. Waiting' = Waiting \cup (Head(inbox) \cap Dirs)
      BY <2>2, <3>1, <3>2 DEF Waiting
    <3> QED  BY <3>3
  <2> QED  BY <2>1, <2>2
<1> QED  BY <1>1, <1>2, Zenon DEF Coalescing!Request, Waiting

LEMMA DrainRefines ==
  ASSUME TypeOK, StartFull \/ StartPartial
  PROVE  \E R \in SUBSET Dirs : Coalescing!Take(R)
<1>1. Replaced = {} /\ Waiting' = {} /\ lost' = lost
  BY DrainTakesAll DEF Replaced, Building, Waiting
<1>2. Replaced' \in SUBSET Dirs /\ Waiting \subseteq Replaced'
  <2>1. CASE StartFull
    <3>1. Replaced' = Dirs
      BY <2>1, DrainTakesAll DEF Replaced, Building
    <3> QED  BY <3>1 DEF Waiting, TypeOK
  <2>2. CASE ~StartFull
    <3>1. Replaced' = pendingDirs
      BY <2>2, DrainTakesAll DEF Replaced
    <3>2. ~pendingFull
      BY <2>2 DEF StartPartial, WantFull
    <3> QED  BY <3>1, <3>2 DEF Waiting, TypeOK
  <2> QED  BY <2>1, <2>2
<1> QED  BY <1>1, <1>2, Zenon DEF Coalescing!Take, Waiting

\* A run over no directory at all (an empty workspace) is a stuttering step.
LEMMA EndOfRunRefines ==
  ASSUME TypeOK, EndOfRun
  PROVE  Coalescing!Complete \/ Coalescing!Fail \/ UNCHANGED Coalescing!vars
<1>1. UNCHANGED <<pendingFull, pendingDirs>> /\ Replaced' = {}
  BY EndOfRunKeepsRequests DEF requestVars, Replaced, Building
<1>2. \/ lost' = lost \ Replaced
      \/ lost' = lost \cup Replaced
  <2>1. ASSUME NEW missed \in SUBSET changed, NEW silent \in SUBSET Unloadable,
               FinishFull(missed, silent)
        PROVE  lost' = lost \ Replaced
    BY <2>1 DEF FinishFull, EndRun, Replaced, Building, TypeOK
  <2>2. ASSUME NEW missed \in SUBSET changed, NEW silent \in SUBSET Unloadable,
               FinishPartial(missed, silent)
        PROVE  lost' = lost \ Replaced
    BY <2>2 DEF FinishPartial, EndRun, Replaced
  <2>3. FellBack \/ FailInitial => lost' = lost \cup Replaced
    BY DEF FellBack, FallBack, FailInitial, EndRun, Replaced, Building, TypeOK
  <2>4. FailRefresh => lost' = lost \cup Replaced
    BY DEF FailRefresh, EndRun
  <2> QED  BY <2>1, <2>2, <2>3, <2>4 DEF EndOfRun, Finish
<1>3. UNCHANGED Waiting
  BY <1>1, Zenon DEF Waiting
<1>4. CASE Replaced = {}
  <2>1. lost' = lost
    BY <1>2, <1>4
  <2> QED  BY <1>1, <1>4, <2>1, SameRequests
<1>5. CASE Replaced # {}
  BY <1>1, <1>2, <1>3, <1>5, Zenon
  DEF Coalescing!Complete, Coalescing!Fail, Waiting
<1> QED  BY <1>4, <1>5

LEMMA StepRefines ==
  TypeOK /\ [Next]_vars => [Coalescing!Next]_(Coalescing!vars)
<1> SUFFICES ASSUME TypeOK, [Next]_vars
             PROVE  Coalescing!Next \/ UNCHANGED Coalescing!vars
  OBVIOUS
<1>1. CASE AddRequest
  BY <1>1, AddRequestRefines DEF Coalescing!Next
<1>2. CASE StartFull \/ StartPartial
  BY <1>2, DrainRefines DEF Coalescing!Next
<1>3. CASE EndOfRun
  BY <1>3, EndOfRunRefines DEF Coalescing!Next
<1>4. CASE \/ \E msg \in Messages : Save(msg)
           \/ IgnoreMessage \/ SignalRefresh \/ Tick \/ UNCHANGED vars
  <2>1. UNCHANGED <<pendingFull, pendingDirs, lost, loop, jobDirs>>
    BY <1>4
    DEF Save, IgnoreMessage, SignalRefresh, Tick, vars, requestVars, jobVars
  <2>2. Replaced' = Replaced
    BY <2>1, Zenon DEF Replaced, Building
  <2> QED  BY <2>1, <2>2, SameRequests
<1>5. CASE Receive \/ Throttle
  <2>1. UNCHANGED <<pendingFull, pendingDirs, lost>>
    BY <1>5 DEF Receive, Throttle, requestVars
  <2>2. Replaced' = Replaced
    BY <1>5 DEF Receive, Throttle, Awake, Replaced, Building
  <2> QED  BY <2>1, <2>2, SameRequests
<1> QED  BY <1>1, <1>2, <1>3, <1>4, <1>5 DEF Next, Reader, Refresher

\* The goroutines, the channel and the timers together behave as the queue of
\* CoalescingRefresh: requests coalesce, one refresh runs at a time and takes
\* all of them, and only a failing run forgets any (main.go:47-77, 123-210).
THEOREM RefresherCoalesces == Spec => CoalescesRequests
<1>1. Init => Coalescing!Init
  BY DEF Init, Coalescing!Init, Replaced, Building
<1> QED  BY <1>1, InitTypeOK, NextTypeOK, StepRefines, PTL
         DEF Spec, CoalescesRequests, Coalescing!Spec
=============================================================================
