----------------------------- MODULE CacheIndex -----------------------------
(***************************************************************************)
(* The double index of package proxy: cache entries by location and, for   *)
(* hovers at a call site, by function name; how errsweep's output becomes  *)
(* entries, how a partial result replaces the entries of some directories, *)
(* what a lookup returns and what the hover shows of it.                   *)
(*                                                                         *)
(* errsweep analyses package variants (a package and, when it has tests,   *)
(* its test variant, which repeats the package's files).  reports[v] is    *)
(* what it would print for variant v: a sequence of diagnostics            *)
(*   [key, name, concrete, sentinels]                                      *)
(* whose key is a file and line, and whose concrete is Direct on the line  *)
(* with a function's union of sentinels and a type on a "via" line.        *)
(* An entry carries the number of the run that allocated it, so that two   *)
(* entries are equal exactly when they are the same pointer.               *)
(***************************************************************************)
EXTENDS Integers, Sequences, FiniteSets, SequencesExt, Functions

CONSTANTS
  Dirs,                 \* package directories
  Root,                 \* the workspace root; in Dirs when it holds a package
  Keys,                 \* locations, file:line
  DirOf,                \* DirOf[k]: parent directory of the file of k
  Variants,             \* package variants
  VariantDir,           \* VariantDir[v]: directory of the variant's files
  Names,                \* function names, qualified and simple
  Simple,               \* Simple[n]: simpleFuncName(n)
  Sentinels,
  Concretes,
  Direct,               \* the concrete of a line without "via"
  Reports,              \* Reports[v]: what errsweep may report for v
  MaxRuns               \* bound: errsweep runs in a behaviour

Diagnostics ==
  [key : Keys, name : Names, concrete : Concretes \cup {Direct},
   sentinels : SUBSET Sentinels]

ASSUME LayoutAssumption ==
  /\ DirOf \in [Keys -> Dirs]
  /\ VariantDir \in [Variants -> Dirs] /\ IsFiniteSet(Variants)
  /\ Simple \in [Names -> Names]
  /\ Direct \notin Concretes
  /\ MaxRuns \in Nat

ASSUME ReportsAssumption ==
  \A v \in Variants : \A r \in Reports[v] :
    /\ r \in Seq(Diagnostics)
    /\ \A i \in DOMAIN r : DirOf[r[i].key] = VariantDir[v]

VARIABLES
  reports,              \* what errsweep would print of the sources on disk
  byLocation,           \* Cache.byLocation: entries by key
  byFuncName,           \* Cache.byFuncName: sets of entries by name
  saved,                \* the cache file: the reports it was built from, and entries
  analysed,             \* history: per directory, the last report installed
  runs                  \* errsweep runs so far

vars == <<reports, byLocation, byFuncName, saved, analysed, runs>>

-----------------------------------------------------------------------------
(* From errsweep's output to entries.                                      *)

NoEntries == [k \in {} |-> {}]

\* errsweep prints a JSON object: its variants come in any order.  A place in
\* the output is a variant's position and a diagnostic's within it.
Orders(vs) == SetToSeqs(vs)
Places(order) ==
  UNION {{<<i, j>> : j \in DOMAIN reports[order[i]]} : i \in DOMAIN order}
Diag(order, p) == reports[order[p[1]]][p[2]]
NotAfter(p, q) == p[1] < q[1] \/ (p[1] = q[1] /\ p[2] <= q[2])

\* A Go map f after f[x] = y.
Put(f, x, y) == [z \in DOMAIN f \cup {x} |-> IF z = x THEN y ELSE f[z]]

\* A later line replaces the sentinels instead of adding to them.
MutantOverwrite(entries, d, run) ==
  Put(entries, d.key, [run |-> run, name |-> d.name, sentinels |-> d.sentinels,
                       byConcrete |-> NoEntries])

\* The iteration of parseErrsweepJSON that handles diagnostic d.
AddDiag(entries, d, run) ==
  LET old == IF d.key \in DOMAIN entries THEN entries[d.key]
             ELSE [run |-> run, name |-> d.name, sentinels |-> {}, byConcrete |-> NoEntries]
      new == [old EXCEPT
                !.sentinels = @ \cup d.sentinels,
                !.byConcrete = IF d.concrete = Direct THEN @
                               ELSE Put(@, d.concrete, d.sentinels)]
  IN  Put(entries, d.key, new)

\* Its two loops: over a variant's diagnostics, and over the variants.
VariantLoop(entries, diags, run) ==
  LET after[j \in 0..Len(diags)] ==
        IF j = 0 THEN entries ELSE AddDiag(after[j-1], diags[j], run)
  IN  after[Len(diags)]

ParseLoop(order, run) ==
  LET after[i \in 0..Len(order)] ==
        IF i = 0 THEN NoEntries ELSE VariantLoop(after[i-1], reports[order[i]], run)
  IN  after[Len(order)]

\* The types listed for a function; a line without "via" names none.
MutantDirectListed(concretes) == concretes
Listed(concretes) == concretes \ {Direct}

\* What the loop computes: the first diagnostic of a location names its entry,
\* all of them contribute sentinels, the last "via" line of a type stands.
Parse(order, run) ==
  [k \in {Diag(order, p).key : p \in Places(order)} |->
     LET at == {p \in Places(order) : Diag(order, p).key = k}
         via(c) == {p \in at : Diag(order, p).concrete = c}
         first == CHOOSE p \in at : \A q \in at : NotAfter(p, q)
         last(c) == CHOOSE p \in via(c) : \A q \in via(c) : NotAfter(q, p)
     IN  [run |-> run,
          name |-> Diag(order, first).name,
          sentinels |-> UNION {Diag(order, p).sentinels : p \in at},
          byConcrete |->
            [c \in Listed({Diag(order, p).concrete : p \in at}) |->
               Diag(order, last(c)).sentinels]]]

\* pkgDirsToPatterns turns the workspace root into "./...".
Covered(dirs) == IF Root \in dirs THEN Dirs ELSE dirs
VariantsOf(dirs) == {v \in Variants : VariantDir[v] \in dirs}

-----------------------------------------------------------------------------
(* The two indexes.                                                        *)

MutantFullNameOnly(entry) == {entry.name}
NamesOf(entry) == {entry.name, Simple[entry.name]}

\* addEntry, for every entry of a set.
NameIndex(entries) == [n \in Names |-> {e \in entries : n \in NamesOf(e)}]

EntriesOf(locations) == {locations[k] : k \in DOMAIN locations}

MutantNothingDeleted(dirs) == DOMAIN byLocation
MutantAllDeleted(dirs) == {}
Kept(dirs) == {k \in DOMAIN byLocation : DirOf[k] \notin dirs}

\* The name index kept, and only added to.
MutantAppendNames(src, dirs) ==
  [n \in Names |-> byFuncName[n] \cup {e \in EntriesOf(src) : n \in NamesOf(e)}]

\* ReplacePackages: the entries left after the deletion are indexed by name
\* before those of src are added to both indexes.
ReplacedLocations(src, dirs) ==
  [k \in DOMAIN src \cup Kept(dirs) |->
     IF k \in DOMAIN src THEN src[k] ELSE byLocation[k]]
ReplacedNames(src, dirs) ==
  NameIndex(EntriesOf(Restrict(byLocation, Kept(dirs))) \cup EntriesOf(src))

-----------------------------------------------------------------------------
Init ==
  /\ reports \in [Variants -> UNION {Reports[v] : v \in Variants}]
  /\ \A v \in Variants : reports[v] \in Reports[v]
  /\ byLocation = NoEntries
  /\ byFuncName = NameIndex({})
  /\ saved = [from |-> <<>>, entries |-> NoEntries]
  /\ analysed = [d \in Dirs |-> {}]
  /\ runs = 0

\* The sources change.
Edit(v) ==
  /\ \E r \in Reports[v] : reports' = [reports EXCEPT ![v] = r]
  /\ UNCHANGED <<byLocation, byFuncName, saved, analysed, runs>>

DiagsOf(d) == UNION {Range(reports[v]) : v \in VariantsOf({d})}

\* BuildCache and SetCache; a successful build is also written to the file.
FullRefresh ==
  /\ runs < MaxRuns
  /\ \E order \in Orders(Variants) :
       LET entries == Parse(order, runs + 1)
       IN  /\ byLocation' = entries
           /\ byFuncName' = NameIndex(EntriesOf(entries))
           /\ saved' = [from |-> reports, entries |-> entries]
  /\ analysed' = [d \in Dirs |-> DiagsOf(d)]
  /\ runs' = runs + 1
  /\ UNCHANGED reports

\* errsweep fails; the file was written for the sources as they are, and is
\* loaded: fileToCache allocates every entry anew.
Reload ==
  /\ runs < MaxRuns
  /\ saved.from = reports
  /\ LET entries == [k \in DOMAIN saved.entries |->
                       [saved.entries[k] EXCEPT !.run = runs + 1]]
     IN  /\ byLocation' = entries
         /\ byFuncName' = NameIndex(EntriesOf(entries))
  /\ analysed' = [d \in Dirs |-> DiagsOf(d)]
  /\ runs' = runs + 1
  /\ UNCHANGED <<reports, saved>>

\* BuildCachePartial and MergePartial; the file is not written.
PartialRefresh(dirs) ==
  /\ runs < MaxRuns
  /\ \E order \in Orders(VariantsOf(Covered(dirs))) :
       LET src == Parse(order, runs + 1)
       IN  /\ byLocation' = ReplacedLocations(src, dirs)
           /\ byFuncName' = ReplacedNames(src, dirs)
  /\ analysed' = [d \in Dirs |-> IF d \in Covered(dirs) THEN DiagsOf(d) ELSE analysed[d]]
  /\ runs' = runs + 1
  /\ UNCHANGED <<reports, saved>>

Next ==
  \/ \E v \in Variants : Edit(v)
  \/ FullRefresh
  \/ Reload
  \/ \E dirs \in SUBSET Dirs \ {{}} : PartialRefresh(dirs)

Spec == Init /\ [][Next]_vars

-----------------------------------------------------------------------------
(* What the proxy reads.                                                   *)

\* lookupByFuncName: several entries of one name are merged.
Merged(n, entries) ==
  [name |-> n,
   sentinels |-> UNION {e.sentinels : e \in entries},
   byConcrete |->
     [c \in UNION {DOMAIN e.byConcrete : e \in entries} |->
        UNION {e.byConcrete[c] : e \in {f \in entries : c \in DOMAIN f.byConcrete}}]]

Found(n) == byFuncName[n] # {}

LookupByFuncName(n) ==
  IF Cardinality(byFuncName[n]) = 1 THEN CHOOSE e \in byFuncName[n] : TRUE
  ELSE Merged(n, byFuncName[n])

-----------------------------------------------------------------------------
(* Properties.                                                             *)

Entries ==
  [run : 1..MaxRuns, name : Names, sentinels : SUBSET Sentinels,
   byConcrete : UNION {[cs -> SUBSET Sentinels] : cs \in SUBSET Concretes}]

Locations == UNION {[ks -> Entries] : ks \in SUBSET Keys}

TypeOK ==
  /\ DOMAIN reports = Variants /\ \A v \in Variants : reports[v] \in Reports[v]
  /\ DOMAIN byLocation \subseteq Keys /\ EntriesOf(byLocation) \subseteq Entries
  /\ DOMAIN byFuncName = Names /\ \A n \in Names : byFuncName[n] \subseteq Entries
  /\ DOMAIN saved.entries \subseteq Keys /\ EntriesOf(saved.entries) \subseteq Entries
  /\ analysed \in [Dirs -> SUBSET Diagnostics]
  /\ runs \in 0..MaxRuns

\* The name index holds exactly the entries of the location index: after any
\* sequence of refreshes no entry taken out of byLocation survives in
\* byFuncName (cache.go:117-118).
NameIndexExact == byFuncName = NameIndex(EntriesOf(byLocation))

Known == UNION {analysed[d] : d \in Dirs}

\* Whatever full, partial and reloaded results followed one another, a location
\* has an entry exactly when the last analysis of its directory reported one
\* there, with the union of what it reported.
LocationsExact ==
  /\ DOMAIN byLocation = {x.key : x \in Known}
  /\ \A k \in DOMAIN byLocation :
       byLocation[k].sentinels = UNION {x.sentinels : x \in {y \in Known : y.key = k}}

\* A lookup by qualified or simple name answers with the sentinels of all the
\* functions of that name in the last analyses, and misses only when there are
\* none (cache.go:182-206), as cache_test.go:96 expects of two packages.  The
\* comment of Cache (cache.go:63) says otherwise: that of functions of one name
\* the entry registered last wins.
NamesExact ==
  \A n \in Names :
    LET same == {x \in Known : n \in {x.name, Simple[x.name]}}
    IN  /\ Found(n) <=> same # {}
        /\ Found(n) => LookupByFuncName(n).sentinels = UNION {x.sentinels : x \in same}

\* parseErrsweepJSON computes Parse, in whatever order the variants come.
ParseComputed ==
  \A order \in Orders(Variants) : ParseLoop(order, 1) = Parse(order, 1)

\* A partial refresh replaces the entries directly under its directories and
\* keeps all others (proxy.go:42-43, cache.go:89-93).
OnlyRequestedReplaced ==
  [][\A dirs \in SUBSET Dirs : PartialRefresh(dirs) =>
       \A k \in DOMAIN byLocation : DirOf[k] \notin dirs =>
         k \in DOMAIN byLocation' /\ byLocation'[k] = byLocation[k]]_vars
=============================================================================
