-------------------------- MODULE CacheIndexProofs --------------------------
(***************************************************************************)
(* Proofs about the double index, for every layout of directories, every   *)
(* set of reports and every number of runs.                                *)
(***************************************************************************)
EXTENDS CacheIndex, FiniteSetTheorems, WellFoundedInduction, TLAPS

\* The workspace root holds no package, so no partial run is widened.
Rootless == Root \notin Dirs

ReportsTyped == \A v \in Variants : reports[v] \in Reports[v]

-----------------------------------------------------------------------------
(* A partial run reports only on the directories it was asked for.         *)

LEMMA ParsedKeysCovered ==
  ASSUME Rootless, ReportsTyped, NEW dirs \in SUBSET Dirs,
         NEW order \in Orders(VariantsOf(Covered(dirs))), NEW run,
         NEW k \in DOMAIN Parse(order, run)
  PROVE  DirOf[k] \in dirs
<1> DEFINE vs == VariantsOf(Covered(dirs))
<1>1. Covered(dirs) = dirs
  BY DEF Rootless, Covered
<1>2. PICK p \in Places(order) : k = Diag(order, p).key
  BY DEF Parse
<1>3. PICK i \in DOMAIN order : \E j \in DOMAIN reports[order[i]] : p = <<i, j>>
  BY <1>2 DEF Places
<1>4. PICK j \in DOMAIN reports[order[i]] : p = <<i, j>>
  BY <1>3
<1>5. order[i] \in vs
  <2>1. order \in [1..Cardinality(vs) -> vs]
    BY DEF Orders, SetToSeqs
  <2> QED  BY <2>1, <1>3
<1>6. order[i] \in Variants /\ VariantDir[order[i]] \in dirs
  BY <1>1, <1>5 DEF VariantsOf
<1>7. DirOf[reports[order[i]][j].key] = VariantDir[order[i]]
  BY <1>4, <1>6, ReportsAssumption DEF ReportsTyped
<1>8. k = reports[order[i]][j].key
  BY <1>2, <1>4 DEF Diag
<1> QED  BY <1>6, <1>7, <1>8

\* When a result only concerns the replaced directories, indexing before or
\* after the merge gives the same names.
LEMMA ReplaceKeepsIndex ==
  ASSUME NEW src, NEW dirs, \A k \in DOMAIN src : DirOf[k] \in dirs
  PROVE  ReplacedNames(src, dirs) = NameIndex(EntriesOf(ReplacedLocations(src, dirs)))
<1> DEFINE kept == Restrict(byLocation, Kept(dirs))
           locations == ReplacedLocations(src, dirs)
<1>1. \A k \in Kept(dirs) : k \notin DOMAIN src
  BY DEF Kept
<1>2. EntriesOf(kept) = {byLocation[k] : k \in Kept(dirs)}
  BY DEF EntriesOf, Restrict
<1>3. /\ DOMAIN locations = DOMAIN src \cup Kept(dirs)
      /\ \A k \in DOMAIN src : locations[k] = src[k]
      /\ \A k \in Kept(dirs) : locations[k] = byLocation[k]
  BY <1>1 DEF ReplacedLocations
<1>4. EntriesOf(locations) = EntriesOf(kept) \cup EntriesOf(src)
  BY <1>2, <1>3 DEF EntriesOf
<1> QED  BY <1>4 DEF ReplacedNames

-----------------------------------------------------------------------------
IndexInv == ReportsTyped /\ NameIndexExact

LEMMA InitIndexInv == Init => IndexInv
<1>1. EntriesOf(NoEntries) = {}
  BY DEF EntriesOf, NoEntries
<1> QED  BY <1>1 DEF Init, IndexInv, ReportsTyped, NameIndexExact

LEMMA NextReportsTyped ==
  ReportsTyped /\ reports \in [Variants -> UNION {Reports[v] : v \in Variants}]
    /\ [Next]_vars
  => /\ ReportsTyped'
     /\ reports' \in [Variants -> UNION {Reports[v] : v \in Variants}]
<1> SUFFICES ASSUME ReportsTyped, [Next]_vars,
                    reports \in [Variants -> UNION {Reports[v] : v \in Variants}]
             PROVE  /\ ReportsTyped'
                    /\ reports' \in [Variants -> UNION {Reports[v] : v \in Variants}]
  OBVIOUS
<1>1. ASSUME NEW v \in Variants, Edit(v)
      PROVE  /\ ReportsTyped'
             /\ reports' \in [Variants -> UNION {Reports[w] : w \in Variants}]
  <2>1. PICK r \in Reports[v] : reports' = [reports EXCEPT ![v] = r]
    BY <1>1 DEF Edit
  <2> QED  BY <2>1 DEF ReportsTyped
<1>2. CASE UNCHANGED reports
  BY <1>2, Zenon DEF ReportsTyped
<1>3. FullRefresh \/ Reload \/ (\E dirs \in SUBSET Dirs \ {{}} : PartialRefresh(dirs))
        \/ UNCHANGED vars => UNCHANGED reports
  BY DEF FullRefresh, Reload, PartialRefresh, vars
<1> QED  BY <1>1, <1>2, <1>3 DEF Next

LEMMA NextNameIndexExact ==
  ASSUME Rootless, ReportsTyped, NameIndexExact, [Next]_vars  PROVE  NameIndexExact'
<1>1. CASE (\E v \in Variants : Edit(v)) \/ UNCHANGED vars
  <2>1. UNCHANGED <<byLocation, byFuncName>>
    BY <1>1 DEF Edit, vars
  <2> QED  BY <2>1, Zenon DEF NameIndexExact
<1>2. CASE FullRefresh \/ Reload
  BY <1>2 DEF FullRefresh, Reload, NameIndexExact
<1>3. ASSUME NEW dirs \in SUBSET Dirs, PartialRefresh(dirs)  PROVE  NameIndexExact'
  <2>1. PICK order \in Orders(VariantsOf(Covered(dirs))) :
          /\ byLocation' = ReplacedLocations(Parse(order, runs + 1), dirs)
          /\ byFuncName' = ReplacedNames(Parse(order, runs + 1), dirs)
    BY <1>3 DEF PartialRefresh
  <2>2. \A k \in DOMAIN Parse(order, runs + 1) : DirOf[k] \in dirs
    BY ParsedKeysCovered
  <2> QED  BY <2>1, <2>2, ReplaceKeepsIndex, Zenon DEF NameIndexExact
<1> QED  BY <1>1, <1>2, <1>3 DEF Next

\* In a workspace without a package in its root, the name index never holds an
\* entry that the location index has lost, nor misses one it has
\* (cache.go:94-135).
THEOREM NameIndexFollows ==
  ASSUME Rootless  PROVE  Spec => []NameIndexExact
<1> DEFINE Inv == /\ IndexInv
                  /\ reports \in [Variants -> UNION {Reports[v] : v \in Variants}]
<1>1. Init => Inv
  BY InitIndexInv DEF Init
<1>2. Inv /\ [Next]_vars => Inv'
  BY NextReportsTyped, NextNameIndexExact DEF IndexInv
<1>3. Inv => NameIndexExact
  BY DEF IndexInv
<1> QED  BY <1>1, <1>2, <1>3, PTL DEF Spec

\* One partial refresh, for one entry.
LEMMA StepOnlyRequested ==
  ASSUME Rootless, ReportsTyped, NEW dirs \in SUBSET Dirs, PartialRefresh(dirs),
         NEW k \in DOMAIN byLocation, DirOf[k] \notin dirs
  PROVE  k \in DOMAIN byLocation' /\ byLocation'[k] = byLocation[k]
<1>1. PICK order \in Orders(VariantsOf(Covered(dirs))) :
        byLocation' = ReplacedLocations(Parse(order, runs + 1), dirs)
  BY DEF PartialRefresh
<1>2. k \notin DOMAIN Parse(order, runs + 1)
  BY ParsedKeysCovered
<1>3. k \in Kept(dirs)
  BY DEF Kept
<1> QED  BY <1>1, <1>2, <1>3 DEF ReplacedLocations

\* In such a workspace a partial refresh keeps every entry outside its
\* directories, whatever the order of errsweep's output (proxy.go:42-43).
THEOREM OthersKept ==
  ASSUME Rootless  PROVE  Spec => OnlyRequestedReplaced
<1> DEFINE Typed == ReportsTyped /\
                    reports \in [Variants -> UNION {Reports[v] : v \in Variants}]
           Step == \A dirs \in SUBSET Dirs : PartialRefresh(dirs) =>
                     \A k \in DOMAIN byLocation : DirOf[k] \notin dirs =>
                       k \in DOMAIN byLocation' /\ byLocation'[k] = byLocation[k]
<1>1. Init => Typed
  BY DEF Init, ReportsTyped
<1>2. Typed /\ [Next]_vars => Typed'
  BY NextReportsTyped
<1>3. Typed /\ [Next]_vars => [Step]_vars
  BY StepOnlyRequested
<1> QED  BY <1>1, <1>2, <1>3, PTL DEF Spec, OnlyRequestedReplaced

-----------------------------------------------------------------------------
(* The first and the last of some places in errsweep's output.             *)

LEMMA Least ==
  ASSUME NEW S, S \subseteq Nat, S # {}  PROVE  \E m \in S : \A x \in S : m <= x
<1> DEFINE R == OpToRel(<, Nat)
<1>1. IsWellFoundedOn(R, Nat)
  BY NatLessThanWellFounded
<1>2. R = {ss \in Nat \X Nat : ss[1] < ss[2]}
  BY DEF OpToRel
<1> HIDE DEF R
<1>3. PICK m \in S : \A x \in S : ~ (<<x, m>> \in R)
  BY <1>1, WFMin
<1>4. ASSUME NEW x \in S  PROVE m <= x
  <2>1. m \in Nat /\ x \in Nat /\ <<x, m>> \in Nat \X Nat
    BY <1>3
  <2>2. ~ (<<x, m>>[1] < <<x, m>>[2])
    BY <1>2, <1>3, <2>1
  <2> QED  BY <2>1, <2>2
<1> QED  BY <1>3, <1>4

LEMMA Greatest ==
  ASSUME NEW N \in Nat, NEW S, S \subseteq 0..N, S # {}
  PROVE  \E m \in S : \A x \in S : x <= m
<1> DEFINE T == {N - x : x \in S}
<1>0. \A x \in S : x \in Int /\ 0 <= x /\ x <= N
  OBVIOUS
<1>1. T \subseteq Nat /\ T # {}
  BY <1>0
<1>2. PICK t \in T : \A y \in T : t <= y
  BY <1>1, Least
<1>3. PICK m \in S : t = N - m
  BY <1>2
<1>4. \A x \in S : N - x \in T
  OBVIOUS
<1> HIDE DEF T
<1>5. \A x \in S : x <= m
  BY <1>2, <1>3, <1>4
<1> QED  BY <1>5

LEMMA FirstPlace ==
  ASSUME NEW P, P \subseteq Nat \X Nat, P # {}
  PROVE  \E p \in P : \A q \in P : NotAfter(p, q)
<1> DEFINE Is == {p[1] : p \in P}
<1>0. Is \subseteq Nat /\ Is # {}
  OBVIOUS
<1>1. PICK i \in Is : \A x \in Is : i <= x
  BY <1>0, Least
<1> DEFINE Js == {p[2] : p \in {q \in P : q[1] = i}}
<1>2. Js \subseteq Nat /\ Js # {}
  OBVIOUS
<1>3. PICK j \in Js : \A x \in Js : j <= x
  BY <1>2, Least
<1>4. PICK p \in P : p[1] = i /\ p[2] = j
  BY <1>3
<1>5. ASSUME NEW q \in P  PROVE NotAfter(p, q)
  <2>1. q[1] \in Is /\ (q[1] = i => q[2] \in Js)
    OBVIOUS
  <2> HIDE DEF Is, Js
  <2> QED  BY <1>1, <1>3, <1>4, <2>1 DEF NotAfter
<1> QED  BY <1>5

LEMMA LastPlace ==
  ASSUME NEW N \in Nat, NEW L, \A i \in 0..N : L[i] \in Nat,
         NEW P, P \subseteq (0..N) \X Nat, \A p \in P : p[2] <= L[p[1]], P # {}
  PROVE  \E p \in P : \A q \in P : NotAfter(q, p)
<1> DEFINE Is == {p[1] : p \in P}
<1>0. Is \subseteq 0..N /\ Is # {}
  OBVIOUS
<1>1. PICK i \in Is : \A x \in Is : x <= i
  BY <1>0, Greatest
<1> DEFINE Js == {p[2] : p \in {q \in P : q[1] = i}}
<1>2. Js \subseteq 0..L[i] /\ Js # {} /\ L[i] \in Nat
  OBVIOUS
<1>3. PICK j \in Js : \A x \in Js : x <= j
  BY <1>2, Greatest
<1>4. PICK p \in P : p[1] = i /\ p[2] = j
  BY <1>3
<1>5. ASSUME NEW q \in P  PROVE NotAfter(q, p)
  <2>1. q[1] \in Is /\ (q[1] = i => q[2] \in Js)
    OBVIOUS
  <2> HIDE DEF Is, Js
  <2> QED  BY <1>1, <1>3, <1>4, <2>1 DEF NotAfter
<1> QED  BY <1>5

-----------------------------------------------------------------------------
(* What is printed of some variants, and what Parse makes of it.           *)

PrintedBy(reps, vs) == UNION {Range(reps[v]) : v \in vs}
Printed(vs) == PrintedBy(reports, vs)

LEMMA OrderOnto ==
  ASSUME NEW vs, IsFiniteSet(vs), NEW order \in Orders(vs)
  PROVE  /\ order \in [1..Cardinality(vs) -> vs] /\ Cardinality(vs) \in Nat
         /\ \A v \in vs : \E i \in DOMAIN order : order[i] = v
<1> DEFINE n == Cardinality(vs)
<1>1. n \in Nat
  BY FS_CardinalityType
<1>2. order \in [1..n -> vs] /\ \A i, j \in 1..n : i # j => order[i] # order[j]
  BY DEF Orders, SetToSeqs
<1>3. IsFiniteSet(1..n) /\ Cardinality(1..n) = n
  <2>1. IsFiniteSet(1..n) /\ Cardinality(1..n) = IF 1 > n THEN 0 ELSE n - 1 + 1
    BY <1>1, FS_Interval
  <2> QED  BY <1>1, <2>1
<1>4. order \in Injection(1..n, vs)
  BY <1>2 DEF Injection, IsInjective
<1>5. order \in Surjection(1..n, vs)
  BY <1>3, <1>4, FS_Injection
<1>6. \A v \in vs : \E i \in 1..n : order[i] = v
  BY <1>5 DEF Surjection
<1> QED  BY <1>1, <1>2, <1>6

LEMMA ReportFacts ==
  ASSUME ReportsTyped, NEW v \in Variants
  PROVE  /\ reports[v] \in Seq(Diagnostics) /\ Len(reports[v]) \in Nat
         /\ DOMAIN reports[v] = 1..Len(reports[v])
         /\ \A x \in Range(reports[v]) : x \in Diagnostics /\ DirOf[x.key] = VariantDir[v]
<1>1. reports[v] \in Reports[v]
  BY DEF ReportsTyped
<1>2. /\ reports[v] \in Seq(Diagnostics)
      /\ \A i \in DOMAIN reports[v] : DirOf[reports[v][i].key] = VariantDir[v]
  BY <1>1, ReportsAssumption
<1> QED  BY <1>2 DEF Range

LEMMA PlaceFacts ==
  ASSUME ReportsTyped, NEW vs \in SUBSET Variants, NEW order \in Orders(vs)
  PROVE  /\ \A p \in Places(order) :
              /\ p = <<p[1], p[2]>> /\ p[1] \in 1..Cardinality(vs) /\ order[p[1]] \in vs
              /\ p[2] \in 1..Len(reports[order[p[1]]])
              /\ Diag(order, p) \in Printed(vs) /\ Diag(order, p) \in Diagnostics
         /\ \A x \in Printed(vs) : \E p \in Places(order) : Diag(order, p) = x
<1>1. IsFiniteSet(vs)
  BY LayoutAssumption, FS_Subset
<1>2. /\ order \in [1..Cardinality(vs) -> vs] /\ Cardinality(vs) \in Nat
      /\ \A v \in vs : \E i \in DOMAIN order : order[i] = v
  BY <1>1, OrderOnto
<1>3. ASSUME NEW p \in Places(order)
      PROVE  /\ p = <<p[1], p[2]>> /\ p[1] \in 1..Cardinality(vs) /\ order[p[1]] \in vs
             /\ p[2] \in 1..Len(reports[order[p[1]]])
             /\ Diag(order, p) \in Printed(vs) /\ Diag(order, p) \in Diagnostics
  <2>0. PICK i \in DOMAIN order : p \in {<<i, k>> : k \in DOMAIN reports[order[i]]}
    BY DEF Places
  <2>1. PICK j \in DOMAIN reports[order[i]] : p = <<i, j>>
    BY <2>0
  <2>2. i \in 1..Cardinality(vs) /\ order[i] \in vs /\ order[i] \in Variants
    BY <1>2
  <2>3. j \in 1..Len(reports[order[i]]) /\ reports[order[i]][j] \in Range(reports[order[i]])
    BY <2>1, <2>2, ReportFacts DEF Range
  <2>4. reports[order[i]][j] \in Printed(vs)
    BY <2>2, <2>3 DEF Printed, PrintedBy
  <2>5. reports[order[i]][j] \in Diagnostics
    BY <2>2, <2>3, ReportFacts
  <2> QED  BY <2>1, <2>2, <2>3, <2>4, <2>5 DEF Diag
<1>4. ASSUME NEW x \in Printed(vs)  PROVE  \E p \in Places(order) : Diag(order, p) = x
  <2>1. PICK v \in vs : x \in Range(reports[v])
    BY DEF Printed, PrintedBy
  <2>2. PICK j \in DOMAIN reports[v] : x = reports[v][j]
    BY <2>1 DEF Range
  <2>3. PICK i \in DOMAIN order : order[i] = v
    BY <1>2
  <2>4. <<i, j>> \in {<<i, k>> : k \in DOMAIN reports[order[i]]}
    BY <2>2, <2>3
  <2>5. <<i, j>> \in Places(order)
    BY <2>3, <2>4 DEF Places
  <2>6. Diag(order, <<i, j>>) = x
    BY <2>2, <2>3 DEF Diag
  <2> QED  BY <2>5, <2>6
<1> QED  BY <1>3, <1>4

\* The entries are those of the reported locations, each with the union of what
\* was reported there and the name of a function reported there.
Exact(locations, known) ==
  /\ DOMAIN locations = {x.key : x \in known}
  /\ \A k \in DOMAIN locations :
       /\ locations[k].sentinels = UNION {x.sentinels : x \in {y \in known : y.key = k}}
       /\ \E x \in known : x.key = k /\ locations[k].name = x.name

\* The places of key k, and those of them whose line names type c.
At(order, k) == {p \in Places(order) : Diag(order, p).key = k}
Via(order, k, c) == {p \in At(order, k) : Diag(order, p).concrete = c}
FirstOf(order, k) == CHOOSE p \in At(order, k) : \A q \in At(order, k) : NotAfter(p, q)
LastOf(order, k, c) ==
  CHOOSE p \in Via(order, k, c) : \A q \in Via(order, k, c) : NotAfter(q, p)

EntryAt(order, run, k) ==
  [run |-> run,
   name |-> Diag(order, FirstOf(order, k)).name,
   sentinels |-> UNION {Diag(order, p).sentinels : p \in At(order, k)},
   byConcrete |-> [c \in Listed({Diag(order, p).concrete : p \in At(order, k)}) |->
                     Diag(order, LastOf(order, k, c)).sentinels]]

LEMMA ParseUnfolds ==
  ASSUME NEW order, NEW run
  PROVE  /\ DOMAIN Parse(order, run) = {Diag(order, p).key : p \in Places(order)}
         /\ \A k \in DOMAIN Parse(order, run) : Parse(order, run)[k] = EntryAt(order, run, k)
BY DEF Parse, At, Via, FirstOf, LastOf, EntryAt

LEMMA FirstChosen ==
  ASSUME ReportsTyped, NEW vs \in SUBSET Variants, NEW order \in Orders(vs),
         NEW k, At(order, k) # {}
  PROVE  FirstOf(order, k) \in At(order, k)
<1>1. At(order, k) \subseteq Nat \X Nat
  <2> SUFFICES ASSUME NEW p \in At(order, k)  PROVE p \in Nat \X Nat
    OBVIOUS
  <2>1. p = <<p[1], p[2]>> /\ p[1] \in 1..Cardinality(vs) /\ p[2] \in 1..Len(reports[order[p[1]]])
    BY PlaceFacts DEF At
  <2>2. p[1] \in Nat /\ p[2] \in Nat
    BY <2>1
  <2> QED  BY <2>1, <2>2
<1>2. \E p \in At(order, k) : \A q \in At(order, k) : NotAfter(p, q)
  BY <1>1, FirstPlace
<1> QED  BY <1>2 DEF FirstOf

LEMMA LastChosen ==
  ASSUME ReportsTyped, NEW vs \in SUBSET Variants, NEW order \in Orders(vs),
         NEW k, NEW c, Via(order, k, c) # {}
  PROVE  LastOf(order, k, c) \in Via(order, k, c)
<1> DEFINE N == Cardinality(vs)
           L == [i \in 0..N |-> IF i \in DOMAIN order THEN Len(reports[order[i]]) ELSE 0]
           P == Via(order, k, c)
<1>1. N \in Nat /\ order \in [1..N -> vs]
  <2>1. IsFiniteSet(vs)
    BY LayoutAssumption, FS_Subset
  <2> QED  BY <2>1, OrderOnto
<1>2. ASSUME NEW i \in 0..N  PROVE L[i] \in Nat
  <2>1. CASE i \in DOMAIN order
    <3>1. order[i] \in Variants
      BY <1>1, <2>1
    <3> QED  BY <2>1, <3>1, ReportFacts
  <2> QED  BY <2>1
<1>3. ASSUME NEW p \in P  PROVE p \in (0..N) \X Nat /\ p[2] <= L[p[1]]
  <2>1. p = <<p[1], p[2]>> /\ p[1] \in 1..N /\ p[2] \in 1..Len(reports[order[p[1]]])
    BY PlaceFacts DEF Via, At
  <2>2. p[1] \in 0..N /\ p[1] \in DOMAIN order /\ p[2] \in Nat
    BY <1>1, <2>1
  <2>3. L[p[1]] = Len(reports[order[p[1]]]) /\ L[p[1]] \in Nat
    BY <1>2, <2>2
  <2> HIDE DEF L, P, N
  <2>4. p \in (0..N) \X Nat
    BY <2>1, <2>2
  <2>5. p[2] <= L[p[1]]
    BY <2>1, <2>3
  <2> QED  BY <2>4, <2>5
<1>4. P # {}
  OBVIOUS
<1> HIDE DEF L, P, N
<1>5. \E p \in P : \A q \in P : NotAfter(q, p)
  <2>1. P \subseteq (0..N) \X Nat /\ \A p \in P : p[2] <= L[p[1]]
    BY <1>3
  <2>2. \A i \in 0..N : L[i] \in Nat
    BY <1>2
  <2> QED  BY <1>1, <1>4, <2>1, <2>2, LastPlace
<1> QED  BY <1>5 DEF LastOf, P

\* Parse loses no location and no sentinel, invents none, and names each entry
\* after a function reported there.
LEMMA ParseExact ==
  ASSUME ReportsTyped, NEW vs \in SUBSET Variants, NEW order \in Orders(vs), NEW run
  PROVE  Exact(Parse(order, run), Printed(vs))
<1> DEFINE E == Parse(order, run)
<1>1. \A p \in Places(order) : Diag(order, p) \in Printed(vs)
  BY PlaceFacts
<1>2. \A x \in Printed(vs) : \E p \in Places(order) : Diag(order, p) = x
  BY PlaceFacts
<1>0. DOMAIN E = {Diag(order, p).key : p \in Places(order)}
  BY ParseUnfolds
<1>3. DOMAIN E = {x.key : x \in Printed(vs)}
  BY <1>0, <1>1, <1>2
<1>4. ASSUME NEW k \in DOMAIN E
      PROVE  /\ E[k].sentinels = UNION {x.sentinels : x \in {y \in Printed(vs) : y.key = k}}
             /\ \E x \in Printed(vs) : x.key = k /\ E[k].name = x.name
  <2>0. E[k] = EntryAt(order, run, k)
    BY ParseUnfolds
  <2>1. /\ E[k].sentinels = UNION {Diag(order, p).sentinels : p \in At(order, k)}
        /\ E[k].name = Diag(order, FirstOf(order, k)).name
    BY <2>0 DEF EntryAt
  <2>2. {Diag(order, p).sentinels : p \in At(order, k)} =
          {x.sentinels : x \in {y \in Printed(vs) : y.key = k}}
    BY <1>1, <1>2 DEF At
  <2>3. At(order, k) # {}
    BY <1>0 DEF At
  <2>4. FirstOf(order, k) \in At(order, k)
    BY <2>3, FirstChosen
  <2>5. /\ Diag(order, FirstOf(order, k)) \in Printed(vs)
        /\ Diag(order, FirstOf(order, k)).key = k
    BY <1>1, <2>4 DEF At
  <2> HIDE DEF E
  <2>6. \E x \in Printed(vs) : x.key = k /\ E[k].name = x.name
    BY <2>1, <2>5
  <2> QED  BY <2>1, <2>2, <2>6
<1> QED  BY <1>3, <1>4 DEF Exact

LEMMA ParseTyped ==
  ASSUME ReportsTyped, NEW vs \in SUBSET Variants, NEW order \in Orders(vs),
         NEW run \in 1..MaxRuns
  PROVE  /\ DOMAIN Parse(order, run) \subseteq Keys
         /\ EntriesOf(Parse(order, run)) \subseteq Entries
<1> DEFINE E == Parse(order, run)
<1>1. \A p \in Places(order) : Diag(order, p) \in Diagnostics
  BY PlaceFacts
<1>2. DOMAIN E \subseteq Keys
  <2>1. \A d \in Diagnostics : d.key \in Keys
    BY DEF Diagnostics
  <2>2. DOMAIN E = {Diag(order, p).key : p \in Places(order)}
    BY ParseUnfolds
  <2> HIDE DEF E
  <2> QED  BY <1>1, <2>1, <2>2
<1>3. ASSUME NEW k \in DOMAIN E  PROVE E[k] \in Entries
  <2> DEFINE name == Diag(order, FirstOf(order, k)).name
             sentinels == UNION {Diag(order, p).sentinels : p \in At(order, k)}
             cs == Listed({Diag(order, p).concrete : p \in At(order, k)})
             byConcrete == [c \in cs |-> Diag(order, LastOf(order, k, c)).sentinels]
  <2>1. E[k] = [run |-> run, name |-> name, sentinels |-> sentinels, byConcrete |-> byConcrete]
    <3>1. E[k] = EntryAt(order, run, k)
      BY ParseUnfolds
    <3>2. EntryAt(order, run, k) =
            [run |-> run, name |-> name, sentinels |-> sentinels, byConcrete |-> byConcrete]
      BY DEF EntryAt
    <3> HIDE DEF E, name, sentinels, byConcrete
    <3> QED  BY <3>1, <3>2
  <2>2. \A d \in Diagnostics : /\ d.name \in Names /\ d.sentinels \subseteq Sentinels
                               /\ d.concrete \in Concretes \cup {Direct}
    BY DEF Diagnostics
  <2>3. name \in Names
    <3>1. At(order, k) # {}
      <4>1. DOMAIN E = {Diag(order, p).key : p \in Places(order)}
        BY ParseUnfolds
      <4> QED  BY <4>1 DEF At
    <3>2. Diag(order, FirstOf(order, k)) \in Diagnostics
      BY <1>1, <3>1, FirstChosen DEF At
    <3> QED  BY <2>2, <3>2
  <2>4. sentinels \subseteq Sentinels
    BY <1>1, <2>2 DEF At
  <2>5. cs \subseteq Concretes
    BY <1>1, <2>2 DEF At, Listed
  <2>6. ASSUME NEW c \in cs  PROVE Diag(order, LastOf(order, k, c)).sentinels \subseteq Sentinels
    <3>1. Via(order, k, c) # {}
      BY DEF Via, Listed
    <3>2. Diag(order, LastOf(order, k, c)) \in Diagnostics
      BY <1>1, <3>1, LastChosen DEF Via, At
    <3> QED  BY <2>2, <3>2
  <2>7. byConcrete \in [cs -> SUBSET Sentinels]
    BY <2>6
  <2> HIDE DEF name, sentinels, cs, byConcrete, E
  <2>8. byConcrete \in UNION {[ds -> SUBSET Sentinels] : ds \in SUBSET Concretes}
    BY <2>5, <2>7
  <2> QED  BY <2>1, <2>3, <2>4, <2>8 DEF Entries
<1> HIDE DEF E
<1>4. EntriesOf(E) \subseteq Entries
  BY <1>3 DEF EntriesOf
<1> QED  BY <1>2, <1>4 DEF E

-----------------------------------------------------------------------------
(* Types.                                                                  *)

LEMMA OrderOfSome ==
  ASSUME NEW dirs  PROVE VariantsOf(dirs) \in SUBSET Variants
BY DEF VariantsOf

LEMMA DiagsTyped ==
  ASSUME ReportsTyped, NEW d
  PROVE  /\ DiagsOf(d) = Printed(VariantsOf({d}))
         /\ DiagsOf(d) \subseteq Diagnostics
         /\ \A x \in DiagsOf(d) : DirOf[x.key] = d
<1>1. DiagsOf(d) = Printed(VariantsOf({d}))
  BY DEF DiagsOf, Printed, PrintedBy
<1>2. ASSUME NEW x \in DiagsOf(d)  PROVE x \in Diagnostics /\ DirOf[x.key] = d
  <2>1. PICK v \in VariantsOf({d}) : x \in Range(reports[v])
    BY DEF DiagsOf
  <2>2. v \in Variants /\ VariantDir[v] = d
    BY DEF VariantsOf
  <2> QED  BY <2>1, <2>2, ReportFacts
<1> QED  BY <1>1, <1>2

\* Entries in both indexes are typed when those installed are.
LEMMA InstallTypes ==
  ASSUME TypeOK, NEW locations, NEW entries,
         DOMAIN locations \subseteq Keys, EntriesOf(locations) \subseteq Entries,
         entries \subseteq Entries,
         byLocation' = locations, byFuncName' = NameIndex(entries),
         UNCHANGED reports, runs' = runs + 1, runs < MaxRuns,
         DOMAIN saved'.entries \subseteq Keys, EntriesOf(saved'.entries) \subseteq Entries,
         \E dirs : analysed' = [d \in Dirs |-> IF d \in dirs THEN DiagsOf(d) ELSE analysed[d]]
  PROVE  TypeOK'
<1>1. PICK dirs : analysed' = [d \in Dirs |-> IF d \in dirs THEN DiagsOf(d) ELSE analysed[d]]
  OBVIOUS
<1>2. ReportsTyped
  BY DEF TypeOK, ReportsTyped
<1>3. analysed' \in [Dirs -> SUBSET Diagnostics]
  BY <1>1, <1>2, DiagsTyped DEF TypeOK
<1>4. runs' \in 0..MaxRuns
  BY LayoutAssumption DEF TypeOK
<1>5. /\ DOMAIN byFuncName' = Names
      /\ \A n \in Names : byFuncName'[n] \subseteq Entries
  BY DEF NameIndex
<1>6. DOMAIN reports' = Variants /\ \A v \in Variants : reports'[v] \in Reports[v]
  BY DEF TypeOK
<1>7. /\ DOMAIN byLocation' \subseteq Keys /\ EntriesOf(byLocation') \subseteq Entries
  OBVIOUS
<1> QED  BY ONLY <1>3, <1>4, <1>5, <1>6, <1>7, DOMAIN saved'.entries \subseteq Keys,
            EntriesOf(saved'.entries) \subseteq Entries DEF TypeOK, EntriesOf

LEMMA RenumberedTyped ==
  ASSUME NEW entries, DOMAIN entries \subseteq Keys, EntriesOf(entries) \subseteq Entries,
         NEW run \in 1..MaxRuns, NEW again,
         again = [k \in DOMAIN entries |-> [entries[k] EXCEPT !.run = run]]
  PROVE  /\ DOMAIN again = DOMAIN entries /\ EntriesOf(again) \subseteq Entries
         /\ \A k \in DOMAIN entries : /\ again[k].sentinels = entries[k].sentinels
                                      /\ again[k].name = entries[k].name
<1>1. ASSUME NEW k \in DOMAIN entries
      PROVE  /\ again[k] \in Entries
             /\ again[k].sentinels = entries[k].sentinels
             /\ again[k].name = entries[k].name
  <2>1. entries[k] \in Entries
    BY DEF EntriesOf
  <2>2. again[k] = [entries[k] EXCEPT !.run = run]
    OBVIOUS
  <2> QED  BY <2>1, <2>2 DEF Entries
<1>2. DOMAIN again = DOMAIN entries
  OBVIOUS
<1> QED  BY <1>1, <1>2 DEF EntriesOf

LEMMA NextTypes == ASSUME TypeOK, [Next]_vars  PROVE TypeOK'
<1>1. CASE UNCHANGED vars
  BY <1>1 DEF vars, TypeOK, EntriesOf
<1>2. ASSUME NEW v \in Variants, Edit(v)  PROVE TypeOK'
  <2>1. PICK r \in Reports[v] : reports' = [reports EXCEPT ![v] = r]
    BY <1>2 DEF Edit
  <2>2. DOMAIN reports' = Variants /\ \A w \in Variants : reports'[w] \in Reports[w]
    BY <2>1 DEF TypeOK
  <2> QED  BY <1>2, <2>2 DEF Edit, TypeOK, EntriesOf
<1>3. ReportsTyped /\ (runs < MaxRuns => runs + 1 \in 1..MaxRuns)
  BY LayoutAssumption DEF TypeOK, ReportsTyped
<1>4. CASE FullRefresh
  <2>1. PICK order \in Orders(Variants) :
          LET entries == Parse(order, runs + 1)
          IN  /\ byLocation' = entries
              /\ byFuncName' = NameIndex(EntriesOf(entries))
              /\ saved' = [from |-> reports, entries |-> entries]
    BY <1>4 DEF FullRefresh
  <2> DEFINE entries == Parse(order, runs + 1)
  <2>2. DOMAIN entries \subseteq Keys /\ EntriesOf(entries) \subseteq Entries
    BY <1>3, <1>4, ParseTyped DEF FullRefresh
  <2>3. analysed' = [d \in Dirs |-> IF d \in Dirs THEN DiagsOf(d) ELSE analysed[d]]
    BY <1>4 DEF FullRefresh
  <2>4. /\ byLocation' = entries /\ byFuncName' = NameIndex(EntriesOf(entries))
        /\ saved'.entries = entries
    BY <2>1
  <2>5. runs < MaxRuns /\ runs' = runs + 1 /\ UNCHANGED reports
    BY <1>4 DEF FullRefresh
  <2> HIDE DEF entries
  <2> QED  BY <2>2, <2>3, <2>4, <2>5, InstallTypes
<1>5. CASE Reload
  <2> DEFINE entries == [k \in DOMAIN saved.entries |->
                           [saved.entries[k] EXCEPT !.run = runs + 1]]
  <2>1. /\ byLocation' = entries /\ byFuncName' = NameIndex(EntriesOf(entries))
        /\ runs < MaxRuns /\ runs' = runs + 1 /\ UNCHANGED <<reports, saved>>
    BY <1>5 DEF Reload
  <2>2. analysed' = [d \in Dirs |-> IF d \in Dirs THEN DiagsOf(d) ELSE analysed[d]]
    BY <1>5 DEF Reload
  <2>3. DOMAIN saved.entries \subseteq Keys /\ EntriesOf(saved.entries) \subseteq Entries
    BY DEF TypeOK
  <2>4. DOMAIN entries \subseteq Keys /\ EntriesOf(entries) \subseteq Entries
    BY <1>3, <2>1, <2>3, RenumberedTyped
  <2> HIDE DEF entries
  <2> QED  BY <2>1, <2>2, <2>3, <2>4, InstallTypes
<1>6. ASSUME NEW dirs \in SUBSET Dirs, PartialRefresh(dirs)  PROVE TypeOK'
  <2>1. PICK order \in Orders(VariantsOf(Covered(dirs))) :
          /\ byLocation' = ReplacedLocations(Parse(order, runs + 1), dirs)
          /\ byFuncName' = ReplacedNames(Parse(order, runs + 1), dirs)
    BY <1>6 DEF PartialRefresh
  <2> DEFINE src == Parse(order, runs + 1)
             locations == ReplacedLocations(src, dirs)
             entries == EntriesOf(Restrict(byLocation, Kept(dirs))) \cup EntriesOf(src)
  <2>2. /\ runs < MaxRuns /\ runs' = runs + 1 /\ UNCHANGED <<reports, saved>>
        /\ analysed' = [d \in Dirs |-> IF d \in Covered(dirs) THEN DiagsOf(d) ELSE analysed[d]]
    BY <1>6 DEF PartialRefresh
  <2>3. DOMAIN src \subseteq Keys /\ EntriesOf(src) \subseteq Entries
    BY <1>3, <2>2, ParseTyped, OrderOfSome
  <2>4. byLocation' = locations /\ byFuncName' = NameIndex(entries)
    BY <2>1 DEF ReplacedNames
  <2> HIDE DEF src
  <2>5. DOMAIN locations \subseteq Keys /\ EntriesOf(locations) \subseteq Entries
    BY <2>3 DEF ReplacedLocations, Kept, TypeOK, EntriesOf
  <2>6. entries \subseteq Entries
    BY <2>3 DEF Kept, TypeOK, EntriesOf, Restrict
  <2>7. DOMAIN saved'.entries \subseteq Keys /\ EntriesOf(saved'.entries) \subseteq Entries
    BY <2>2 DEF TypeOK
  <2> HIDE DEF locations, entries
  <2> QED  BY <2>2, <2>4, <2>5, <2>6, <2>7, InstallTypes
<1> QED  BY <1>1, <1>2, <1>4, <1>5, <1>6 DEF Next

LEMMA InitTypes == Init => TypeOK
<1> SUFFICES ASSUME Init  PROVE TypeOK
  OBVIOUS
<1>1. EntriesOf(NoEntries) = {} /\ DOMAIN NoEntries = {}
  BY DEF EntriesOf, NoEntries
<1>2. DOMAIN byFuncName = Names /\ \A n \in Names : byFuncName[n] = {}
  BY DEF Init, NameIndex
<1> QED  BY <1>1, <1>2, LayoutAssumption DEF Init, TypeOK

\* Whatever errsweep reports, in whatever order, the indexes and the file hold
\* entries of known functions with known sentinels, and concrete types only as
\* keys of a breakdown (cache.go:59-135; loader.go:111-152).
THEOREM TypeCorrect == Spec => []TypeOK
BY InitTypes, NextTypes, PTL DEF Spec

-----------------------------------------------------------------------------
(* Locations.                                                              *)

\* What is known of a directory is about its own files, and the file is empty
\* or holds what it was written from.
InOwnDir == \A d \in Dirs : \A x \in analysed[d] : DirOf[x.key] = d
SavedExact ==
  \/ saved.from = <<>> /\ saved.entries = NoEntries
  \/ Exact(saved.entries, PrintedBy(saved.from, Variants))
ExactInv == TypeOK /\ InOwnDir /\ SavedExact /\ Exact(byLocation, Known)

LEMMA AllDiags ==
  ASSUME ReportsTyped  PROVE UNION {DiagsOf(d) : d \in Dirs} = Printed(Variants)
<1>1. ASSUME NEW x \in Printed(Variants)  PROVE \E d \in Dirs : x \in DiagsOf(d)
  <2>1. PICK v \in Variants : x \in Range(reports[v])
    BY DEF Printed, PrintedBy
  <2>2. VariantDir[v] \in Dirs /\ v \in VariantsOf({VariantDir[v]})
    BY LayoutAssumption DEF VariantsOf
  <2> QED  BY <2>1, <2>2 DEF DiagsOf
<1>2. \A d \in Dirs : DiagsOf(d) \subseteq Printed(Variants)
  BY DEF DiagsOf, Printed, PrintedBy, VariantsOf
<1> QED  BY <1>1, <1>2

LEMMA SomeDiags ==
  ASSUME NEW dirs  PROVE Printed(VariantsOf(dirs)) = UNION {DiagsOf(d) : d \in dirs}
BY DEF DiagsOf, Printed, PrintedBy, VariantsOf

\* A full or reloaded result, and a partial one.
LEMMA KnownAll ==
  ASSUME ReportsTyped, analysed' = [d \in Dirs |-> DiagsOf(d)]
  PROVE  Known' = Printed(Variants) /\ InOwnDir'
<1>1. Known' = UNION {DiagsOf(d) : d \in Dirs}
  BY DEF Known
<1>2. InOwnDir'
  BY DiagsTyped DEF InOwnDir
<1> QED  BY <1>1, <1>2, AllDiags

LEMMA KnownSome ==
  ASSUME ReportsTyped, InOwnDir, NEW dirs \in SUBSET Dirs,
         analysed' = [d \in Dirs |-> IF d \in dirs THEN DiagsOf(d) ELSE analysed[d]]
  PROVE  /\ Known' = Printed(VariantsOf(dirs)) \cup {x \in Known : DirOf[x.key] \notin dirs}
         /\ InOwnDir'
         /\ \A x \in Printed(VariantsOf(dirs)) : DirOf[x.key] \in dirs
<1>1. InOwnDir'
  BY DiagsTyped DEF InOwnDir
<1>2. Printed(VariantsOf(dirs)) = UNION {DiagsOf(d) : d \in dirs}
  BY SomeDiags
<1>3. ASSUME NEW x \in Printed(VariantsOf(dirs))  PROVE DirOf[x.key] \in dirs
  <2>1. PICK d \in dirs : x \in DiagsOf(d)
    BY <1>2
  <2>2. DirOf[x.key] = d
    BY <2>1, DiagsTyped
  <2> QED  BY <2>2
<1>4. ASSUME NEW x
      PROVE  x \in Known' <=>
               \/ x \in Printed(VariantsOf(dirs))
               \/ x \in {y \in Known : DirOf[y.key] \notin dirs}
  <2>1. x \in Known' <=> \E d \in Dirs : x \in analysed'[d]
    BY DEF Known
  <2>2. x \in Known <=> \E d \in Dirs : x \in analysed[d]
    BY DEF Known
  <2>3. x \in Printed(VariantsOf(dirs)) <=> \E d \in dirs : x \in DiagsOf(d)
    BY <1>2
  <2>4. \A d \in Dirs : analysed'[d] = IF d \in dirs THEN DiagsOf(d) ELSE analysed[d]
    OBVIOUS
  <2> QED  BY <2>1, <2>2, <2>3, <2>4 DEF InOwnDir
<1> QED  BY <1>1, <1>3, <1>4

LEMMA ReplacedExact ==
  ASSUME NEW src, NEW new, NEW known, NEW dirs, Exact(src, new), Exact(byLocation, known),
         \A x \in new : DirOf[x.key] \in dirs
  PROVE  Exact(ReplacedLocations(src, dirs),
               new \cup {x \in known : DirOf[x.key] \notin dirs})
<1> DEFINE locations == ReplacedLocations(src, dirs)
           old == {x \in known : DirOf[x.key] \notin dirs}
<1>1. \A k \in DOMAIN src : DirOf[k] \in dirs
  BY DEF Exact
<1>2. /\ DOMAIN locations = DOMAIN src \cup Kept(dirs)
      /\ \A k \in DOMAIN src : locations[k] = src[k]
      /\ \A k \in Kept(dirs) : locations[k] = byLocation[k] /\ DirOf[k] \notin dirs
      /\ Kept(dirs) = {k \in DOMAIN byLocation : DirOf[k] \notin dirs}
  BY <1>1 DEF ReplacedLocations, Kept
<1> HIDE DEF locations
<1>3. DOMAIN locations = {x.key : x \in new \cup old}
  BY <1>2 DEF Exact
<1>4. ASSUME NEW k \in DOMAIN src
      PROVE  /\ locations[k].sentinels = UNION {x.sentinels : x \in {y \in new \cup old : y.key = k}}
             /\ \E x \in new \cup old : x.key = k /\ locations[k].name = x.name
  <2>1. {y \in new \cup old : y.key = k} = {y \in new : y.key = k}
    BY <1>1
  <2>2. \E x \in new : x.key = k /\ src[k].name = x.name
    BY DEF Exact
  <2>3. src[k].sentinels = UNION {x.sentinels : x \in {y \in new : y.key = k}}
    BY Zenon DEF Exact
  <2> QED  BY <1>2, <2>1, <2>2, <2>3
<1>5. ASSUME NEW k \in Kept(dirs)
      PROVE  /\ locations[k].sentinels = UNION {x.sentinels : x \in {y \in new \cup old : y.key = k}}
             /\ \E x \in new \cup old : x.key = k /\ locations[k].name = x.name
  <2>1. {y \in new \cup old : y.key = k} = {y \in known : y.key = k}
    BY <1>2
  <2>2. k \in DOMAIN byLocation
    BY <1>2
  <2>3. \E x \in known : x.key = k /\ byLocation[k].name = x.name
    BY <2>2 DEF Exact
  <2>4. byLocation[k].sentinels = UNION {x.sentinels : x \in {y \in known : y.key = k}}
    BY <2>2, Zenon DEF Exact
  <2>5. \E x \in new \cup old : x.key = k /\ locations[k].name = x.name
    BY <1>2, <2>3
  <2> QED  BY <1>2, <2>1, <2>4, <2>5
<1> QED  BY <1>2, <1>3, <1>4, <1>5 DEF Exact, locations

LEMMA RenumberedExact ==
  ASSUME NEW entries, NEW known, Exact(entries, known), NEW again,
         DOMAIN again = DOMAIN entries,
         \A k \in DOMAIN entries : /\ again[k].sentinels = entries[k].sentinels
                                   /\ again[k].name = entries[k].name
  PROVE  Exact(again, known)
BY DEF Exact

LEMMA NothingExact == Exact(NoEntries, {})
BY DEF Exact, NoEntries

LEMMA InitExact == Init => ExactInv
<1> SUFFICES ASSUME Init  PROVE ExactInv
  OBVIOUS
<1>1. Known = {} /\ InOwnDir
  BY DEF Init, Known, InOwnDir
<1>2. SavedExact /\ byLocation = NoEntries
  BY DEF Init, SavedExact
<1> QED  BY <1>1, <1>2, InitTypes, NothingExact DEF ExactInv

LEMMA NextExact ==
  ASSUME Rootless, ExactInv, [Next]_vars  PROVE ExactInv'
<1>1. TypeOK /\ TypeOK' /\ ReportsTyped
  BY NextTypes DEF ExactInv, TypeOK, ReportsTyped
<1>2. CASE (\E v \in Variants : Edit(v)) \/ UNCHANGED vars
  <2>1. UNCHANGED <<byLocation, saved, analysed>>
    BY <1>2 DEF Edit, vars
  <2>2. UNCHANGED Known
    BY <2>1 DEF Known
  <2> QED  BY <1>1, <2>1, <2>2 DEF ExactInv, SavedExact, InOwnDir
<1>3. CASE FullRefresh
  <2>1. PICK order \in Orders(Variants) :
          /\ byLocation' = Parse(order, runs + 1)
          /\ saved' = [from |-> reports, entries |-> Parse(order, runs + 1)]
    BY <1>3 DEF FullRefresh
  <2>2. Exact(Parse(order, runs + 1), Printed(Variants))
    BY <1>1, ParseExact
  <2>3. Known' = Printed(Variants) /\ InOwnDir'
    BY <1>1, <1>3, KnownAll DEF FullRefresh
  <2>4. Exact(byLocation', Known')
    BY <2>1, <2>2, <2>3
  <2>5. Exact(saved'.entries, PrintedBy(saved'.from, Variants))
    BY <2>1, <2>2 DEF Printed
  <2> QED  BY <1>1, <2>3, <2>4, <2>5 DEF ExactInv, SavedExact
<1>4. CASE Reload
  <2>1. /\ byLocation' = [k \in DOMAIN saved.entries |->
                            [saved.entries[k] EXCEPT !.run = runs + 1]]
        /\ runs < MaxRuns /\ saved.from = reports /\ UNCHANGED saved
    BY <1>4 DEF Reload
  <2>2. runs + 1 \in 1..MaxRuns
    BY <1>1, <2>1, LayoutAssumption DEF TypeOK
  <2>3. Exact(saved.entries, Printed(Variants))
    <3>1. CASE Exact(saved.entries, PrintedBy(saved.from, Variants))
      BY <2>1, <3>1 DEF Printed
    <3>2. CASE saved.from = <<>> /\ saved.entries = NoEntries
      <4>1. Variants = {}
        BY <1>1, <2>1, <3>2 DEF TypeOK
      <4>2. Printed(Variants) = {}
        BY <4>1 DEF Printed, PrintedBy
      <4> QED  BY <3>2, <4>2, NothingExact
    <3> QED  BY <3>1, <3>2 DEF ExactInv, SavedExact
  <2>4. DOMAIN saved.entries \subseteq Keys /\ EntriesOf(saved.entries) \subseteq Entries
    BY <1>1 DEF TypeOK
  <2>5. /\ DOMAIN byLocation' = DOMAIN saved.entries
        /\ \A k \in DOMAIN saved.entries :
             /\ byLocation'[k].sentinels = saved.entries[k].sentinels
             /\ byLocation'[k].name = saved.entries[k].name
    BY <2>1, <2>2, <2>4, RenumberedTyped
  <2>6. Exact(byLocation', Printed(Variants))
    BY <2>3, <2>5, RenumberedExact
  <2>7. Known' = Printed(Variants) /\ InOwnDir'
    BY <1>1, <1>4, KnownAll DEF Reload
  <2> QED  BY <1>1, <2>1, <2>6, <2>7 DEF ExactInv, SavedExact
<1>5. ASSUME NEW dirs \in SUBSET Dirs, PartialRefresh(dirs)  PROVE ExactInv'
  <2>1. Covered(dirs) = dirs
    BY DEF Rootless, Covered
  <2>2. PICK order \in Orders(VariantsOf(dirs)) :
          byLocation' = ReplacedLocations(Parse(order, runs + 1), dirs)
    BY <1>5, <2>1 DEF PartialRefresh
  <2>3. Exact(Parse(order, runs + 1), Printed(VariantsOf(dirs)))
    BY <1>1, ParseExact, OrderOfSome
  <2>4. /\ Known' = Printed(VariantsOf(dirs)) \cup {x \in Known : DirOf[x.key] \notin dirs}
        /\ InOwnDir'
        /\ \A x \in Printed(VariantsOf(dirs)) : DirOf[x.key] \in dirs
    <3>1. analysed' = [d \in Dirs |-> IF d \in dirs THEN DiagsOf(d) ELSE analysed[d]]
      BY <1>5, <2>1 DEF PartialRefresh
    <3> QED  BY <1>1, <3>1, KnownSome DEF ExactInv
  <2>5. Exact(byLocation', Known')
    <3>1. Exact(byLocation, Known)
      BY DEF ExactInv
    <3> QED  BY <2>2, <2>3, <2>4, <3>1, ReplacedExact
  <2>6. SavedExact'
    BY <1>5 DEF PartialRefresh, ExactInv, SavedExact
  <2> QED  BY <1>1, <2>4, <2>5, <2>6 DEF ExactInv
<1> QED  BY <1>2, <1>3, <1>4, <1>5 DEF Next

\* In a workspace without a package in its root, any sequence of full, partial
\* and reloaded results leaves an entry exactly where the last analysis of the
\* directory reported, with all it reported there (cache.go:94-135,
\* loader.go:111-152).
THEOREM LocationsFollow ==
  ASSUME Rootless  PROVE Spec => []LocationsExact
<1>1. ExactInv => LocationsExact
  BY DEF ExactInv, Exact, LocationsExact
<1> QED  BY <1>1, InitExact, NextExact, PTL DEF Spec

-----------------------------------------------------------------------------
(* Names.                                                                  *)

\* What errsweep reports at one time of one line is about one function.
OneFunctionPerLine ==
  \A v, w \in Variants : \A r \in Reports[v], s \in Reports[w] : (v = w => r = s) =>
    \A i \in DOMAIN r, j \in DOMAIN s : r[i].key = s[j].key => r[i].name = s[j].name

NamedOnce ==
  \A d \in Dirs : \A x, y \in analysed[d] : x.key = y.key => x.name = y.name
NamesInv == NamedOnce /\ IsFiniteSet(DOMAIN byLocation) /\ IsFiniteSet(DOMAIN saved.entries)

LEMMA ImageFinite ==
  ASSUME NEW S, IsFiniteSet(S), NEW U, NEW f \in [S -> U]
  PROVE  IsFiniteSet({f[x] : x \in S})
<1> DEFINE T == {f[x] : x \in S}
<1>1. f \in Surjection(S, T)
  BY DEF Surjection
<1> QED  BY <1>1, FS_Surjection

LEMMA PrintedFinite ==
  ASSUME ReportsTyped, NEW vs \in SUBSET Variants  PROVE IsFiniteSet({x.key : x \in Printed(vs)})
<1> DEFINE ranges == [v \in vs |-> Range(reports[v])]
           all == {ranges[v] : v \in vs}
           keys == [x \in Printed(vs) |-> x.key]
<1>1. IsFiniteSet(all)
  <2>1. IsFiniteSet(vs)
    BY LayoutAssumption, FS_Subset
  <2>2. ranges \in [vs -> all]
    OBVIOUS
  <2>3. all = {ranges[v] : v \in vs}
    OBVIOUS
  <2> HIDE DEF ranges, all
  <2>4. IsFiniteSet({ranges[v] : v \in vs})
    BY <2>1, <2>2, ImageFinite
  <2> QED  BY <2>3, <2>4
<1>2. ASSUME NEW v \in vs  PROVE IsFiniteSet(Range(reports[v]))
  <2> DEFINE n == Len(reports[v])
  <2>1. n \in Nat /\ reports[v] \in [1..n -> Diagnostics]
    BY ReportFacts
  <2>2. IsFiniteSet(1..n)
    BY <2>1, FS_Interval
  <2>3. IsFiniteSet({reports[v][i] : i \in 1..n})
    BY <2>1, <2>2, ImageFinite
  <2> QED  BY <2>1, <2>3 DEF Range
<1>3. \A T \in all : IsFiniteSet(T)
  BY <1>2
<1>4. Printed(vs) = UNION all
  BY DEF Printed, PrintedBy
<1> HIDE DEF all
<1>5. IsFiniteSet(Printed(vs))
  BY <1>1, <1>3, <1>4, FS_UNION
<1>6. PICK U : keys \in [Printed(vs) -> U]
  <2>1. keys \in [Printed(vs) -> {x.key : x \in Printed(vs)}]
    OBVIOUS
  <2> QED  BY <2>1
<1>7. \A x \in Printed(vs) : keys[x] = x.key
  OBVIOUS
<1> HIDE DEF keys
<1>8. IsFiniteSet({keys[x] : x \in Printed(vs)})
  BY <1>5, <1>6, ImageFinite
<1>9. {keys[x] : x \in Printed(vs)} = {x.key : x \in Printed(vs)}
  BY <1>7
<1> QED  BY <1>8, <1>9

LEMMA ParsedFinite ==
  ASSUME ReportsTyped, NEW vs \in SUBSET Variants, NEW order \in Orders(vs), NEW run
  PROVE  IsFiniteSet(DOMAIN Parse(order, run))
<1>1. DOMAIN Parse(order, run) = {x.key : x \in Printed(vs)}
  BY ParseExact DEF Exact
<1> QED  BY <1>1, PrintedFinite

LEMMA DiagsNamedOnce ==
  ASSUME ReportsTyped, OneFunctionPerLine, NEW d,
         NEW x \in DiagsOf(d), NEW y \in DiagsOf(d), x.key = y.key
  PROVE  x.name = y.name
<1>1. PICK v \in Variants : x \in Range(reports[v])
  BY DEF DiagsOf, VariantsOf
<1>2. PICK w \in Variants : y \in Range(reports[w])
  BY DEF DiagsOf, VariantsOf
<1>3. PICK i \in DOMAIN reports[v] : x = reports[v][i]
  BY <1>1 DEF Range
<1>4. PICK j \in DOMAIN reports[w] : y = reports[w][j]
  BY <1>2 DEF Range
<1>5. reports[v] \in Reports[v] /\ reports[w] \in Reports[w]
  BY DEF ReportsTyped
<1> QED  BY <1>3, <1>4, <1>5 DEF OneFunctionPerLine

LEMMA NextNames ==
  ASSUME OneFunctionPerLine, ReportsTyped, NamesInv, [Next]_vars  PROVE NamesInv'
<1>1. CASE (\E v \in Variants : Edit(v)) \/ UNCHANGED vars
  BY <1>1 DEF Edit, vars, NamesInv, NamedOnce
<1>2. ASSUME NEW dirs, analysed' = [d \in Dirs |-> IF d \in dirs THEN DiagsOf(d) ELSE analysed[d]]
      PROVE  NamedOnce'
  BY <1>2, DiagsNamedOnce DEF NamesInv, NamedOnce
<1>3. CASE FullRefresh
  <2>1. PICK order \in Orders(Variants) :
          /\ byLocation' = Parse(order, runs + 1)
          /\ saved' = [from |-> reports, entries |-> Parse(order, runs + 1)]
    BY <1>3 DEF FullRefresh
  <2>2. IsFiniteSet(DOMAIN Parse(order, runs + 1))
    BY ParsedFinite
  <2>3. analysed' = [d \in Dirs |-> IF d \in Dirs THEN DiagsOf(d) ELSE analysed[d]]
    BY <1>3 DEF FullRefresh
  <2>4. NamedOnce'
    BY <1>2, <2>3
  <2> QED  BY <2>1, <2>2, <2>4 DEF NamesInv
<1>4. CASE Reload
  <2>1. DOMAIN byLocation' = DOMAIN saved.entries /\ UNCHANGED saved
    BY <1>4 DEF Reload
  <2>2. analysed' = [d \in Dirs |-> IF d \in Dirs THEN DiagsOf(d) ELSE analysed[d]]
    BY <1>4 DEF Reload
  <2>3. NamedOnce'
    BY <1>2, <2>2
  <2> QED  BY <2>1, <2>3 DEF NamesInv
<1>5. ASSUME NEW dirs \in SUBSET Dirs, PartialRefresh(dirs)  PROVE NamesInv'
  <2>1. PICK order \in Orders(VariantsOf(Covered(dirs))) :
          byLocation' = ReplacedLocations(Parse(order, runs + 1), dirs)
    BY <1>5 DEF PartialRefresh
  <2>2. IsFiniteSet(DOMAIN Parse(order, runs + 1))
    BY ParsedFinite, OrderOfSome
  <2>3. IsFiniteSet(Kept(dirs))
    <3>1. Kept(dirs) \in SUBSET DOMAIN byLocation
      BY DEF Kept
    <3> QED  BY <3>1, FS_Subset DEF NamesInv
  <2>4. DOMAIN byLocation' = DOMAIN Parse(order, runs + 1) \cup Kept(dirs)
    BY <2>1 DEF ReplacedLocations
  <2>5. IsFiniteSet(DOMAIN byLocation')
    BY <2>2, <2>3, <2>4, FS_Union
  <2>6. analysed' = [d \in Dirs |-> IF d \in Covered(dirs) THEN DiagsOf(d) ELSE analysed[d]]
        /\ UNCHANGED saved
    BY <1>5 DEF PartialRefresh
  <2>7. NamedOnce'
    BY <1>2, <2>6
  <2> QED  BY <2>5, <2>6, <2>7 DEF NamesInv
<1> QED  BY <1>1, <1>3, <1>4, <1>5 DEF Next

\* One entry or several, a lookup answers with the union of their sentinels.
LEMMA LookupUnion ==
  ASSUME NEW n, IsFiniteSet(byFuncName[n])
  PROVE  LookupByFuncName(n).sentinels = UNION {e.sentinels : e \in byFuncName[n]}
<1>1. CASE Cardinality(byFuncName[n]) = 1
  <2>1. PICK e : byFuncName[n] = {e}
    BY <1>1, FS_Singleton
  <2>2. LookupByFuncName(n) = e
    BY <1>1, <2>1 DEF LookupByFuncName
  <2> QED  BY <2>1, <2>2
<1>2. CASE Cardinality(byFuncName[n]) # 1
  BY <1>2 DEF LookupByFuncName, Merged
<1> QED  BY <1>1, <1>2

LEMMA NamesFollowed ==
  ASSUME ExactInv, NamesInv, NameIndexExact  PROVE NamesExact
<1> SUFFICES ASSUME NEW n \in Names
             PROVE  LET same == {x \in Known : n \in {x.name, Simple[x.name]}}
                    IN  /\ Found(n) <=> same # {}
                        /\ Found(n) => LookupByFuncName(n).sentinels = UNION {x.sentinels : x \in same}
  BY Zenon DEF NamesExact
<1> DEFINE same == {x \in Known : n \in {x.name, Simple[x.name]}}
           S == byFuncName[n]
<1>1. S = {e \in EntriesOf(byLocation) : n \in {e.name, Simple[e.name]}}
  BY DEF NameIndexExact, NameIndex, NamesOf
<1>2. ASSUME NEW k \in DOMAIN byLocation, NEW x \in Known, x.key = k
      PROVE  byLocation[k].name = x.name
  <2>1. PICK y \in Known : y.key = k /\ byLocation[k].name = y.name
    BY DEF ExactInv, Exact
  <2>2. PICK d \in Dirs : x \in analysed[d]
    BY DEF Known
  <2>3. PICK c \in Dirs : y \in analysed[c]
    BY DEF Known
  <2>4. c = d
    BY <1>2, <2>1, <2>2, <2>3 DEF ExactInv, InOwnDir
  <2> QED  BY <1>2, <2>1, <2>2, <2>3, <2>4 DEF NamesInv, NamedOnce
<1>3. ASSUME NEW x \in same  PROVE \E e \in S : x.sentinels \subseteq e.sentinels
  <2> DEFINE e == byLocation[x.key]
  <2>1. x \in Known /\ x.key \in DOMAIN byLocation
    BY DEF ExactInv, Exact
  <2>2. e.name = x.name /\ e \in EntriesOf(byLocation)
    BY <1>2, <2>1 DEF EntriesOf
  <2>3. e.sentinels = UNION {y.sentinels : y \in {z \in Known : z.key = x.key}}
    BY <2>1, Zenon DEF ExactInv, Exact
  <2>4. x.sentinels \subseteq e.sentinels
    BY <2>1, <2>3
  <2>5. e \in S
    BY <1>1, <2>2
  <2> QED  BY <2>4, <2>5
<1>4. ASSUME NEW e \in S
      PROVE  /\ same # {}
             /\ \A a \in e.sentinels : \E x \in same : a \in x.sentinels
  <2>1. PICK k \in DOMAIN byLocation : e = byLocation[k]
    BY <1>1 DEF EntriesOf
  <2>2. e.sentinels = UNION {y.sentinels : y \in {z \in Known : z.key = k}}
    BY <2>1, Zenon DEF ExactInv, Exact
  <2>3. \A x \in Known : x.key = k => x \in same
    BY <1>1, <1>2, <2>1
  <2>4. \E x \in Known : x.key = k
    BY <2>1 DEF ExactInv, Exact
  <2> HIDE DEF same
  <2>5. same # {}
    BY <2>3, <2>4
  <2>6. \A a \in e.sentinels : \E x \in same : a \in x.sentinels
    BY <2>2, <2>3
  <2> QED  BY <2>5, <2>6
<1>5. IsFiniteSet(S)
  <2> DEFINE f == [k \in DOMAIN byLocation |-> byLocation[k]]
  <2>1. f \in [DOMAIN byLocation -> EntriesOf(byLocation)]
    BY DEF EntriesOf
  <2>2. EntriesOf(byLocation) = {f[k] : k \in DOMAIN byLocation}
    BY DEF EntriesOf
  <2> HIDE DEF f
  <2>3. IsFiniteSet(EntriesOf(byLocation))
    BY <2>1, <2>2, ImageFinite DEF NamesInv
  <2>4. S \in SUBSET EntriesOf(byLocation)
    BY <1>1
  <2> QED  BY <2>3, <2>4, FS_Subset
<1>6. LookupByFuncName(n).sentinels = UNION {e.sentinels : e \in S}
  BY <1>5, LookupUnion
<1> HIDE DEF same
<1>7. UNION {e.sentinels : e \in S} = UNION {x.sentinels : x \in same}
  BY <1>3, <1>4
<1>8. S # {} <=> same # {}
  BY <1>3, <1>4
<1> QED  BY <1>6, <1>7, <1>8 DEF Found, same

\* In a workspace without a package in its root, where no line holds two
\* functions, a lookup by name finds all the functions of that name in the last
\* analyses, and what they return (cache.go:182-206).
THEOREM NamesFollow ==
  ASSUME Rootless, OneFunctionPerLine  PROVE Spec => []NamesExact
<1> DEFINE Inv == ExactInv /\ NamesInv /\ NameIndexExact
<1>1. Init => Inv
  <2> SUFFICES ASSUME Init  PROVE Inv
    OBVIOUS
  <2>1. DOMAIN NoEntries = {} /\ IsFiniteSet({})
    BY FS_EmptySet DEF NoEntries
  <2>2. NamesInv
    BY <2>1 DEF Init, NamesInv, NamedOnce
  <2> QED  BY <2>2, InitExact, InitIndexInv DEF IndexInv
<1>2. Inv /\ [Next]_vars => Inv'
  <2>1. Inv => ReportsTyped
    BY DEF ExactInv, TypeOK, ReportsTyped
  <2> QED  BY <2>1, NextExact, NextNames, NextNameIndexExact
<1>3. Inv => NamesExact
  BY NamesFollowed
<1> QED  BY <1>1, <1>2, <1>3, PTL DEF Spec

-----------------------------------------------------------------------------
(* The two loops of the parser: what they have made of the places they     *)
(* passed is what Parse makes of these places alone.                       *)

EarliestOf(at) == CHOOSE p \in at : \A q \in at : NotAfter(p, q)
LatestOf(at) == CHOOSE p \in at : \A q \in at : NotAfter(q, p)
Naming(order, at, c) == {p \in at : Diag(order, p).concrete = c}
On(order, places, k) == {p \in places : Diag(order, p).key = k}

\* The breakdown and the entry made of the places `at` of one location.
BreakdownOf(order, at) ==
  [c \in Listed({Diag(order, p).concrete : p \in at}) |->
     Diag(order, LatestOf(Naming(order, at, c))).sentinels]
EntryOf(order, run, at) ==
  [run |-> run,
   name |-> Diag(order, EarliestOf(at)).name,
   sentinels |-> UNION {Diag(order, p).sentinels : p \in at},
   byConcrete |-> BreakdownOf(order, at)]

MadeOf(order, run, places) ==
  [k \in {Diag(order, p).key : p \in places} |-> EntryOf(order, run, On(order, places, k))]

LEMMA ParseMade ==
  ASSUME NEW order, NEW run  PROVE Parse(order, run) = MadeOf(order, run, Places(order))
BY DEF Parse, MadeOf, EntryOf, BreakdownOf, On, Naming, EarliestOf, LatestOf

LEMMA SamePlace ==
  ASSUME NEW p \in Nat \X Nat, NEW q \in Nat \X Nat, NotAfter(p, q), NotAfter(q, p)
  PROVE  p = q
<1>1. p = <<p[1], p[2]>> /\ q = <<q[1], q[2]>> /\ {p[1], p[2], q[1], q[2]} \subseteq Nat
  OBVIOUS
<1>2. p[1] = q[1] /\ p[2] = q[2]
  BY <1>1 DEF NotAfter
<1> QED  BY <1>1, <1>2

LEMMA EarliestKept ==
  ASSUME NEW at, at \subseteq Nat \X Nat, at # {}, NEW p \in Nat \X Nat,
         \A q \in at : NotAfter(q, p)
  PROVE  EarliestOf(at \cup {p}) = EarliestOf(at)
<1>1. PICK m \in at : \A q \in at : NotAfter(m, q)
  BY FirstPlace
<1>2. EarliestOf(at) = m
  <2>1. EarliestOf(at) \in at /\ \A q \in at : NotAfter(EarliestOf(at), q)
    BY <1>1 DEF EarliestOf
  <2> QED  BY <1>1, <2>1, SamePlace
<1>3. m \in at \cup {p} /\ \A q \in at \cup {p} : NotAfter(m, q)
  BY <1>1
<1>4. EarliestOf(at \cup {p}) = m
  <2>1. /\ EarliestOf(at \cup {p}) \in at \cup {p}
        /\ \A q \in at \cup {p} : NotAfter(EarliestOf(at \cup {p}), q)
    BY <1>3 DEF EarliestOf
  <2> QED  BY <1>3, <2>1, SamePlace
<1> QED  BY <1>2, <1>4

LEMMA Alone ==
  ASSUME NEW p  PROVE EarliestOf({p}) = p
BY DEF EarliestOf

LEMMA LatestIsNew ==
  ASSUME NEW at, at \subseteq Nat \X Nat, NEW p \in Nat \X Nat,
         \A q \in at : NotAfter(q, p)
  PROVE  LatestOf(at \cup {p}) = p
<1>1. NotAfter(p, p)
  BY DEF NotAfter
<1>2. p \in at \cup {p} /\ \A q \in at \cup {p} : NotAfter(q, p)
  BY <1>1
<1>3. /\ LatestOf(at \cup {p}) \in at \cup {p}
      /\ \A q \in at \cup {p} : NotAfter(q, LatestOf(at \cup {p}))
  BY <1>2 DEF LatestOf
<1> QED  BY <1>2, <1>3, SamePlace

\* A later line adds its type, or replaces what was said of it.
LEMMA BreakdownPut ==
  ASSUME NEW order, NEW at, at \subseteq Nat \X Nat, NEW p \in Nat \X Nat,
         \A q \in at : NotAfter(q, p)
  PROVE  BreakdownOf(order, at \cup {p}) =
           IF Diag(order, p).concrete = Direct THEN BreakdownOf(order, at)
           ELSE Put(BreakdownOf(order, at), Diag(order, p).concrete, Diag(order, p).sentinels)
<1> DEFINE d == Diag(order, p)
           types == {Diag(order, q).concrete : q \in at}
<1>1. {Diag(order, q).concrete : q \in at \cup {p}} = types \cup {d.concrete}
  OBVIOUS
<1>2. ASSUME NEW c, c # d.concrete  PROVE Naming(order, at \cup {p}, c) = Naming(order, at, c)
  BY <1>2 DEF Naming
<1>3. LatestOf(Naming(order, at \cup {p}, d.concrete)) = p
  <2>1. Naming(order, at \cup {p}, d.concrete) = Naming(order, at, d.concrete) \cup {p}
    BY DEF Naming
  <2>2. /\ Naming(order, at, d.concrete) \subseteq Nat \X Nat
        /\ \A q \in Naming(order, at, d.concrete) : NotAfter(q, p)
    BY DEF Naming
  <2> QED  BY <2>1, <2>2, LatestIsNew
<1>4. BreakdownOf(order, at \cup {p}) =
        [c \in Listed(types \cup {d.concrete}) |->
           IF c = d.concrete THEN d.sentinels
           ELSE Diag(order, LatestOf(Naming(order, at, c))).sentinels]
  BY <1>1, <1>2, <1>3 DEF BreakdownOf
<1>5. BreakdownOf(order, at) =
        [c \in Listed(types) |-> Diag(order, LatestOf(Naming(order, at, c))).sentinels]
  BY DEF BreakdownOf
<1> HIDE DEF d, types
<1>6. CASE d.concrete = Direct
  <2>1. Listed(types \cup {d.concrete}) = Listed(types) /\ d.concrete \notin Listed(types)
    BY <1>6 DEF Listed
  <2> QED  BY <1>4, <1>5, <1>6, <2>1 DEF d
<1>7. CASE d.concrete # Direct
  <2>1. Listed(types \cup {d.concrete}) = Listed(types) \cup {d.concrete}
    BY <1>7 DEF Listed
  <2>2. BreakdownOf(order, at \cup {p}) = Put(BreakdownOf(order, at), d.concrete, d.sentinels)
    BY <1>4, <1>5, <2>1 DEF Put
  <2> QED  BY <1>7, <2>2 DEF d
<1> QED  BY <1>6, <1>7

LEMMA UnionGrows ==
  ASSUME NEW order, NEW at, NEW p
  PROVE  UNION {Diag(order, q).sentinels : q \in at \cup {p}}
           = (UNION {Diag(order, q).sentinels : q \in at}) \cup Diag(order, p).sentinels
<1> DEFINE A == {Diag(order, q).sentinels : q \in at}
           B == {Diag(order, q).sentinels : q \in at \cup {p}}
           x == Diag(order, p).sentinels
<1>1. B = A \cup {x}
  OBVIOUS
<1>2. UNION B = (UNION A) \cup x
  <2> HIDE DEF A, B, x
  <2> QED  BY <1>1
<1> QED  BY <1>2

\* An entry after a diagnostic of its location.
Grown(old, d) ==
  [old EXCEPT !.sentinels = @ \cup d.sentinels,
              !.byConcrete = IF d.concrete = Direct THEN @
                             ELSE Put(@, d.concrete, d.sentinels)]

LEMMA Added ==
  ASSUME NEW run, NEW name, NEW s, NEW b, NEW d
  PROVE  Grown([run |-> run, name |-> name, sentinels |-> s, byConcrete |-> b], d)
           = [run |-> run, name |-> name, sentinels |-> s \cup d.sentinels,
              byConcrete |-> IF d.concrete = Direct THEN b ELSE Put(b, d.concrete, d.sentinels)]
<1> DEFINE y(c) == IF d.concrete = Direct THEN c ELSE Put(c, d.concrete, d.sentinels)
           r0 == [run |-> run, name |-> name, sentinels |-> s, byConcrete |-> b]
           r1 == [run |-> run, name |-> name, sentinels |-> s \cup d.sentinels, byConcrete |-> b]
<1>1. [r0 EXCEPT !.sentinels = @ \cup d.sentinels] = r1
  OBVIOUS
<1> HIDE DEF y
<1>2. [r1 EXCEPT !.byConcrete = y(@)]
        = [run |-> run, name |-> name, sentinels |-> s \cup d.sentinels, byConcrete |-> y(b)]
  OBVIOUS
<1>3. [r0 EXCEPT !.sentinels = @ \cup d.sentinels, !.byConcrete = y(@)]
        = [[r0 EXCEPT !.sentinels = @ \cup d.sentinels] EXCEPT !.byConcrete = y(@)]
  OBVIOUS
<1> QED  BY <1>1, <1>2, <1>3 DEF y, Grown

\* What an iteration makes of an entry, old or new.
LEMMA EntryGrows ==
  ASSUME NEW order, NEW run, NEW at, at \subseteq Nat \X Nat, NEW p \in Nat \X Nat,
         \A q \in at : NotAfter(q, p), NEW old,
         old = IF at # {} THEN EntryOf(order, run, at)
               ELSE [run |-> run, name |-> Diag(order, p).name, sentinels |-> {},
                     byConcrete |-> NoEntries]
  PROVE  EntryOf(order, run, at \cup {p}) = Grown(old, Diag(order, p))
<1> DEFINE d  == Diag(order, p)
           nm == Diag(order, EarliestOf(at \cup {p})).name
           s  == UNION {Diag(order, q).sentinels : q \in at}
           b  == BreakdownOf(order, at)
           b2 == BreakdownOf(order, at \cup {p})
           s2 == UNION {Diag(order, q).sentinels : q \in at \cup {p}}
<1>1. old = [run |-> run, name |-> nm, sentinels |-> s, byConcrete |-> b]
  <2>1. CASE at = {}
    <3>1. b = NoEntries
      BY <2>1 DEF BreakdownOf, NoEntries, Listed
    <3>2. nm = d.name
      <4>1. at \cup {p} = {p}
        BY <2>1
      <4> QED  BY <4>1, Alone
    <3>3. s = {}
      BY <2>1
    <3> HIDE DEF s, b, nm
    <3> QED  BY <2>1, <3>1, <3>2, <3>3
  <2>2. CASE at # {}
    <3>1. EarliestOf(at \cup {p}) = EarliestOf(at)
      BY <2>2, EarliestKept
    <3>2. old = EntryOf(order, run, at)
      BY <2>2
    <3> QED  BY <3>1, <3>2 DEF EntryOf
  <2> QED  BY <2>1, <2>2
<1>2. EntryOf(order, run, at \cup {p}) = [run |-> run, name |-> nm, sentinels |-> s2, byConcrete |-> b2]
  BY DEF EntryOf
<1>3. s2 = s \cup d.sentinels
  BY UnionGrows
<1>4. b2 = IF d.concrete = Direct THEN b ELSE Put(b, d.concrete, d.sentinels)
  BY BreakdownPut
<1> HIDE DEF d, nm, s, b, s2, b2
<1>5. Grown(old, d) = [run |-> run, name |-> nm, sentinels |-> s2, byConcrete |-> b2]
  BY <1>1, <1>3, <1>4, Added
<1> QED  BY <1>2, <1>5 DEF d

\* One iteration of the inner loop.
LEMMA AddMakes ==
  ASSUME NEW order, NEW run, NEW places, places \subseteq Nat \X Nat,
         NEW p \in Nat \X Nat, \A q \in places : NotAfter(q, p)
  PROVE  MadeOf(order, run, places \cup {p})
           = AddDiag(MadeOf(order, run, places), Diag(order, p), run)
<1> DEFINE d   == Diag(order, p)
           E   == MadeOf(order, run, places)
           at  == On(order, places, d.key)
           old == IF d.key \in DOMAIN E THEN E[d.key]
                  ELSE [run |-> run, name |-> d.name, sentinels |-> {}, byConcrete |-> NoEntries]
           new == Grown(old, d)
<1>1. On(order, places \cup {p}, d.key) = at \cup {p}
  BY DEF On
<1>2. ASSUME NEW k, k # d.key  PROVE On(order, places \cup {p}, k) = On(order, places, k)
  BY <1>2 DEF On
<1>3. DOMAIN E = {Diag(order, q).key : q \in places}
  BY DEF MadeOf
<1>4. {Diag(order, q).key : q \in places \cup {p}} = DOMAIN E \cup {d.key}
  BY <1>3
<1>5. d.key \in DOMAIN E <=> at # {}
  BY <1>3 DEF On
<1>6. at \subseteq Nat \X Nat /\ \A q \in at : NotAfter(q, p)
  BY DEF On
<1>7. new = EntryOf(order, run, at \cup {p})
  <2>1. at # {} => E[d.key] = EntryOf(order, run, at)
    BY <1>3, <1>5 DEF MadeOf
  <2>2. old = IF at # {} THEN EntryOf(order, run, at)
              ELSE [run |-> run, name |-> d.name, sentinels |-> {}, byConcrete |-> NoEntries]
    <3> HIDE DEF at, E
    <3> QED  BY <1>5, <2>1
  <2> HIDE DEF at, old
  <2>3. EntryOf(order, run, at \cup {p}) = Grown(old, Diag(order, p))
    BY <1>6, <2>2, EntryGrows
  <2> QED  BY <2>3
<1>8. AddDiag(E, d, run) = Put(E, d.key, new)
  BY DEF AddDiag, Grown
<1>9. MadeOf(order, run, places \cup {p}) = Put(E, d.key, EntryOf(order, run, at \cup {p}))
  <2>1. MadeOf(order, run, places \cup {p}) =
          [k \in DOMAIN E \cup {d.key} |-> EntryOf(order, run, On(order, places \cup {p}, k))]
    BY <1>4 DEF MadeOf
  <2>2. ASSUME NEW k \in DOMAIN E \cup {d.key}
        PROVE  EntryOf(order, run, On(order, places \cup {p}, k))
                 = IF k = d.key THEN EntryOf(order, run, at \cup {p}) ELSE E[k]
    <3>1. CASE k = d.key
      BY <1>1, <3>1
    <3>2. CASE k # d.key
      <4>1. E[k] = EntryOf(order, run, On(order, places, k))
        BY <1>3, <3>2 DEF MadeOf
      <4> QED  BY <1>2, <3>2, <4>1
    <3> QED  BY <3>1, <3>2
  <2> HIDE DEF E, d, at
  <2> QED  BY <2>1, <2>2 DEF Put
<1> QED  BY <1>7, <1>8, <1>9

\* A loop ends with what makes each of its steps.
LEMMA VariantLoopIs ==
  ASSUME NEW entries, NEW diags, Len(diags) \in Nat, NEW run, NEW w,
         w[0] = entries,
         \A j \in 1..Len(diags) : w[j] = AddDiag(w[j-1], diags[j], run)
  PROVE  VariantLoop(entries, diags, run) = w[Len(diags)]
<1> DEFINE n == Len(diags)
           Made(f) == [j \in 0..n |-> IF j = 0 THEN entries ELSE AddDiag(f[j-1], diags[j], run)]
           after == CHOOSE f : f = Made(f)
           u == [j \in 0..n |-> w[j]]
<1>1. u = Made(u)
  <2>1. ASSUME NEW j \in 0..n
        PROVE  w[j] = IF j = 0 THEN entries ELSE AddDiag(u[j-1], diags[j], run)
    <3>1. j # 0 => j \in 1..n /\ j - 1 \in 0..n
      OBVIOUS
    <3> QED  BY <3>1
  <2> QED  BY <2>1
<1> HIDE DEF u
<1>2. after = Made(after)
  BY <1>1
<1>3. VariantLoop(entries, diags, run) = after[n]
  BY DEF VariantLoop
<1> HIDE DEF after
<1> DEFINE S == {j \in 0..n : after[j] # w[j]}
<1>4. S = {}
  <2> SUFFICES ASSUME S # {}  PROVE FALSE
    OBVIOUS
  <2>1. PICK m \in S : \A x \in S : m <= x
    <3>1. S \subseteq Nat
      OBVIOUS
    <3> QED  BY <3>1, Least
  <2>2. m # 0
    BY <1>2
  <2>3. m \in 1..n /\ m - 1 \in 0..n /\ m - 1 \notin S
    BY <2>1, <2>2
  <2>4. after[m] = AddDiag(after[m-1], diags[m], run)
    BY <1>2, <2>3
  <2> QED  BY <2>1, <2>3, <2>4
<1>5. n \in 0..n
  OBVIOUS
<1> QED  BY <1>3, <1>4, <1>5

LEMMA ParseLoopIs ==
  ASSUME NEW order, Len(order) \in Nat, NEW run, NEW w,
         w[0] = NoEntries,
         \A i \in 1..Len(order) : w[i] = VariantLoop(w[i-1], reports[order[i]], run)
  PROVE  ParseLoop(order, run) = w[Len(order)]
<1> DEFINE n == Len(order)
           Made(f) == [i \in 0..n |-> IF i = 0 THEN NoEntries
                                      ELSE VariantLoop(f[i-1], reports[order[i]], run)]
           after == CHOOSE f : f = Made(f)
           u == [i \in 0..n |-> w[i]]
<1>1. u = Made(u)
  <2>1. ASSUME NEW i \in 0..n
        PROVE  w[i] = IF i = 0 THEN NoEntries ELSE VariantLoop(u[i-1], reports[order[i]], run)
    <3>1. i # 0 => i \in 1..n /\ i - 1 \in 0..n
      OBVIOUS
    <3> QED  BY <3>1
  <2> QED  BY <2>1
<1> HIDE DEF u
<1>2. after = Made(after)
  BY <1>1
<1>3. ParseLoop(order, run) = after[n]
  BY DEF ParseLoop
<1> HIDE DEF after
<1> DEFINE S == {i \in 0..n : after[i] # w[i]}
<1>4. S = {}
  <2> SUFFICES ASSUME S # {}  PROVE FALSE
    OBVIOUS
  <2>1. PICK m \in S : \A x \in S : m <= x
    <3>1. S \subseteq Nat
      OBVIOUS
    <3> QED  BY <3>1, Least
  <2>2. m # 0
    BY <1>2
  <2>3. m \in 1..n /\ m - 1 \in 0..n /\ m - 1 \notin S
    BY <2>1, <2>2
  <2>4. after[m] = VariantLoop(after[m-1], reports[order[m]], run)
    BY <1>2, <2>3
  <2> QED  BY <2>1, <2>3, <2>4
<1>5. n \in 0..n
  OBVIOUS
<1> QED  BY <1>3, <1>4, <1>5

\* The places passed after j lines of the i-th variant.
Passed(order, i, j) == {p \in Places(order) : NotAfter(p, <<i, j>>)}

LEMMA PlacesAre ==
  ASSUME ReportsTyped, NEW order \in Orders(Variants)
  PROVE  /\ Len(order) \in Nat /\ DOMAIN order = 1..Len(order)
         /\ \A i \in 1..Len(order) : order[i] \in Variants /\ Len(reports[order[i]]) \in Nat
         /\ \A p : p \in Places(order) <=>
              \E i \in 1..Len(order) : \E j \in 1..Len(reports[order[i]]) : p = <<i, j>>
<1>1. order \in [1..Cardinality(Variants) -> Variants] /\ Cardinality(Variants) \in Nat
  BY LayoutAssumption, OrderOnto
<1>2. Len(order) = Cardinality(Variants)
  BY <1>1
<1>3. \A i \in 1..Len(order) : /\ order[i] \in Variants /\ Len(reports[order[i]]) \in Nat
                               /\ DOMAIN reports[order[i]] = 1..Len(reports[order[i]])
  BY <1>1, <1>2, ReportFacts
<1>4. DOMAIN order = 1..Len(order)
  BY <1>1, <1>2
<1>5. ASSUME NEW p
      PROVE  p \in Places(order) <=>
               \E i \in 1..Len(order) : \E j \in 1..Len(reports[order[i]]) : p = <<i, j>>
  BY <1>3, <1>4 DEF Places
<1> QED  BY <1>1, <1>2, <1>3, <1>4, <1>5

\* The inner loop makes what Parse says of the variant's lines, too.
LEMMA VariantMakes ==
  ASSUME ReportsTyped, NEW order \in Orders(Variants), NEW run, NEW i \in 1..Len(order),
         NEW n \in Nat, n = Len(reports[order[i]])
  PROVE  VariantLoop(MadeOf(order, run, Passed(order, i, 0)), reports[order[i]], run)
           = MadeOf(order, run, Passed(order, i, n))
<1> DEFINE w == [j \in 0..n |-> MadeOf(order, run, Passed(order, i, j))]
<1>1. ASSUME NEW j \in 1..n
      PROVE  MadeOf(order, run, Passed(order, i, j))
               = AddDiag(MadeOf(order, run, Passed(order, i, j-1)), reports[order[i]][j], run)
  <2>0. Len(order) \in Nat /\ i \in Nat /\ j \in Nat /\ j - 1 \in Nat
    BY PlacesAre
  <2>1. Passed(order, i, j-1) \subseteq Nat \X Nat
    <3>1. ASSUME NEW p \in Passed(order, i, j-1)  PROVE p \in Nat \X Nat
      <4>1. PICK a \in 1..Len(order) : \E b \in 1..Len(reports[order[a]]) : p = <<a, b>>
        BY PlacesAre DEF Passed
      <4>2. PICK b \in 1..Len(reports[order[a]]) : p = <<a, b>>
        BY <4>1
      <4>3. a \in Nat /\ b \in Nat
        BY <2>0
      <4> QED  BY <4>2, <4>3
    <3> QED  BY <3>1
  <2>2. \A p \in Passed(order, i, j-1) : NotAfter(p, <<i, j>>)
    <3>1. ASSUME NEW p \in Passed(order, i, j-1)  PROVE NotAfter(p, <<i, j>>)
      <4>1. p[1] \in Nat /\ p[2] \in Nat
        BY <2>1
      <4>2. NotAfter(p, <<i, j-1>>)
        BY DEF Passed
      <4> QED  BY <2>0, <4>1, <4>2 DEF NotAfter
    <3> QED  BY <3>1
  <2>3. Passed(order, i, j) = Passed(order, i, j-1) \cup {<<i, j>>}
    <3>1. <<i, j>> \in Passed(order, i, j)
      <4>1. <<i, j>> \in Places(order)
        BY PlacesAre
      <4>2. NotAfter(<<i, j>>, <<i, j>>)
        BY <2>0 DEF NotAfter
      <4> QED  BY <4>1, <4>2 DEF Passed
    <3>2. Passed(order, i, j-1) \subseteq Passed(order, i, j)
      BY <2>2 DEF Passed
    <3>3. ASSUME NEW p \in Passed(order, i, j), p # <<i, j>>  PROVE p \in Passed(order, i, j-1)
      <4>1. PICK a \in 1..Len(order) : \E b \in 1..Len(reports[order[a]]) : p = <<a, b>>
        BY PlacesAre DEF Passed
      <4>2. PICK b \in 1..Len(reports[order[a]]) : p = <<a, b>>
        BY <4>1
      <4>3. a \in Nat /\ b \in Nat
        BY <2>0
      <4>4. a < i \/ (a = i /\ b <= j)
        BY <4>2 DEF Passed, NotAfter
      <4>5. ~ (a = i /\ b = j)
        BY <3>3, <4>2
      <4>6. a < i \/ (a = i /\ b <= j - 1)
        BY <2>0, <4>3, <4>4, <4>5
      <4>7. NotAfter(p, <<i, j-1>>)
        BY <4>2, <4>6 DEF NotAfter
      <4> QED  BY <4>7 DEF Passed
    <3> QED  BY <3>1, <3>2, <3>3
  <2>4. Diag(order, <<i, j>>) = reports[order[i]][j]
    BY DEF Diag
  <2>5. <<i, j>> \in Nat \X Nat
    BY <2>0
  <2> QED  BY <2>1, <2>2, <2>3, <2>4, <2>5, AddMakes
<1>2. w[0] = MadeOf(order, run, Passed(order, i, 0)) /\ w[n] = MadeOf(order, run, Passed(order, i, n))
  OBVIOUS
<1>3. \A j \in 1..n : w[j] = AddDiag(w[j-1], reports[order[i]][j], run)
  <2> SUFFICES ASSUME NEW j \in 1..n  PROVE w[j] = AddDiag(w[j-1], reports[order[i]][j], run)
    OBVIOUS
  <2>1. j \in 0..n /\ j - 1 \in 0..n
    OBVIOUS
  <2> QED  BY <1>1, <2>1
<1> HIDE DEF w
<1>4. VariantLoop(MadeOf(order, run, Passed(order, i, 0)), reports[order[i]], run)
        = w[Len(reports[order[i]])]
  <2> DEFINE diags == reports[order[i]]
  <2>1. Len(diags) \in Nat /\ \A j \in 1..Len(diags) : w[j] = AddDiag(w[j-1], diags[j], run)
    BY <1>3
  <2> HIDE DEF diags
  <2>2. VariantLoop(w[0], diags, run) = w[Len(diags)]
    BY <2>1, VariantLoopIs
  <2> QED  BY <1>2, <2>2 DEF diags
<1> QED  BY <1>2, <1>4

LEMMA LoopMakes ==
  ASSUME ReportsTyped, NEW order \in Orders(Variants), NEW run
  PROVE  ParseLoop(order, run) = Parse(order, run)
<1> DEFINE N == Len(order)
           L(i) == Len(reports[order[i]])
           Q(i) == {p \in Places(order) : p[1] <= i}
           w == [i \in 0..N |-> MadeOf(order, run, Q(i))]
<1>1. N \in Nat /\ \A i \in 1..N : L(i) \in Nat
  BY PlacesAre
<1>2. \A p \in Places(order) :
        \E a \in 1..N : \E b \in 1..L(a) : p = <<a, b>>
  BY PlacesAre
<1>3. ASSUME NEW p \in Places(order)
      PROVE  p[1] \in 1..N /\ p[2] \in Nat \ {0} /\ p[2] <= L(p[1])
  <2>1. PICK a \in 1..N : \E b \in 1..L(a) : p = <<a, b>>
    BY <1>2
  <2>2. PICK b \in 1..L(a) : p = <<a, b>>
    BY <2>1
  <2>3. L(a) \in Nat
    BY <1>1
  <2> HIDE DEF L
  <2> QED  BY <2>2, <2>3
<1>4. ASSUME NEW i \in 1..N
      PROVE  MadeOf(order, run, Q(i)) = VariantLoop(MadeOf(order, run, Q(i-1)), reports[order[i]], run)
  <2>1. Passed(order, i, 0) = Q(i-1)
    BY <1>1, <1>3 DEF Passed, NotAfter
  <2>2. Passed(order, i, L(i)) = Q(i)
    BY <1>1, <1>3 DEF Passed, NotAfter
  <2>3. L(i) \in Nat
    BY <1>1
  <2> QED  BY <2>1, <2>2, <2>3, VariantMakes
<1>5. Q(0) = {} /\ Q(N) = Places(order)
  BY <1>1, <1>3
<1>6. MadeOf(order, run, {}) = NoEntries
  BY DEF MadeOf, NoEntries
<1>7. w[0] = NoEntries /\ w[N] = MadeOf(order, run, Places(order))
  <2>1. 0 \in 0..N /\ N \in 0..N
    BY <1>1
  <2>2. w[0] = MadeOf(order, run, Q(0)) /\ w[N] = MadeOf(order, run, Q(N))
    BY <2>1
  <2> HIDE DEF w, Q
  <2> QED  BY <1>5, <1>6, <2>2
<1>8. \A i \in 1..N : w[i] = VariantLoop(w[i-1], reports[order[i]], run)
  <2> SUFFICES ASSUME NEW i \in 1..N  PROVE w[i] = VariantLoop(w[i-1], reports[order[i]], run)
    OBVIOUS
  <2>1. i \in 0..N /\ i - 1 \in 0..N
    BY <1>1
  <2>2. w[i] = MadeOf(order, run, Q(i)) /\ w[i-1] = MadeOf(order, run, Q(i-1))
    BY <2>1
  <2> QED  BY <1>4, <2>2
<1> HIDE DEF w
<1> QED  BY <1>1, <1>7, <1>8, ParseLoopIs, ParseMade

\* Whatever errsweep prints, in whatever order its variants come, the loops of
\* the parser make what Parse says (cache.go:230-269).
THEOREM ParserComputes == Spec => []ParseComputed
<1>1. TypeOK => ReportsTyped
  BY DEF TypeOK, ReportsTyped
<1>2. TypeOK => ParseComputed
  BY <1>1, LoopMakes DEF ParseComputed
<1> QED  BY <1>2, TypeCorrect, PTL
=============================================================================
