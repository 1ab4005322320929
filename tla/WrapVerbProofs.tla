--------------------------- MODULE WrapVerbProofs ---------------------------
(***************************************************************************)
(* Proof that the scan of a format finds the argument fmt wraps first, for *)
(* formats of any length with any flags, widths and precisions.            *)
(***************************************************************************)
EXTENDS WrapVerb, WellFoundedInduction, FiniteSetTheorems, TLAPS

-----------------------------------------------------------------------------
(* Loops over sequences.                                                   *)

LEMMA SmallestOf ==
  ASSUME NEW S, S \subseteq Nat, S # {}  PROVE  \E m \in S : \A x \in S : m <= x
<1> DEFINE R == OpToRel(<, Nat)
<1>1. IsWellFoundedOn(R, Nat)
  BY NatLessThanWellFounded
<1>2. R = {ss \in Nat \X Nat : ss[1] < ss[2]}
  BY DEF OpToRel
<1> HIDE DEF R
<1>3. PICK m \in S : \A x \in S : ~ (<<x, m>> \in R)
  BY <1>1, WFMin
<1>4. ASSUME NEW x \in S  PROVE m <= x
  <2>1. m \in Nat /\ x \in Nat /\ <<x, m>> \in Nat \X Nat
    BY <1>3
  <2>2. ~ (<<x, m>>[1] < <<x, m>>[2])
    BY <1>2, <1>3, <2>1
  <2> QED  BY <2>1, <2>2
<1> QED  BY <1>3, <1>4

\* w is the course of a loop over s that starts from `base` and takes `step`.
Course(w, base, step, s, n) ==
  w[0] = base /\ \A j \in 1..n : w[j] = step[<<w[j-1], s[j]>>]

LEMMA LoopRuns ==
  ASSUME NEW S, NEW X, NEW step \in [S \X X -> S], NEW base \in S,
         NEW n \in Nat, NEW s \in [1..n -> X]
  PROVE  \E w \in [0..n -> S] : Course(w, base, step, s, n)
<1> DEFINE Runs(k) == \E w \in [0..k -> S] : /\ w[0] = base
                                             /\ \A j \in 1..k : w[j] = step[<<w[j-1], s[j]>>]
           Stuck == {k \in 0..n : ~Runs(k)}
<1>1. Runs(0)
  <2> DEFINE w == [j \in 0..0 |-> base]
  <2>1. w \in [0..0 -> S] /\ w[0] = base /\ \A j \in 1..0 : FALSE
    OBVIOUS
  <2> HIDE DEF w
  <2> QED  BY <2>1
<1>2. ASSUME NEW k \in 1..n, Runs(k-1)  PROVE Runs(k)
  <2>1. PICK w \in [0..(k-1) -> S] : /\ w[0] = base
                                     /\ \A j \in 1..(k-1) : w[j] = step[<<w[j-1], s[j]>>]
    BY <1>2
  <2>2. step[<<w[k-1], s[k]>>] \in S
    <3>1. w[k-1] \in S /\ s[k] \in X
      OBVIOUS
    <3>2. <<w[k-1], s[k]>> \in S \X X
      BY <3>1
    <3> QED  BY <3>2
  <2> DEFINE u == [j \in 0..k |-> IF j = k THEN step[<<w[k-1], s[k]>>] ELSE w[j]]
  <2>3. u \in [0..k -> S] /\ u[0] = base
    BY <2>1, <2>2
  <2>4. ASSUME NEW j \in 1..k  PROVE u[j] = step[<<u[j-1], s[j]>>]
    <3>1. j \in 0..k /\ j - 1 \in 0..k /\ j - 1 # k
      OBVIOUS
    <3>2. u[j-1] = w[j-1]
      BY <3>1
    <3>3. CASE j = k
      BY <3>1, <3>2, <3>3
    <3>4. CASE j # k
      <4>1. j \in 1..(k-1)
        BY <3>4
      <4> QED  BY <2>1, <3>1, <3>2, <3>4, <4>1
    <3> QED  BY <3>3, <3>4
  <2> HIDE DEF u
  <2> QED  BY <2>3, <2>4
<1> HIDE DEF Runs
<1>3. Stuck = {}
  <2> SUFFICES ASSUME Stuck # {}  PROVE FALSE
    OBVIOUS
  <2>1. PICK m \in Stuck : \A x \in Stuck : m <= x
    <3>1. Stuck \subseteq Nat
      OBVIOUS
    <3> QED  BY <3>1, SmallestOf
  <2>2. m # 0
    BY <1>1
  <2>3. m \in 1..n /\ m - 1 \in 0..n /\ m - 1 \notin Stuck
    BY <2>1, <2>2
  <2> QED  BY <1>2, <2>1, <2>3
<1>4. Runs(n)
  BY <1>3
<1> QED  BY <1>4 DEF Runs, Course

-----------------------------------------------------------------------------
(* The scan.                                                               *)

Scans == [part : {"text", "verb"}, index : Nat, at : Nat \cup {-1}]

\* In text or in a verb after n arguments, and at a %w.
Reached(part, index, at) == [part |-> part, index |-> index, at |-> at]
Idle(n)   == Reached("text", n, -1)
InVerb(n) == Reached("verb", n, -1)
Found(n)  == Reached("verb", n, n)

WithPart(r, part)   == [r EXCEPT !.part = part]
WithIndex(r, index) == [r EXCEPT !.index = index]
WithAt(r, at)       == [r EXCEPT !.at = at]
PastVerb(r)         == [r EXCEPT !.part = "text", !.index = @ + 1]

LEMMA Fields ==
  ASSUME NEW p, NEW i, NEW a, NEW x
  PROVE  /\ WithPart(Reached(p, i, a), x) = Reached(x, i, a)
         /\ WithIndex(Reached(p, i, a), x) = Reached(p, x, a)
         /\ WithAt(Reached(p, i, a), x) = Reached(p, i, x)
<1>1. PICK r : r = Reached(p, i, a)
  OBVIOUS
<1>2. r = [part |-> p, index |-> i, at |-> a]
  BY <1>1 DEF Reached
<1>3. [r EXCEPT !.part = x] = [part |-> x, index |-> i, at |-> a]
  BY <1>2
<1>4. [r EXCEPT !.index = x] = [part |-> p, index |-> x, at |-> a]
  BY <1>2
<1>5. [r EXCEPT !.at = x] = [part |-> p, index |-> i, at |-> x]
  BY <1>2
<1> QED  BY <1>1, <1>3, <1>4, <1>5 DEF WithPart, WithIndex, WithAt, Reached

LEMMA FieldsOf ==
  ASSUME NEW p, NEW i, NEW a
  PROVE  Reached(p, i, a).part = p /\ Reached(p, i, a).index = i /\ Reached(p, i, a).at = a
BY DEF Reached

\* ScanChar, an update at a time.
LEMMA ScanCharSets ==
  ASSUME NEW r, r.at = -1
  PROVE  /\ r.part = "text" => ScanChar(r, "v") = r /\ ScanChar(r, "%") = WithPart(r, "verb")
         /\ r.part = "verb" => /\ ScanChar(r, "0") = r
                               /\ ScanChar(r, "*") = WithIndex(r, r.index + 1)
                               /\ ScanChar(r, "w") = WithAt(r, r.index)
                               /\ ScanChar(r, "%") = WithPart(r, "text")
                               /\ ScanChar(r, "v") = PastVerb(r)
<1>1. ~(r.at >= 0)
  OBVIOUS
<1>2. CASE r.part = "text"
  BY <1>1, <1>2 DEF ScanChar, WithPart
<1>3. CASE r.part = "verb"
  BY <1>1, <1>3 DEF ScanChar, WithPart, WithIndex, WithAt, PastVerb
<1> QED  BY <1>2, <1>3

LEMMA PastVerbIs ==
  ASSUME NEW i, NEW a, NEW p, NEW j, j = i + 1
  PROVE  PastVerb(Reached(p, i, a)) = Reached("text", j, a)
<1>1. PICK r : r = Reached(p, i, a)
  OBVIOUS
<1>2. r = [part |-> p, index |-> i, at |-> a]
  BY <1>1 DEF Reached
<1>3. PICK q : q = [r EXCEPT !.part = "text"]
  OBVIOUS
<1>4. q = [part |-> "text", index |-> i, at |-> a]
  BY <1>2, <1>3
<1>5. [q EXCEPT !.index = j] = [part |-> "text", index |-> j, at |-> a]
  BY <1>4
<1>6. [r EXCEPT !.part = "text", !.index = @ + 1] = [q EXCEPT !.index = j]
  <2>1. q.index + 1 = j
    BY <1>4
  <2> QED  BY <1>3, <2>1
<1> QED  BY <1>1, <1>5, <1>6 DEF Reached, PastVerb

LEMMA ScanCharIs ==
  ASSUME NEW i \in Nat
  PROVE  /\ ScanChar(Idle(i), "v") = Idle(i)
         /\ ScanChar(Idle(i), "%") = InVerb(i)
         /\ ScanChar(InVerb(i), "0") = InVerb(i)
         /\ ScanChar(InVerb(i), "*") = InVerb(i + 1)
         /\ ScanChar(InVerb(i), "w") = Found(i)
         /\ ScanChar(InVerb(i), "%") = Idle(i)
         /\ ScanChar(InVerb(i), "v") = Idle(i + 1)
<1> DEFINE r == Idle(i)
           q == InVerb(i)
<1>1. r.at = -1 /\ r.part = "text" /\ q.at = -1 /\ q.part = "verb" /\ q.index = i
  BY FieldsOf DEF Idle, InVerb
<1>2. WithPart(r, "verb") = InVerb(i)
  BY Fields DEF Idle, InVerb
<1>3. WithIndex(q, i + 1) = InVerb(i + 1) /\ WithAt(q, i) = Found(i) /\ WithPart(q, "text") = Idle(i)
  BY Fields DEF Idle, InVerb, Found
<1>4. PastVerb(q) = Idle(i + 1)
  BY PastVerbIs DEF InVerb, Idle
<1> HIDE DEF r, q
<1>5. ScanChar(r, "v") = r /\ ScanChar(r, "%") = WithPart(r, "verb")
  BY <1>1, ScanCharSets
<1>6. /\ ScanChar(q, "0") = q /\ ScanChar(q, "*") = WithIndex(q, i + 1)
      /\ ScanChar(q, "w") = WithAt(q, i) /\ ScanChar(q, "%") = WithPart(q, "text")
      /\ ScanChar(q, "v") = PastVerb(q)
  BY <1>1, ScanCharSets
<1> QED  BY <1>2, <1>3, <1>4, <1>5, <1>6 DEF r, q

LEMMA ScanCharTyped ==
  ASSUME NEW scan \in Scans, NEW c  PROVE ScanChar(scan, c) \in Scans
<1>0. /\ scan.part \in {"text", "verb"} /\ scan.index \in Nat /\ scan.at \in Nat \cup {-1}
      /\ scan = [part |-> scan.part, index |-> scan.index, at |-> scan.at]
  BY DEF Scans
<1>1. ScanChar(scan, c) \in {scan, [scan EXCEPT !.index = @ + 1], [scan EXCEPT !.at = scan.index],
                            [scan EXCEPT !.part = "text"], [scan EXCEPT !.part = "verb"],
                            [scan EXCEPT !.part = "text", !.index = @ + 1]}
  BY DEF ScanChar
<1>2. scan.index + 1 \in Nat
  BY <1>0
<1> QED  BY <1>0, <1>1, <1>2 DEF Scans

\* w is the course of a scan, which ends where it does.
Scanning(w, start, format, n) ==
  w[0] = start /\ \A j \in 1..n : w[j] = ScanChar(w[j-1], format[j])

LEMMA ScannedIs ==
  ASSUME NEW start, NEW format, NEW n \in Nat, Len(format) = n, NEW w,
         Scanning(w, start, format, n)
  PROVE  Scanned(start, format) = w[n]
<1> USE DEF Scanning
<1> DEFINE Made(f) == [j \in 0..Len(format) |-> IF j = 0 THEN start ELSE ScanChar(f[j-1], format[j])]
           scan == CHOOSE f : f = Made(f)
           u == [j \in 0..n |-> w[j]]
<1>1. u = Made(u)
  <2>1. ASSUME NEW j \in 0..n
        PROVE  w[j] = IF j = 0 THEN start ELSE ScanChar(u[j-1], format[j])
    <3>1. j # 0 => j \in 1..n /\ j - 1 \in 0..n
      OBVIOUS
    <3> QED  BY <3>1
  <2> QED  BY <2>1
<1> HIDE DEF u
<1>2. scan = Made(scan)
  BY <1>1
<1>3. Scanned(start, format) = scan[n]
  BY DEF Scanned
<1> HIDE DEF scan
<1> DEFINE S == {j \in 0..n : scan[j] # w[j]}
<1>4. S = {}
  <2> SUFFICES ASSUME S # {}  PROVE FALSE
    OBVIOUS
  <2>1. PICK m \in S : \A x \in S : m <= x
    <3>1. S \subseteq Nat
      OBVIOUS
    <3> QED  BY <3>1, SmallestOf
  <2>2. m # 0
    BY <1>2
  <2>3. m \in 1..n /\ m - 1 \in 0..n /\ m - 1 \notin S
    BY <2>1, <2>2
  <2>4. scan[m] = ScanChar(scan[m-1], format[m])
    BY <1>2, <2>3
  <2> QED  BY <2>1, <2>3, <2>4
<1>5. n \in 0..n
  OBVIOUS
<1> QED  BY <1>3, <1>4, <1>5

LEMMA ScanRuns ==
  ASSUME NEW start \in Scans, NEW s \in Seq(Chars)
  PROVE  \E w \in [0..Len(s) -> Scans] :
           Scanning(w, start, s, Len(s)) /\ Scanned(start, s) = w[Len(s)]
<1> DEFINE step == [p \in Scans \X Chars |-> ScanChar(p[1], p[2])]
<1>1. step \in [Scans \X Chars -> Scans]
  BY ScanCharTyped
<1>2. Len(s) \in Nat /\ s \in [1..Len(s) -> Chars]
  OBVIOUS
<1>3. PICK w \in [0..Len(s) -> Scans] :
        w[0] = start /\ \A j \in 1..Len(s) : w[j] = step[<<w[j-1], s[j]>>]
  <2> HIDE DEF step
  <2>1. \E w \in [0..Len(s) -> Scans] : Course(w, start, step, s, Len(s))
    BY <1>1, <1>2, LoopRuns
  <2> QED  BY <2>1 DEF Course
<1>4. ASSUME NEW j \in 1..Len(s)  PROVE w[j] = ScanChar(w[j-1], s[j])
  <2>1. w[j-1] \in Scans /\ s[j] \in Chars
    BY <1>2
  <2>2. <<w[j-1], s[j]>> \in Scans \X Chars
    BY <2>1
  <2> QED  BY <1>3, <2>2
<1>5. Scanning(w, start, s, Len(s))
  BY <1>3, <1>4 DEF Scanning
<1>6. Scanned(start, s) = w[Len(s)]
  BY <1>2, <1>5, ScannedIs
<1> QED  BY <1>5, <1>6

LEMMA ScannedTyped ==
  ASSUME NEW start \in Scans, NEW s \in Seq(Chars)  PROVE Scanned(start, s) \in Scans
<1>1. Len(s) \in 0..Len(s)
  OBVIOUS
<1> QED  BY <1>1, ScanRuns

\* A scan of two parts goes on where the first has ended.
LEMMA ScanGoesOn ==
  ASSUME NEW start \in Scans, NEW s \in Seq(Chars), NEW t \in Seq(Chars)
  PROVE  Scanned(start, s \o t) = Scanned(Scanned(start, s), t)
<1> DEFINE m == Len(s)
           n == Len(t)
<1>1. PICK w \in [0..m -> Scans] :
        /\ w[0] = start /\ \A j \in 1..m : w[j] = ScanChar(w[j-1], s[j])
        /\ Scanned(start, s) = w[m]
  BY ScanRuns DEF Scanning
<1>2. Scanned(start, s) \in Scans
  BY ScannedTyped
<1>3. PICK v \in [0..n -> Scans] :
        /\ v[0] = w[m] /\ \A j \in 1..n : v[j] = ScanChar(v[j-1], t[j])
        /\ Scanned(w[m], t) = v[n]
  BY <1>1, <1>2, ScanRuns DEF Scanning
<1>4. /\ m \in Nat /\ n \in Nat /\ Len(s \o t) = m + n
      /\ \A j \in 1..(m + n) : (s \o t)[j] = IF j <= m THEN s[j] ELSE t[j-m]
  OBVIOUS
<1> DEFINE u == [j \in 0..(m + n) |-> IF j <= m THEN w[j] ELSE v[j-m]]
<1> HIDE DEF m, n
<1>5. u[0] = start /\ u[m + n] = v[n]
  <2>1. 0 \in 0..(m + n) /\ m + n \in 0..(m + n) /\ 0 <= m /\ (m + n) - m = n
    BY <1>4
  <2>2. CASE n = 0
    BY <1>1, <1>3, <1>4, <2>1, <2>2
  <2>3. CASE n # 0
    <3>1. ~(m + n <= m)
      BY <1>4, <2>3
    <3> QED  BY <1>1, <2>1, <3>1
  <2> QED  BY <2>2, <2>3
<1>6. ASSUME NEW j \in 1..(m + n)  PROVE u[j] = ScanChar(u[j-1], (s \o t)[j])
  <2>1. j \in 0..(m + n) /\ j - 1 \in 0..(m + n)
    BY <1>4
  <2>2. CASE j <= m
    <3>1. j \in 1..m /\ j - 1 <= m
      BY <1>4, <2>2
    <3> QED  BY <1>1, <1>4, <2>1, <2>2, <3>1
  <2>3. CASE j = m + 1
    <3>1. j - m = 1 /\ 1 \in 1..n /\ ~(j <= m) /\ j - 1 = m
      BY <1>4, <2>3
    <3>2. u[j] = v[1] /\ u[j-1] = w[m]
      BY <2>1, <3>1, <1>4
    <3>3. v[1] = ScanChar(v[0], t[1])
      BY <1>3, <3>1
    <3> QED  BY <1>3, <1>4, <3>1, <3>2, <3>3
  <2>4. CASE j > m + 1
    <3>1. j - m \in 1..n /\ ~(j <= m) /\ ~(j - 1 <= m) /\ (j - 1) - m = (j - m) - 1
      BY <1>4, <2>4
    <3>2. u[j] = v[j-m] /\ u[j-1] = v[(j-m)-1]
      BY <2>1, <3>1
    <3> QED  BY <1>3, <1>4, <3>1, <3>2
  <2>5. j <= m \/ j = m + 1 \/ j > m + 1
    <3>1. j \in Nat
      BY <1>4
    <3> QED  BY <1>4, <3>1
  <2> HIDE DEF u
  <2> QED  BY <2>2, <2>3, <2>4, <2>5
<1> HIDE DEF u
<1>7. Scanned(start, s \o t) = u[m + n]
  <2>1. m + n \in Nat
    BY <1>4
  <2>2. Scanning(u, start, s \o t, m + n)
    BY <1>5, <1>6 DEF Scanning
  <2> QED  BY <1>4, <2>1, <2>2, ScannedIs
<1> QED  BY <1>1, <1>3, <1>5, <1>7

\* Of no character, and of one.
LEMMA ScanFew ==
  ASSUME NEW start, NEW c
  PROVE  Scanned(start, <<>>) = start /\ Scanned(start, <<c>>) = ScanChar(start, c)
<1>1. Scanned(start, <<>>) = start
  <2> DEFINE w == [j \in 0..0 |-> start]
  <2>1. Scanning(w, start, <<>>, 0) /\ w[0] = start
    BY DEF Scanning
  <2> HIDE DEF w
  <2>2. Len(<<>>) = 0 /\ 0 \in Nat
    OBVIOUS
  <2> QED  BY <2>1, <2>2, ScannedIs
<1>2. Scanned(start, <<c>>) = ScanChar(start, c)
  <2> DEFINE w == [j \in 0..1 |-> IF j = 0 THEN start ELSE ScanChar(start, c)]
  <2>1. w[0] = start /\ w[1] = ScanChar(start, c)
    OBVIOUS
  <2>2. Scanning(w, start, <<c>>, 1)
    BY DEF Scanning
  <2> HIDE DEF w
  <2>3. Len(<<c>>) = 1 /\ 1 \in Nat
    OBVIOUS
  <2> QED  BY <2>1, <2>2, <2>3, ScannedIs
<1> QED  BY <1>1, <1>2

StarsUpTo(mods, k) == {j \in 1..k : mods[j] = "*"}

LEMMA StarsCount ==
  ASSUME NEW mods, NEW k \in Nat
  PROVE  /\ IsFiniteSet(StarsUpTo(mods, k)) /\ Cardinality(StarsUpTo(mods, k)) \in Nat
         /\ Cardinality(StarsUpTo(mods, 0)) = 0
         /\ k # 0 => Cardinality(StarsUpTo(mods, k))
                       = Cardinality(StarsUpTo(mods, k-1)) + (IF mods[k] = "*" THEN 1 ELSE 0)
<1>1. ASSUME NEW n \in Nat  PROVE IsFiniteSet(StarsUpTo(mods, n)) /\ Cardinality(StarsUpTo(mods, n)) \in Nat
  <2>1. IsFiniteSet(1..n)
    BY FS_Interval
  <2>2. StarsUpTo(mods, n) \subseteq 1..n
    BY DEF StarsUpTo
  <2>3. IsFiniteSet(StarsUpTo(mods, n))
    BY <2>1, <2>2, FS_Subset
  <2> QED  BY <2>3, FS_CardinalityType
<1>2. Cardinality(StarsUpTo(mods, 0)) = 0
  <2>1. StarsUpTo(mods, 0) = {}
    BY DEF StarsUpTo
  <2> QED  BY <2>1, FS_EmptySet
<1>3. ASSUME k # 0
      PROVE  Cardinality(StarsUpTo(mods, k))
               = Cardinality(StarsUpTo(mods, k-1)) + (IF mods[k] = "*" THEN 1 ELSE 0)
  <2>1. k - 1 \in Nat /\ \A j \in 1..k : j \in 1..(k-1) \/ j = k
    BY <1>3
  <2>2. \A j \in 1..(k-1) : j \in 1..k
    BY <1>3
  <2>3. k \in 1..k /\ k \notin 1..(k-1)
    BY <1>3
  <2>4. IsFiniteSet(StarsUpTo(mods, k-1)) /\ k \notin StarsUpTo(mods, k-1)
    BY <1>1, <2>1, <2>3 DEF StarsUpTo
  <2>5. CASE mods[k] = "*"
    <3>1. StarsUpTo(mods, k) = StarsUpTo(mods, k-1) \cup {k}
      BY <2>1, <2>2, <2>3, <2>5 DEF StarsUpTo
    <3>2. Cardinality(StarsUpTo(mods, k-1) \cup {k}) = Cardinality(StarsUpTo(mods, k-1)) + 1
      BY <2>4, FS_AddElement
    <3> QED  BY <2>5, <3>1, <3>2
  <2>6. CASE mods[k] # "*"
    <3>1. StarsUpTo(mods, k) = StarsUpTo(mods, k-1)
      BY <2>1, <2>2, <2>6 DEF StarsUpTo
    <3>2. Cardinality(StarsUpTo(mods, k-1)) \in Nat
      BY <1>1, <2>1
    <3> QED  BY <2>6, <3>1, <3>2
  <2> QED  BY <2>5, <2>6
<1> QED  BY <1>1, <1>2, <1>3

\* Flags change nothing, each star takes an argument.
LEMMA ScanInVerb ==
  ASSUME NEW i \in Nat, NEW mods \in Seq({"0", "*"})
  PROVE  Scanned(InVerb(i), mods) = InVerb(i + Cardinality({j \in DOMAIN mods : mods[j] = "*"}))
<1> DEFINE n == Len(mods)
           C(k) == Cardinality(StarsUpTo(mods, k))
           w == [k \in 0..n |-> InVerb(i + C(k))]
<1>1. n \in Nat /\ \A k \in 1..n : mods[k] = "0" \/ mods[k] = "*"
  OBVIOUS
<1>2. C(0) = 0 /\ \A k \in 0..n : C(k) \in Nat
  BY <1>1, StarsCount
<1>3. C(n) = Cardinality({j \in DOMAIN mods : mods[j] = "*"})
  BY DEF StarsUpTo
<1>4. \A k \in 1..n : C(k) = C(k-1) + (IF mods[k] = "*" THEN 1 ELSE 0)
  BY <1>1, StarsCount
<1> HIDE DEF C
<1>5. w[0] = InVerb(i) /\ w[n] = InVerb(i + C(n))
  <2>1. 0 \in 0..n /\ n \in 0..n /\ i + C(0) = i
    BY <1>1, <1>2
  <2> QED  BY <2>1
<1>6. ASSUME NEW k \in 1..n  PROVE w[k] = ScanChar(w[k-1], mods[k])
  <2>1. k \in 0..n /\ k - 1 \in 0..n /\ C(k-1) \in Nat
    BY <1>1, <1>2
  <2>2. w[k] = InVerb(i + C(k)) /\ w[k-1] = InVerb(i + C(k-1))
    BY <2>1
  <2> HIDE DEF w
  <2>3. i + C(k-1) \in Nat
    BY <2>1
  <2>4. CASE mods[k] = "*"
    <3>1. i + C(k) = (i + C(k-1)) + 1
      BY <1>4, <2>1, <2>4
    <3> QED  BY <2>2, <2>3, <2>4, <3>1, ScanCharIs
  <2>5. CASE mods[k] = "0"
    <3>1. C(k) = C(k-1)
      BY <1>4, <2>1, <2>5
    <3> QED  BY <2>2, <2>3, <2>5, <3>1, ScanCharIs
  <2> QED  BY <1>1, <2>4, <2>5
<1> HIDE DEF w
<1>7. Scanning(w, InVerb(i), mods, n)
  BY <1>5, <1>6 DEF Scanning
<1> QED  BY <1>1, <1>3, <1>5, <1>7, ScannedIs

\* Once it is found, the index stands.
LEMMA ScanStands ==
  ASSUME NEW scan \in Scans, scan.at >= 0, NEW s \in Seq(Chars)
  PROVE  Scanned(scan, s) = scan
<1> DEFINE n == Len(s)
           w == [j \in 0..n |-> scan]
<1>1. n \in Nat /\ w[0] = scan /\ w[n] = scan
  OBVIOUS
<1>2. \A c : ScanChar(scan, c) = scan
  BY DEF ScanChar
<1>3. ASSUME NEW j \in 1..n  PROVE w[j] = ScanChar(w[j-1], s[j])
  <2>1. j \in 0..n /\ j - 1 \in 0..n
    OBVIOUS
  <2> QED  BY <1>2, <2>1
<1>4. Scanning(w, scan, s, n)
  <2> HIDE DEF w
  <2> QED  BY <1>1, <1>3 DEF Scanning
<1> HIDE DEF w
<1> QED  BY <1>1, <1>4, ScannedIs

-----------------------------------------------------------------------------
(* Directives.                                                             *)

LEMMA WrittenTyped ==
  ASSUME NEW d \in Directives
  PROVE  /\ Written(d) \in Seq(Chars) /\ Consumes(d) \in Nat
         /\ d.mods \in Seq({"0", "*"}) /\ Stars(d) \in Nat /\ d.verb \in {"text", "%", "v", "w"}
<1>1. d.mods \in Seq({"0", "*"}) /\ d.verb \in {"text", "%", "v", "w"}
  BY DEF Directives
<1>2. Stars(d) \in Nat
  <2>1. DOMAIN d.mods = 1..Len(d.mods) /\ Len(d.mods) \in Nat
    <3> DEFINE mods == d.mods
    <3>1. mods \in Seq({"0", "*"})
      BY <1>1
    <3> HIDE DEF mods
    <3>2. DOMAIN mods = 1..Len(mods) /\ Len(mods) \in Nat
      BY <3>1
    <3> QED  BY <3>2 DEF mods
  <2>2. Stars(d) = Cardinality(StarsUpTo(d.mods, Len(d.mods)))
    BY <2>1 DEF Stars, StarsUpTo
  <2> QED  BY <2>1, <2>2, StarsCount
<1>3. Consumes(d) \in Nat
  BY <1>2 DEF Consumes
<1>4. CASE d.verb = "text"
  BY <1>1, <1>2, <1>3, <1>4 DEF Written, Chars
<1>5. CASE d.verb # "text"
  <2>1. d.mods \in Seq(Chars) /\ <<"%">> \in Seq(Chars) /\ <<d.verb>> \in Seq(Chars)
    BY <1>1, <1>5 DEF Chars
  <2>2. \A s, t \in Seq(Chars) : s \o t \in Seq(Chars)
    OBVIOUS
  <2>3. Written(d) = <<"%">> \o d.mods \o <<d.verb>>
    BY <1>5 DEF Written
  <2>4. Written(d) \in Seq(Chars)
    BY <2>1, <2>2, <2>3
  <2> QED  BY <1>1, <1>2, <1>3, <2>4
<1> QED  BY <1>4, <1>5

\* Between two directives the scan is idle, and counts what the next one takes
\* or finds its %w.
LEMMA ScanDirective ==
  ASSUME NEW d \in Directives, NEW i \in Nat
  PROVE  Scanned(Idle(i), Written(d))
           = IF d.verb = "w" THEN Found(i + Stars(d)) ELSE Idle(i + Consumes(d))
<1>1. d.mods \in Seq({"0", "*"}) /\ Stars(d) \in Nat /\ d.verb \in {"text", "%", "v", "w"}
  BY WrittenTyped
<1>2. CASE d.verb = "text"
  <2>1. Written(d) = <<"v">> /\ d.mods = <<>>
    BY <1>2 DEF Written, Directives
  <2>2. Scanned(Idle(i), <<"v">>) = Idle(i)
    BY ScanFew, ScanCharIs
  <2>3. Stars(d) = 0
    <3>1. {j \in DOMAIN d.mods : d.mods[j] = "*"} = {}
      BY <2>1
    <3> QED  BY <3>1, FS_EmptySet DEF Stars
  <2>4. i + Consumes(d) = i
    BY <1>2, <2>3 DEF Consumes
  <2> QED  BY <1>2, <2>1, <2>2, <2>4
<1>3. CASE d.verb # "text"
  <2> DEFINE mods == d.mods
             n == i + Stars(d)
             a == <<"%">>
             b == a \o mods
             e == <<d.verb>>
  <2>1. Written(d) = b \o e
    BY <1>3 DEF Written
  <2>2. a \in Seq(Chars) /\ mods \in Seq(Chars) /\ e \in Seq(Chars)
    BY <1>1, <1>3 DEF Chars
  <2>3. n \in Nat /\ Idle(i) \in Scans /\ InVerb(i) \in Scans
    BY <1>1 DEF Scans, Idle, InVerb, Reached
  <2>4. Scanned(Idle(i), a) = InVerb(i)
    BY ScanFew, ScanCharIs
  <2>5. Scanned(InVerb(i), mods) = InVerb(n)
    BY <1>1, ScanInVerb DEF Stars
  <2>6. ScanChar(InVerb(n), d.verb)
          = IF d.verb = "w" THEN Found(n) ELSE Idle(i + Consumes(d))
    <3>1. CASE d.verb = "w"
      BY <2>3, <3>1, ScanCharIs
    <3>2. CASE d.verb = "%"
      <4>1. i + Consumes(d) = n
        BY <1>1, <3>2 DEF Consumes
      <4> HIDE DEF n
      <4> QED  BY <2>3, <3>2, <4>1, ScanCharIs
    <3>3. CASE d.verb = "v"
      <4>1. i + Consumes(d) = n + 1
        BY <1>1, <3>3 DEF Consumes
      <4> HIDE DEF n
      <4> QED  BY <2>3, <3>3, <4>1, ScanCharIs
    <3> QED  BY <1>1, <1>3, <3>1, <3>2, <3>3
  <2>7. Scanned(InVerb(n), e) = ScanChar(InVerb(n), d.verb)
    BY ScanFew
  <2> HIDE DEF a, e, mods, n
  <2>8. b \in Seq(Chars) /\ Scanned(Idle(i), b) = InVerb(n)
    BY <2>2, <2>3, <2>4, <2>5, ScanGoesOn
  <2> HIDE DEF b
  <2>9. Scanned(Idle(i), b \o e) = ScanChar(InVerb(n), d.verb)
    BY <2>2, <2>3, <2>7, <2>8, ScanGoesOn
  <2> QED  BY <2>1, <2>6, <2>9 DEF n
<1> QED  BY <1>2, <1>3

LEMMA TakenFacts ==
  ASSUME NEW ds \in Seq(Directives)
  PROVE  /\ Taken(ds)[0] = 0 /\ \A k \in 0..Len(ds) : Taken(ds)[k] \in Nat
         /\ \A k \in 1..Len(ds) : Taken(ds)[k] = Taken(ds)[k-1] + Consumes(ds[k])
<1> DEFINE n == Len(ds)
           step == [p \in Nat \X Directives |-> p[1] + Consumes(p[2])]
           Made(f) == [k \in 0..Len(ds) |-> IF k = 0 THEN 0 ELSE f[k-1] + Consumes(ds[k])]
           taken == CHOOSE f : f = Made(f)
<1>1. n \in Nat /\ \A k \in 1..n : ds[k] \in Directives
  OBVIOUS
<1>2. step \in [Nat \X Directives -> Nat]
  BY WrittenTyped
<1>3. PICK w \in [0..n -> Nat] : w[0] = 0 /\ \A k \in 1..n : w[k] = step[<<w[k-1], ds[k]>>]
  <2>1. 0 \in Nat /\ ds \in [1..n -> Directives]
    OBVIOUS
  <2> HIDE DEF step
  <2>2. \E w \in [0..n -> Nat] : Course(w, 0, step, ds, n)
    BY <1>1, <1>2, <2>1, LoopRuns
  <2> QED  BY <2>2 DEF Course
<1>4. ASSUME NEW k \in 1..n  PROVE w[k] = w[k-1] + Consumes(ds[k])
  <2>1. w[k-1] \in Nat /\ ds[k] \in Directives
    BY <1>1
  <2>2. <<w[k-1], ds[k]>> \in Nat \X Directives
    BY <2>1
  <2> QED  BY <1>3, <2>2
<1>5. w = Made(w)
  <2>1. ASSUME NEW k \in 0..n
        PROVE  w[k] = IF k = 0 THEN 0 ELSE w[k-1] + Consumes(ds[k])
    <3>1. k # 0 => k \in 1..n
      OBVIOUS
    <3> QED  BY <1>3, <1>4, <3>1
  <2> QED  BY <2>1
<1>6. taken = Made(taken)
  BY <1>5
<1>7. Taken(ds) = taken
  BY DEF Taken
<1> HIDE DEF taken
<1>8. taken[0] = 0 /\ \A k \in 1..n : taken[k] = taken[k-1] + Consumes(ds[k])
  <2>1. 0 \in 0..n /\ \A k \in 1..n : k \in 0..n /\ k # 0
    BY <1>1
  <2> QED  BY <1>6, <2>1
<1> DEFINE S == {k \in 0..n : taken[k] \notin Nat}
<1>9. S = {}
  <2> SUFFICES ASSUME S # {}  PROVE FALSE
    OBVIOUS
  <2>1. PICK m \in S : \A x \in S : m <= x
    <3>1. S \subseteq Nat
      OBVIOUS
    <3> QED  BY <3>1, SmallestOf
  <2>2. m # 0
    BY <1>8
  <2>3. m \in 1..n /\ m - 1 \in 0..n /\ m - 1 \notin S
    BY <2>1, <2>2
  <2>4. taken[m-1] \in Nat /\ Consumes(ds[m]) \in Nat
    BY <1>1, <2>3, WrittenTyped
  <2> QED  BY <1>8, <2>3, <2>4
<1> QED  BY <1>7, <1>8, <1>9

LEMMA TakenGrows ==
  ASSUME NEW ds \in Seq(Directives), NEW m \in 0..Len(ds), NEW k \in m..Len(ds)
  PROVE  Taken(ds)[m] <= Taken(ds)[k]
<1> DEFINE n == Len(ds)
           T == Taken(ds)
           S == {j \in m..n : ~(T[m] <= T[j])}
<1>1. n \in Nat /\ m \in Nat /\ \A j \in 1..n : ds[j] \in Directives
  OBVIOUS
<1>2. (\A j \in 0..n : T[j] \in Nat) /\ \A j \in 1..n : T[j] = T[j-1] + Consumes(ds[j])
  BY TakenFacts
<1> HIDE DEF T
<1>3. S = {}
  <2> SUFFICES ASSUME S # {}  PROVE FALSE
    OBVIOUS
  <2>1. PICK j \in S : \A x \in S : j <= x
    <3>1. S \subseteq Nat
      BY <1>1
    <3> QED  BY <3>1, SmallestOf
  <2>2. j # m
    BY <1>1, <1>2
  <2>3. j \in 1..n /\ j - 1 \in m..n /\ j - 1 \notin S /\ j - 1 \in 0..n
    BY <1>1, <2>1, <2>2
  <2>4. T[m] <= T[j-1] /\ T[j] = T[j-1] + Consumes(ds[j])
    BY <1>2, <2>3
  <2>5. Consumes(ds[j]) \in Nat /\ T[m] \in Nat /\ T[j-1] \in Nat
    BY <1>1, <1>2, <2>3, WrittenTyped
  <2>6. T[m] <= T[j]
    BY <2>4, <2>5
  <2> QED  BY <2>6
<1> QED  BY <1>3 DEF T

-----------------------------------------------------------------------------
(* Formats.                                                                *)

LEMMA FlattenIs ==
  ASSUME NEW X, NEW ss \in Seq(Seq(X)), NEW w \in [0..Len(ss) -> Seq(X)], w[0] = <<>>,
         \A i \in 1..Len(ss) : w[i] = w[i-1] \o ss[i]
  PROVE  FlattenSeq(ss) = w[Len(ss)]
<1> DEFINE n == Len(ss)
           Made(f) == [i \in 1..Len(ss) |-> IF i = 1 THEN ss[i] ELSE f[i-1] \o ss[i]]
           flat == CHOOSE f : f = Made(f)
           u == [i \in 1..n |-> w[i]]
<1>1. n \in Nat /\ \A i \in 1..n : ss[i] \in Seq(X)
  OBVIOUS
<1>2. CASE n = 0
  <2>1. ss = <<>>
    BY <1>2
  <2> QED  BY <1>2, <2>1 DEF FlattenSeq
<1>3. CASE n # 0
  <2>0. 1 \in 1..n /\ w[1] = ss[1]
    <3>1. 1 \in 1..n /\ 1 - 1 = 0
      BY <1>1, <1>3
    <3>2. ss[1] \in Seq(X) /\ w[1] = w[1-1] \o ss[1]
      BY <1>1, <3>1
    <3>3. w[1] = <<>> \o ss[1]
      BY <3>1, <3>2
    <3> QED  BY <3>1, <3>2, <3>3
  <2>1. u = Made(u)
    <3>1. ASSUME NEW i \in 1..n  PROVE w[i] = IF i = 1 THEN ss[i] ELSE u[i-1] \o ss[i]
      <4>1. CASE i = 1
        BY <2>0, <4>1
      <4>2. CASE i # 1
        <5>1. i - 1 \in 1..n
          BY <4>2
        <5> QED  BY <4>2, <5>1
      <4> QED  BY <4>1, <4>2
    <3> QED  BY <3>1
  <2> HIDE DEF u
  <2>2. flat = Made(flat)
    BY <2>1
  <2>3. FlattenSeq(ss) = flat[n]
    BY <1>3 DEF FlattenSeq
  <2> HIDE DEF flat
  <2> DEFINE S == {i \in 1..n : flat[i] # w[i]}
  <2>4. S = {}
    <3> SUFFICES ASSUME S # {}  PROVE FALSE
      OBVIOUS
    <3>1. PICK m \in S : \A x \in S : m <= x
      <4>1. S \subseteq Nat
        OBVIOUS
      <4> QED  BY <4>1, SmallestOf
    <3>2. m # 1
      <4>1. flat[1] = ss[1]
        BY <2>0, <2>2
      <4> QED  BY <2>0, <3>1, <4>1
    <3>3. m \in 1..n /\ m - 1 \in 1..n /\ ~(m <= m - 1)
      BY <1>1, <3>1, <3>2
    <3>4. flat[m-1] = w[m-1]
      BY <3>1, <3>3
    <3>5. flat[m] = flat[m-1] \o ss[m] /\ w[m] = w[m-1] \o ss[m]
      BY <2>2, <3>2, <3>3
    <3> QED  BY <3>1, <3>4, <3>5
  <2>5. n \in 1..n
    BY <1>1, <1>3
  <2>6. flat[n] = w[n]
    BY <2>4, <2>5
  <2> QED  BY <2>3, <2>6
<1> QED  BY <1>2, <1>3

\* The scan of a format finds the argument of its first %w, whatever stands
\* before it (unwrap.go:127-161).
THEOREM VerbFound ==
  ASSUME NEW ds \in Seq(Directives)
  PROVE  LET wrapped == WrappedBy(ds)
         IN  findWVerbIndex(Format(ds)) = IF wrapped = {} THEN -1 ELSE Min(wrapped)
<1> DEFINE n == Len(ds)
           ss == [i \in DOMAIN ds |-> Written(ds[i])]
           T == Taken(ds)
           W(j) == ds[j].verb = "w"
<1>1. n \in Nat /\ DOMAIN ds = 1..n /\ \A j \in 1..n : ds[j] \in Directives
  OBVIOUS
<1>2. ss \in Seq(Seq(Chars)) /\ Len(ss) = n /\ \A j \in 1..n : ss[j] = Written(ds[j]) /\ ss[j] \in Seq(Chars)
  BY <1>1, WrittenTyped
<1>3. PICK w \in [0..n -> Seq(Chars)] : w[0] = <<>> /\ \A j \in 1..n : w[j] = w[j-1] \o ss[j]
  <2> DEFINE step == [p \in Seq(Chars) \X Seq(Chars) |-> p[1] \o p[2]]
  <2>1. step \in [Seq(Chars) \X Seq(Chars) -> Seq(Chars)]
    OBVIOUS
  <2>2. <<>> \in Seq(Chars)
    OBVIOUS
  <2> HIDE DEF ss
  <2>3. PICK w \in [0..n -> Seq(Chars)] :
          w[0] = <<>> /\ \A j \in 1..n : w[j] = step[<<w[j-1], ss[j]>>]
    <3> HIDE DEF step
    <3>1. ss \in [1..n -> Seq(Chars)]
      BY <1>2
    <3>2. \E w \in [0..n -> Seq(Chars)] : Course(w, <<>>, step, ss, n)
      BY <1>1, <2>1, <2>2, <3>1, LoopRuns
    <3> QED  BY <3>2 DEF Course
  <2>4. ASSUME NEW j \in 1..n  PROVE w[j] = w[j-1] \o ss[j]
    <3>0. j - 1 \in 0..n
      BY <1>1
    <3>1. w[j-1] \in Seq(Chars) /\ ss[j] \in Seq(Chars)
      BY <1>2, <3>0
    <3>2. <<w[j-1], ss[j]>> \in Seq(Chars) \X Seq(Chars)
      BY <3>1
    <3> QED  BY <2>3, <3>2
  <2> QED  BY <2>3, <2>4
<1>4. Format(ds) = w[n]
  <2>1. Format(ds) = FlattenSeq(ss)
    BY DEF Format
  <2> HIDE DEF ss
  <2> QED  BY <1>2, <1>3, <2>1, FlattenIs
<1>5. /\ T[0] = 0 /\ \A k \in 0..n : T[k] \in Nat
      /\ \A k \in 1..n : T[k] = T[k-1] + Consumes(ds[k])
  BY TakenFacts
<1>6. \A m \in 0..n : \A k \in m..n : T[m] <= T[k]
  BY TakenGrows
<1> HIDE DEF ss, T
<1> DEFINE Scan(k) == Scanned(Start, w[k])
           Before(k) == (\A j \in 1..k : ~W(j)) => Scan(k) = Idle(T[k])
           After(k) == \A m \in 1..k : W(m) /\ (\A j \in 1..(m-1) : ~W(j)) =>
                         Scan(k).at = T[m-1] + Stars(ds[m])
           S == {k \in 0..n : ~(Before(k) /\ After(k))}
<1>7. ASSUME NEW k \in 0..n  PROVE Scan(k) \in Scans
  <2>1. Start \in Scans /\ w[k] \in Seq(Chars)
    BY DEF Scans, Start
  <2> QED  BY <2>1, ScannedTyped
<1>8. ASSUME NEW k \in 1..n  PROVE Scan(k) = Scanned(Scan(k-1), Written(ds[k]))
  <2>1. k - 1 \in 0..n
    BY <1>1
  <2>2. /\ w[k-1] \in Seq(Chars) /\ Written(ds[k]) \in Seq(Chars)
        /\ w[k] = w[k-1] \o Written(ds[k])
    <3>1. w[k] = w[k-1] \o ss[k] /\ ss[k] = Written(ds[k]) /\ ss[k] \in Seq(Chars)
      BY <1>2, <1>3
    <3> QED  BY <2>1, <3>1
  <2>3. Start \in Scans
    BY DEF Scans, Start
  <2> QED  BY <2>2, <2>3, ScanGoesOn
<1>9. Before(0) /\ After(0)
  <2>1. Scan(0) = Start
    BY <1>3, ScanFew
  <2>2. Start = Idle(T[0])
    BY <1>5 DEF Start, Idle, Reached
  <2> QED  BY <2>1, <2>2
<1>10. ASSUME NEW k \in 1..n, Before(k-1), After(k-1)  PROVE Before(k) /\ After(k)
  <2>1. k - 1 \in 0..n /\ T[k-1] \in Nat /\ T[k] = T[k-1] + Consumes(ds[k]) /\ ds[k] \in Directives
    BY <1>1, <1>5
  <2>2. Scan(k) = Scanned(Scan(k-1), Written(ds[k]))
    BY <1>8
  <2>3. (\A j \in 1..(k-1) : ~W(j)) =>
          Scan(k) = IF W(k) THEN Found(T[k-1] + Stars(ds[k])) ELSE Idle(T[k])
    <3> SUFFICES ASSUME \A j \in 1..(k-1) : ~W(j)
                 PROVE  Scan(k) = IF W(k) THEN Found(T[k-1] + Stars(ds[k])) ELSE Idle(T[k])
      OBVIOUS
    <3>1. Scan(k-1) = Idle(T[k-1])
      BY <1>10
    <3> HIDE DEF Scan
    <3> QED  BY <2>1, <2>2, <3>1, ScanDirective
  <2>4. Before(k)
    <3> HIDE DEF Scan
    <3>1. SUFFICES ASSUME \A j \in 1..k : ~W(j)  PROVE Scan(k) = Idle(T[k])
      OBVIOUS
    <3>2. ~W(k) /\ \A j \in 1..(k-1) : ~W(j)
      BY <3>1
    <3> QED  BY <2>3, <3>2
  <2>5. After(k)
    <3> SUFFICES ASSUME NEW m \in 1..k, W(m), \A j \in 1..(m-1) : ~W(j)
                 PROVE  Scan(k).at = T[m-1] + Stars(ds[m])
      OBVIOUS
    <3>1. CASE m = k
      <4>1. Scan(k) = Found(T[m-1] + Stars(ds[m]))
        <5> HIDE DEF Scan
        <5> QED  BY <2>3, <3>1
      <4> QED  BY <4>1 DEF Found, Reached
    <3>2. CASE m # k
      <4>1. m \in 1..(k-1) /\ m \in 1..n /\ m - 1 \in 0..n
        BY <3>2
      <4>2. Scan(k-1).at = T[m-1] + Stars(ds[m])
        BY <1>10, <4>1
      <4>3. T[m-1] \in Nat /\ Stars(ds[m]) \in Nat
        BY <1>1, <1>5, <4>1, WrittenTyped
      <4>4. Scan(k-1).at >= 0
        <5> HIDE DEF Scan
        <5> QED  BY <4>2, <4>3
      <4>5. Scan(k) = Scan(k-1)
        <5>1. Scan(k-1) \in Scans /\ Written(ds[k]) \in Seq(Chars)
          BY <1>7, <2>1, WrittenTyped
        <5> HIDE DEF Scan
        <5> QED  BY <2>2, <4>4, <5>1, ScanStands
      <4> HIDE DEF Scan
      <4> QED  BY <4>2, <4>5
    <3> QED  BY <3>1, <3>2
  <2> QED  BY <2>4, <2>5
<1> HIDE DEF Before, After
<1>11. S = {}
  <2> SUFFICES ASSUME S # {}  PROVE FALSE
    OBVIOUS
  <2>1. PICK m \in S : \A x \in S : m <= x
    <3>1. S \subseteq Nat
      OBVIOUS
    <3> QED  BY <3>1, SmallestOf
  <2>2. m # 0
    BY <1>9
  <2>3. m \in 1..n /\ m - 1 \in 0..n /\ m - 1 \notin S
    BY <1>1, <2>1, <2>2
  <2> QED  BY <1>10, <2>1, <2>3
<1>12. Before(n) /\ After(n)
  BY <1>1, <1>11
<1>13. findWVerbIndex(Format(ds)) = Scan(n).at
  BY <1>4 DEF findWVerbIndex
<1>14. WrappedBy(ds) = {T[i-1] + Stars(ds[i]) : i \in {j \in 1..n : W(j)}}
  BY <1>1 DEF WrappedBy, T
<1>15. CASE \A j \in 1..n : ~W(j)
  <2>1. WrappedBy(ds) = {}
    BY <1>14, <1>15
  <2>2. Scan(n).at = -1
    <3>1. Scan(n) = Idle(T[n])
      BY <1>12, <1>15 DEF Before
    <3> QED  BY <3>1 DEF Idle, Reached
  <2> QED  BY <1>13, <2>1, <2>2
<1>16. CASE ~ \A j \in 1..n : ~W(j)
  <2> DEFINE Ws == {j \in 1..n : W(j)}
  <2>1. PICK m \in Ws : \A j \in Ws : m <= j
    <3>1. Ws \subseteq Nat /\ Ws # {}
      BY <1>16
    <3> QED  BY <3>1, SmallestOf
  <2>2. m \in 1..n /\ W(m) /\ \A j \in 1..(m-1) : ~W(j)
    <3>1. m \in 1..n /\ W(m)
      BY <2>1
    <3>2. ASSUME NEW j \in 1..(m-1), W(j)  PROVE FALSE
      <4>1. j \in Ws /\ ~(m <= j)
        BY <1>1, <3>1, <3>2
      <4> QED  BY <2>1, <4>1
    <3> QED  BY <3>1, <3>2
  <2>3. Scan(n).at = T[m-1] + Stars(ds[m])
    BY <1>12, <2>2 DEF After
  <2>4. T[m-1] + Stars(ds[m]) \in WrappedBy(ds)
    BY <1>14, <2>1
  <2>5. ASSUME NEW y \in WrappedBy(ds)  PROVE T[m-1] + Stars(ds[m]) <= y /\ y \in Nat
    <3>1. PICK i \in Ws : y = T[i-1] + Stars(ds[i])
      BY <1>14
    <3>2. i \in 1..n /\ i - 1 \in 0..n /\ m - 1 \in 0..n /\ m \in 0..n
      BY <1>1, <2>2
    <3>3. Stars(ds[i]) \in Nat /\ Stars(ds[m]) \in Nat
      BY <1>1, <2>2, <3>2, WrittenTyped
    <3>4. T[i-1] \in Nat /\ T[m-1] \in Nat /\ T[m] \in Nat
      BY <1>5, <3>2
    <3>5. CASE i = m
      BY <3>1, <3>5, <3>3, <3>4
    <3>6. CASE i # m
      <4>1. m <= i
        BY <2>1
      <4>2. i - 1 \in m..n
        BY <1>1, <2>2, <3>2, <3>6, <4>1
      <4>3. T[m] <= T[i-1]
        BY <1>6, <3>2, <4>2
      <4>4. T[m] = T[m-1] + (Stars(ds[m]) + 1)
        <5>1. Consumes(ds[m]) = Stars(ds[m]) + 1
          BY <2>2, <3>3 DEF Consumes
        <5> QED  BY <1>5, <2>2, <5>1
      <4> DEFINE a == T[m-1]
                 b == T[i-1]
                 x == Stars(ds[m])
                 z == Stars(ds[i])
      <4>5. /\ a \in Nat /\ b \in Nat /\ x \in Nat /\ z \in Nat
            /\ a + (x + 1) <= b /\ y = b + z
        BY <3>1, <3>3, <3>4, <4>3, <4>4
      <4> HIDE DEF a, b, x, z
      <4>6. a + x <= y /\ y \in Nat
        BY <4>5
      <4> QED  BY <4>6 DEF a, x
    <3> QED  BY <3>5, <3>6
  <2>6. Min(WrappedBy(ds)) = T[m-1] + Stars(ds[m])
    <3>1. /\ Min(WrappedBy(ds)) \in WrappedBy(ds)
          /\ \A y \in WrappedBy(ds) : Min(WrappedBy(ds)) <= y
      BY <2>4, <2>5 DEF Min
    <3>2. /\ Min(WrappedBy(ds)) <= T[m-1] + Stars(ds[m])
          /\ T[m-1] + Stars(ds[m]) <= Min(WrappedBy(ds))
          /\ Min(WrappedBy(ds)) \in Nat /\ T[m-1] + Stars(ds[m]) \in Nat
      BY <2>4, <2>5, <3>1
    <3> QED  BY <3>2
  <2>7. WrappedBy(ds) # {}
    BY <2>4
  <2> QED  BY <1>13, <2>3, <2>6, <2>7
<1> QED  BY <1>15, <1>16
=============================================================================
