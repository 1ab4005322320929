------------------------------ MODULE WrapVerb ------------------------------
(***************************************************************************)
(* Which argument of fmt.Errorf is the wrapped one (analyzer/unwrap.go).   *)
(* A format is a sequence of characters, of which the count of arguments   *)
(* tells five kinds apart; what it means is a sequence of directives.      *)
(***************************************************************************)
EXTENDS Integers, Sequences, FiniteSets, SequencesExt

Chars == {"%", "0", "*", "w", "v"}   \* "0": a flag, digit or dot, "v": any other

\* What a format is written to mean: literal text or a verb, after flags, widths
\* and precisions, of which a star takes an argument.  Explicit argument indexes
\* (%[1]w, %[2]*d) are not among them: fmt accepts them, while the scan takes
\* the bracket for a verb (unwrap.go:147-157), so it misses such a %w.
Directives ==
  {d \in [verb : {"text", "%", "v", "w"}, mods : Seq({"0", "*"})] :
     d.verb = "text" => d.mods = <<>>}

Stars(d) == Cardinality({i \in DOMAIN d.mods : d.mods[i] = "*"})

Written(d) == IF d.verb = "text" THEN <<"v">> ELSE <<"%">> \o d.mods \o <<d.verb>>

Format(ds) == FlattenSeq([i \in DOMAIN ds |-> Written(ds[i])])

\* One character of the scan; `at` is the index of the %w once it is found.
ScanChar(scan, c) ==
  IF scan.at >= 0 THEN scan
  ELSE IF scan.part = "text" THEN (IF c = "%" THEN [scan EXCEPT !.part = "verb"] ELSE scan)
  ELSE CASE c = "0" -> scan
         [] c = "*" -> [scan EXCEPT !.index = @ + 1]
         [] c = "w" -> [scan EXCEPT !.at = scan.index]
         [] c = "%" -> [scan EXCEPT !.part = "text"]
         [] OTHER   -> [scan EXCEPT !.part = "text", !.index = @ + 1]

Start == [part |-> "text", index |-> 0, at |-> -1]

\* The scan at the end of a format.
Scanned(start, format) ==
  LET scan[n \in 0..Len(format)] ==
        IF n = 0 THEN start ELSE ScanChar(scan[n-1], format[n])
  IN  scan[Len(format)]

\* A star that takes no argument, as a flag would.
MutantStarIsFlag(format) ==
  Scanned(Start, [i \in DOMAIN format |-> IF format[i] = "*" THEN "0" ELSE format[i]]).at

\* The 0-based index of the argument of the first %w, or -1.
findWVerbIndex(format) == Scanned(Start, format).at

\* The call x has its arguments in a slice: one whose elements are seen, or one
\* that is itself passed on (`spread`).  No value when there is no %w or its
\* element is not seen.
fmtErrorfWrappedArg(x) ==
  LET at == findWVerbIndex(x.format) IN
    IF x.spread THEN (IF at < 0 THEN <<>> ELSE x.args)
    ELSE IF at + 1 \in DOMAIN x.args THEN <<x.args[at + 1]>> ELSE <<>>

fmtErrorfLosesIdentity(x) == findWVerbIndex(x.format) < 0

-----------------------------------------------------------------------------
(* What fmt does with the directives.                                      *)

Consumes(d) == Stars(d) + (IF d.verb \in {"v", "w"} THEN 1 ELSE 0)

\* How many arguments the first k of the directives take.
Taken(ds) ==
  LET taken[k \in 0..Len(ds)] == IF k = 0 THEN 0 ELSE taken[k-1] + Consumes(ds[k])
  IN  taken

\* The 0-based indices of the arguments of all its %w.
WrappedBy(ds) ==
  {Taken(ds)[i-1] + Stars(ds[i]) : i \in {j \in DOMAIN ds : ds[j].verb = "w"}}
=============================================================================
