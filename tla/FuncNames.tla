----------------------------- MODULE FuncNames ------------------------------
(***************************************************************************)
(* The names under which errsweep-lsp looks a function up: from a symbol's *)
(* name, or from the signature in a hover text (cmd/errsweep-lsp/main.go). *)
(* A name is a sequence of tokens: "(", "*", ")", "." and identifiers.     *)
(***************************************************************************)
EXTENDS Integers, Sequences, SequencesExt, FiniteSetsExt

Punctuation == {"(", "*", ")", ".", "[", "]", "-"}
IsIdent(token) == token \notin Punctuation

\* Where a receiver's ")." stands.
Cuts(name) == {i \in 1..(Len(name) - 1) : name[i] = ")" /\ name[i+1] = "."}
Dots(name) == {i \in DOMAIN name : name[i] = "."}
From(name, i) == SubSeq(name, i, Len(name))

\* The name in SSA's style, if it is one, and the simple name.
MutantMethodAsWritten(name) ==
  IF Cuts(name) # {} THEN [ssa |-> name, simple |-> <<>>]
  ELSE [ssa |-> <<>>, simple |-> IF Dots(name) = {} THEN name ELSE <<Last(name)>>]
extractFuncNames(name) ==
  IF name = <<>> THEN [ssa |-> <<>>, simple |-> <<>>]
  ELSE IF \E i \in Cuts(name) : Cuts(name) = {i} /\ i + 1 < Len(name)
       THEN [ssa |-> name, simple |-> From(name, Min(Cuts(name)) + 2)]
  ELSE IF IsIdent(Last(name)) /\ (Len(name) = 1 \/ name[Len(name) - 1] = ".")
       THEN [ssa |-> <<>>, simple |-> <<Last(name)>>]
  ELSE [ssa |-> <<>>, simple |-> name]

\* What the cache indexes the name under as well (proxy/cache.go).
simpleFuncName(name) ==
  IF Cuts(name) # {} /\ Max(Cuts(name)) + 1 < Len(name) THEN From(name, Max(Cuts(name)) + 2)
  ELSE IF Dots(name) # {} /\ Max(Dots(name)) < Len(name) THEN From(name, Max(Dots(name)) + 1)
  ELSE name

-----------------------------------------------------------------------------
(* A hover text is a sequence of lines, of which a signature               *)
(* [recv, named, name] is told: a receiver's type, empty for a function,   *)
(* and whether the receiver has a name.  Contents are [form, items].       *)

\* The types hoverFuncRe knows: T, *T, p.T and *p.T.
Plain(recv) ==
  LET t == IF Head(recv) = "*" THEN Tail(recv) ELSE recv
  IN  /\ Len(t) \in {1, 3} /\ IsIdent(Head(t)) /\ IsIdent(Last(t))
      /\ Len(t) = 3 => t[2] = "."
Matches(line) == line.name # <<>> /\ (line.recv = <<>> \/ (line.named /\ Plain(line.recv)))

hoverContentsText(contents) ==
  CASE contents.form \in {"markup", "string"} -> contents.items[1].text
    [] contents.form = "array" ->
         FlattenSeq([i \in DOMAIN contents.items |->
           IF contents.items[i].form \in {"string", "marked"} THEN contents.items[i].text ELSE <<>>])
    [] OTHER -> <<>>      \* absent, or a single {language, value}

Method(recv, name) == <<"(">> \o recv \o <<")", ".">> \o name

hoverFuncNameFromContents(contents) ==
  LET found == SelectSeq(hoverContentsText(contents), Matches) IN
    IF found = <<>> THEN <<>>
    ELSE IF Head(found).recv = <<>> THEN Head(found).name
    ELSE Method(Head(found).recv, Head(found).name)
=============================================================================
