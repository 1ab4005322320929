---------------------------- MODULE MCLspServer -----------------------------
(***************************************************************************)
(* errsweep-lsp on a few messages: names as symbols and in hover texts in  *)
(* every form, of functions, methods, imported and generic ones.           *)
(***************************************************************************)
EXTENDS LspServer, TLC

CONSTANTS none, here, there, beyond, elsewhere

\* Names.
Create  == <<"(", "*", "Svc", ")", ".", "Create">>
Create2 == <<"(", "Other", ")", ".", "Create">>
Far     == <<"(", "*", "p", ".", "Svc", ")", ".", "Create">>
List    == <<"(", "*", "Box", "[", "T", "]", ")", ".", "List">>
Find    == <<"Find">>
PkgFind == <<"p", ".", "Find">>

Sig(recv, named, name) == [recv |-> recv, named |-> named, name |-> name]
Prose == Sig(<<>>, FALSE, <<>>)
Contents(form, items) == [form |-> form, items |-> items]
Part(form, text) == [form |-> form, text |-> text]
NoContents == Contents("absent", <<>>)

Hover(place, symbol, contents) ==
  [valid |-> TRUE, place |-> place, context |-> TRUE, symbol |-> symbol, contents |-> contents]
Params(valid) == [Hover(here, <<>>, NoContents) EXCEPT !.valid = valid]

Hovers ==
  [at    |-> Hover(here, Find, NoContents),
   blank |-> Hover(elsewhere, <<>>, NoContents),
   deaf  |-> [Hover(elsewhere, Find, NoContents) EXCEPT !.context = FALSE],
   sym   |-> Hover(elsewhere, Create, NoContents),
   far   |-> Hover(elsewhere, Far, NoContents),
   list  |-> Hover(elsewhere, List, NoContents),
   find  |-> Hover(elsewhere, PkgFind, NoContents),
   text  |-> Hover(elsewhere, <<>>, Contents("markup",
               <<Part("string", <<Prose, Sig(<<"*", "Svc">>, TRUE, <<"Create">>)>>)>>)),
   array |-> Hover(elsewhere, <<>>, Contents("array",
               <<Part("number", <<Sig(<<>>, FALSE, <<"Other">>)>>),
                 Part("marked", <<Sig(<<"*", "Svc">>, FALSE, <<"List">>), Sig(<<>>, FALSE, Find)>>)>>)),
   marked |-> Hover(elsewhere, <<>>, Contents("marked", <<Part("marked", <<Sig(<<>>, FALSE, Find)>>)>>))]

Holds(parses, id, method, params, size) ==
  [parses |-> parses, id |-> id, method |-> method, params |-> params, size |-> size]

Others ==
  [init    |-> Holds(TRUE, "init", "initialize", Params(TRUE), 1),
   bye     |-> Holds(TRUE, "bye", "shutdown", Params(TRUE), 1),
   what    |-> Holds(TRUE, "what", "completion", Params(TRUE), 2),
   bad     |-> Holds(TRUE, "bad", "hover", Params(FALSE), 1),
   exit    |-> Holds(TRUE, none, "exit", Params(TRUE), 1),
   notice  |-> Holds(TRUE, none, "hover", Params(TRUE), 1),
   garbage |-> Holds(FALSE, none, "", Params(TRUE), 2)]

MCMessages == DOMAIN Others \cup DOMAIN Hovers
MCContent ==
  [m \in MCMessages |->
     IF m \in DOMAIN Others THEN Others[m] ELSE Holds(TRUE, m, "hover", Hovers[m], 1)]

\* Of most messages the header is the length; of initialize it varies, with
\* headers around it, a length that the next one corrects, or none.
MCHeaders ==
  [m \in MCMessages |->
     IF m # "init" THEN {<<Length(MCContent[m].size)>>}
     ELSE {<<Length(1)>>, <<Header, Length(1), Header>>, <<Length(2), Length(1)>>,
           <<Length(1), BadLength>>, <<Header>>}]

\* A cache as the analyzer's fn.Name() fills it, and one with the names of SSA.
Entry(name) == [name |-> name]
MCCaches ==
  {[place \in {here, there} |-> Entry(IF place = here THEN <<"Create">> ELSE Find)],
   [place \in {here, there, beyond} |->
      Entry(CASE place = here -> Create [] place = there -> Create2 [] OTHER -> List)]}

\* What HoverFinds is proved of.
ASSUME NamesFormed
=============================================================================
