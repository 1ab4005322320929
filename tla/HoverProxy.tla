----------------------------- MODULE HoverProxy -----------------------------
(***************************************************************************)
(* The message path of errsweep-lsp-proxy: one goroutine carries messages  *)
(* from the editor to gopls and notes the hover requests it sees, the main *)
(* goroutine carries messages from gopls to the editor and appends to the  *)
(* hover results what the cache knows, while a third replaces the cache.   *)
(* The four streams are pipes of bounded size.                             *)
(*                                                                         *)
(* The editor and gopls are external: the editor uses each request id      *)
(* once, gopls answers a request once, in any order, numbers its own       *)
(* requests as it likes and exits when its input ends.                     *)
(***************************************************************************)
EXTENDS Integers, Sequences, FiniteSets

CONSTANTS
  Hovers,               \* ids of the editor's hover requests
  Requests,             \* ids of its other requests
  Positions,            \* file and line
  Pos,                  \* Pos[h]: where hover h points
  None,                 \* no id, no message, no position, no note
  Built,                \* the sets of keys the initial build may find
  MaxVersion,           \* bound: caches installed in a behaviour
  MaxAsks,              \* bound: requests gopls sends to the editor
  Capacity,             \* messages a pipe holds
  MayBreak,             \* whether a frame may be broken
  MayStop               \* whether the editor closes and gopls crashes

Ids   == Hovers \cup Requests
Names == {"ssa", "simple"}           \* the names a signature yields
Keys  == Positions \cup Names        \* what the cache is looked up by
Texts == {"null", "plain", "func", "method"}

\* `note` is what was appended: the key that hit and the entry found there.
Notes == [key : Keys, entry : 1..MaxVersion] \cup {None}
Msg(kind, id) == [kind |-> kind, id |-> id, text |-> "plain", note |-> None]
Result(id, text) == [kind |-> "result", id |-> id, text |-> text, note |-> None]

ClientMessages ==
  {Msg("hover", h) : h \in Hovers} \cup {Msg("request", r) : r \in Requests}
    \cup {Msg("reply", id) : id \in Ids} \cup {Msg("broken", None)}

\* "garbage" is a body that is no JSON in a frame that is right.
ServerMessages ==
  {Result(id, t) : id \in Ids, t \in Texts}
    \cup {Msg(kind, id) : kind \in {"error", "ask"}, id \in Ids}
    \cup {Msg(kind, None) : kind \in {"garbage", "broken"}}

ASSUME HoverAssumption ==
  /\ Hovers \cap Requests = {} /\ Positions \cap Names = {}
  /\ None \notin Ids \cup Positions /\ None \notin ClientMessages \cup ServerMessages
  /\ Pos \in [Hovers -> Positions] /\ Built \subseteq SUBSET Keys
  /\ MaxVersion \in Nat \ {0} /\ MaxAsks \in Nat /\ Capacity \in Nat \ {0}
  /\ {MayBreak, MayStop} \subseteq BOOLEAN

VARIABLES
  editor,               \* open: it runs; sent, answered: ids; asked: to reply to
  gopls,                \* up; working: requests it works on; asks; erred: hovers
  inbox, toGopls,       \* editor -> proxy -> gopls
  goplsIn,              \* whether the proxy's end of gopls' input is open
  outbox, toEditor,     \* gopls -> proxy -> editor
  taken, shown,         \* history: change with each message gopls and the editor receive
  reader,               \* the goroutine that reads from the editor
  writer,               \* the main goroutine
  pending,              \* positions of the hovers in flight
  cache, version,       \* cache[k]: the version whose entry k has, or 0
  exited                \* the proxy is gone

upVars    == <<inbox, toGopls, goplsIn, taken, reader>>
downVars  == <<outbox, toEditor, shown, writer>>
cacheVars == <<cache, version>>
vars == <<editor, gopls, upVars, downVars, pending, cacheVars, exited>>

Idle == [pc |-> "read", msg |-> None, pos |-> None, note |-> None, arrived |-> 0]

Init ==
  /\ editor = [open |-> TRUE, sent |-> {}, answered |-> {}, asked |-> {}]
  /\ gopls = [up |-> TRUE, working |-> {}, asks |-> 0, erred |-> {}]
  /\ inbox = <<>> /\ toGopls = <<>> /\ outbox = <<>> /\ toEditor = <<>>
  /\ goplsIn = TRUE
  /\ taken = FALSE /\ shown = FALSE
  /\ reader = [pc |-> "read", msg |-> None]
  /\ writer = Idle
  /\ pending = [h \in {} |-> None]
  /\ version = 1
  /\ \E known \in Built : cache = [k \in Keys |-> IF k \in known THEN 1 ELSE 0]
  /\ exited = FALSE

Room(pipe) == Len(pipe) < Capacity

-----------------------------------------------------------------------------
(* The editor (external).                                                  *)

EditorSends(m) ==
  /\ editor.open /\ Room(inbox)
  /\ inbox' = Append(inbox, m)
  /\ UNCHANGED <<gopls, toGopls, goplsIn, taken, reader, downVars, pending, cacheVars, exited>>

Ask(id) ==
  /\ id \notin editor.sent
  /\ EditorSends(Msg(IF id \in Hovers THEN "hover" ELSE "request", id))
  /\ editor' = [editor EXCEPT !.sent = @ \cup {id}]

Reply(id) ==
  /\ id \in editor.asked
  /\ EditorSends(Msg("reply", id))
  /\ editor' = [editor EXCEPT !.asked = @ \ {id}]

BreakInput == MayBreak /\ EditorSends(Msg("broken", None)) /\ UNCHANGED editor

EditorReceives ==
  /\ editor.open /\ toEditor # <<>>
  /\ LET m == Head(toEditor) IN
       editor' = [editor EXCEPT
         !.answered = IF m.kind \in {"result", "error"} THEN @ \cup {m.id} ELSE @,
         !.asked = IF m.kind = "ask" THEN @ \cup {m.id} ELSE @]
  /\ toEditor' = Tail(toEditor) /\ shown' = ~shown
  /\ UNCHANGED <<gopls, upVars, outbox, writer, pending, cacheVars, exited>>

EditorCloses ==
  /\ MayStop /\ editor.open
  /\ editor' = [editor EXCEPT !.open = FALSE]
  /\ UNCHANGED <<gopls, upVars, downVars, pending, cacheVars, exited>>

-----------------------------------------------------------------------------
(* gopls (external).                                                       *)

GoplsReads ==
  /\ gopls.up /\ toGopls # <<>>
  /\ LET m == Head(toGopls) IN
       gopls' = [gopls EXCEPT
         !.working = IF m.kind \in {"hover", "request"} THEN @ \cup {m.id} ELSE @]
  /\ toGopls' = Tail(toGopls) /\ taken' = ~taken
  /\ UNCHANGED <<editor, inbox, goplsIn, reader, downVars, pending, cacheVars, exited>>

GoplsSends(m) ==
  /\ gopls.up /\ Room(outbox)
  /\ outbox' = Append(outbox, m)
  /\ UNCHANGED <<editor, upVars, toEditor, shown, writer, pending, cacheVars, exited>>

\* Of other results the text does not matter.
AnswerTexts(id) == IF id \in Hovers THEN Texts ELSE {"plain"}

GoplsAnswers(id) ==
  /\ id \in gopls.working
  /\ \/ /\ \E t \in AnswerTexts(id) : GoplsSends(Result(id, t))
        /\ gopls' = [gopls EXCEPT !.working = @ \ {id}]
     \/ /\ GoplsSends(Msg("error", id))
        /\ gopls' = [gopls EXCEPT !.working = @ \ {id}, !.erred = @ \cup ({id} \cap Hovers)]

\* gopls numbers its own requests: the ids are those the editor uses.
GoplsAsks(id) ==
  /\ gopls.asks < MaxAsks
  /\ GoplsSends(Msg("ask", id))
  /\ gopls' = [gopls EXCEPT !.asks = @ + 1]

BreakOutput ==
  /\ MayBreak
  /\ \E kind \in {"garbage", "broken"} : GoplsSends(Msg(kind, None))
  /\ UNCHANGED gopls

\* Its input has ended: the proxy closed it, or is gone.
InputEnded == (~goplsIn \/ exited) /\ toGopls = <<>>

GoplsExits ==
  /\ gopls.up
  /\ InputEnded \/ MayStop
  /\ gopls' = [gopls EXCEPT !.up = FALSE]
  /\ UNCHANGED <<editor, upVars, downVars, pending, cacheVars, exited>>

-----------------------------------------------------------------------------
(* Editor to gopls: read, track, forward.                                  *)

MutantForwardFirst == [read |-> "forward", forward |-> "track", track |-> "read"]
After == [read |-> "track", track |-> "forward", forward |-> "read"]

ReaderReads ==
  /\ ~exited /\ reader.pc = "read"
  /\ inbox # <<>> /\ Head(inbox).kind # "broken"
  /\ reader' = [pc |-> After["read"], msg |-> Head(inbox)]
  /\ inbox' = Tail(inbox)
  /\ UNCHANGED <<editor, gopls, toGopls, goplsIn, taken, downVars, pending, cacheVars, exited>>

MutantReturnsOnly ==
  /\ ~exited /\ reader.pc = "read"
  /\ IF inbox = <<>> THEN ~editor.open ELSE Head(inbox).kind = "broken"
  /\ reader' = [reader EXCEPT !.pc = "stopped"]
  /\ UNCHANGED <<editor, gopls, inbox, toGopls, goplsIn, taken, downVars, pending, cacheVars, exited>>

\* The input ended, or a frame is broken: gopls' input is closed.
ReaderStops ==
  /\ ~exited /\ reader.pc = "read"
  /\ IF inbox = <<>> THEN ~editor.open ELSE Head(inbox).kind = "broken"
  /\ reader' = [reader EXCEPT !.pc = "stopped"]
  /\ goplsIn' = FALSE
  /\ UNCHANGED <<editor, gopls, inbox, toGopls, taken, downVars, pending, cacheVars, exited>>

MutantTracksReplies(m) == m.id \in Hovers
Tracked(m) == m.kind = "hover"

\* Parameters without a position decode to an empty one.
Position(m) == IF m.id \in Hovers THEN Pos[m.id] ELSE None

ReaderTracks ==
  /\ ~exited /\ reader.pc = "track"
  /\ pending' = IF Tracked(reader.msg)
                THEN [h \in DOMAIN pending \cup {reader.msg.id} |->
                        IF h = reader.msg.id THEN Position(reader.msg) ELSE pending[h]]
                ELSE pending
  /\ reader' = [reader EXCEPT !.pc = After["track"]]
  /\ UNCHANGED <<editor, gopls, inbox, toGopls, goplsIn, taken, downVars, cacheVars, exited>>

\* A write that does not wait for room in the pipe.
MutantForwardsAtOnce ==
  /\ ~exited /\ reader.pc = "forward" /\ gopls.up
  /\ toGopls' = Append(toGopls, reader.msg)
  /\ reader' = [pc |-> After["forward"], msg |-> None]
  /\ UNCHANGED <<editor, gopls, inbox, goplsIn, taken, downVars, pending, cacheVars, exited>>
ReaderForwards ==
  /\ ~exited /\ reader.pc = "forward"
  /\ \/ /\ gopls.up /\ Room(toGopls)
        /\ toGopls' = Append(toGopls, reader.msg)
        /\ reader' = [pc |-> After["forward"], msg |-> None]
     \/ /\ ~gopls.up
        /\ reader' = [reader EXCEPT !.pc = "stopped"]
        /\ UNCHANGED toGopls
  /\ UNCHANGED <<editor, gopls, inbox, goplsIn, taken, downVars, pending, cacheVars, exited>>

-----------------------------------------------------------------------------
(* gopls to editor: processServerMessage.                                  *)

\* Which lookup follows when one has missed, by what the result says.
MutantNoFallback(pc, text) ==
  IF pc = "location" /\ text = "method" THEN "ssa"
  ELSE IF pc = "location" /\ text = "func" THEN "simple" ELSE "write"

OnMiss(pc, text) ==
  CASE pc = "location" /\ text = "method" -> "ssa"
    [] pc = "location" /\ text = "func"   -> "simple"
    [] pc = "ssa"                         -> "simple"
    [] OTHER                              -> "write"

\* Reading and the lookup in `pending` are one step: nobody else takes from
\* either, and nothing is tracked under the id of a hover that was answered.
WriterReads ==
  /\ ~exited /\ writer.pc = "read"
  /\ outbox # <<>> /\ Head(outbox).kind # "broken"
  /\ LET m == Head(outbox)
         hover == m.kind = "result" /\ m.id \in DOMAIN pending IN
       /\ writer' = [pc |-> IF hover THEN "location" ELSE "write", msg |-> m,
                     pos |-> IF hover THEN pending[m.id] ELSE None,
                     note |-> None, arrived |-> version]
       /\ pending' = [h \in DOMAIN pending \ (IF hover THEN {m.id} ELSE {}) |-> pending[h]]
  /\ outbox' = Tail(outbox)
  /\ UNCHANGED <<editor, gopls, upVars, toEditor, shown, cacheVars, exited>>

\* One lookup under the cache's read lock.
WriterLooksUp(pc) ==
  /\ ~exited /\ writer.pc = pc /\ pc \in {"location", "ssa", "simple"}
  /\ LET key == IF pc = "location" THEN writer.pos ELSE pc IN
       writer' = IF cache[key] # 0
                 THEN [writer EXCEPT !.pc = "write",
                                     !.note = [key |-> key, entry |-> cache[key]]]
                 ELSE [writer EXCEPT !.pc = OnMiss(pc, writer.msg.text)]
  /\ UNCHANGED <<editor, gopls, upVars, outbox, toEditor, shown, pending, cacheVars, exited>>

\* appendSentinelToHover fails on a result without contents.
Appended(m, note) == [m EXCEPT !.note = IF m.text = "null" THEN None ELSE note]

MutantDropsUnchanged ==
  /\ ~exited /\ writer.pc = "write"
  /\ editor.open /\ Room(toEditor)
  /\ toEditor' = IF writer.note # None /\ writer.msg.text = "null" THEN toEditor
                 ELSE Append(toEditor, Appended(writer.msg, writer.note))
  /\ writer' = Idle
  /\ UNCHANGED <<editor, gopls, upVars, outbox, shown, pending, cacheVars, exited>>

WriterWrites ==
  /\ ~exited /\ writer.pc = "write"
  /\ editor.open /\ Room(toEditor)
  /\ toEditor' = Append(toEditor, Appended(writer.msg, writer.note))
  /\ writer' = Idle
  /\ UNCHANGED <<editor, gopls, upVars, outbox, shown, pending, cacheVars, exited>>

\* A write to a standard output nobody reads ends a Go program.
WriterFails ==
  /\ ~exited /\ writer.pc = "write"
  /\ ~editor.open
  /\ exited' = TRUE
  /\ UNCHANGED <<editor, gopls, upVars, downVars, pending, cacheVars>>

WriterStops ==
  /\ ~exited /\ writer.pc = "read"
  /\ IF outbox = <<>> THEN ~gopls.up ELSE Head(outbox).kind = "broken"
  /\ writer' = [writer EXCEPT !.pc = "wait"]
  /\ UNCHANGED <<editor, gopls, upVars, outbox, toEditor, shown, pending, cacheVars, exited>>

\* gopls.Wait, then main returns.
WriterExits ==
  /\ ~exited /\ writer.pc = "wait" /\ ~gopls.up
  /\ exited' = TRUE
  /\ UNCHANGED <<editor, gopls, upVars, downVars, pending, cacheVars>>

\* SetCache (every key) or MergePartial (those of some packages).
CacheReplaced ==
  /\ ~exited /\ version < MaxVersion
  /\ version' = version + 1
  /\ cache' \in {c \in [Keys -> 0..version'] : \A k \in Keys : c[k] \in {cache[k], 0, version'}}
  /\ UNCHANGED <<editor, gopls, upVars, downVars, pending, exited>>

Reader == ReaderReads \/ ReaderStops \/ ReaderTracks \/ ReaderForwards
Writer ==
  \/ WriterReads \/ (\E pc \in {"location", "ssa", "simple"} : WriterLooksUp(pc))
  \/ WriterWrites \/ WriterFails \/ WriterStops \/ WriterExits
Editor == EditorReceives \/ EditorCloses \/ BreakInput \/ \E id \in Ids : Ask(id) \/ Reply(id)
Gopls ==
  GoplsReads \/ GoplsExits \/ BreakOutput \/ \E id \in Ids : GoplsAnswers(id) \/ GoplsAsks(id)

Next == Reader \/ Writer \/ Editor \/ Gopls \/ CacheReplaced

Spec == Init /\ [][Next]_vars

\* The goroutines and the processes at the ends of the pipes are scheduled: the
\* editor reads what it is sent, gopls reads, answers, and exits at the end of
\* its input.
Fairness ==
  /\ WF_vars(Reader) /\ WF_vars(Writer)
  /\ WF_vars(EditorReceives) /\ WF_vars(GoplsReads)
  /\ WF_vars(InputEnded /\ GoplsExits)
  /\ \A id \in Ids : WF_vars(GoplsAnswers(id))

FairSpec == Spec /\ Fairness

-----------------------------------------------------------------------------
(* Properties.                                                             *)

\* What the editor is sent.
Delivered ==
  [kind : {"result", "error", "ask"}, id : Ids, text : Texts, note : Notes]
    \cup [kind : {"garbage", "broken"}, id : {None}, text : Texts, note : Notes]
Labels == {"read", "location", "ssa", "simple", "write", "wait"}

TypeOK ==
  /\ editor \in [open : BOOLEAN, sent : SUBSET Ids, answered : SUBSET Ids, asked : SUBSET Ids]
  /\ gopls \in [up : BOOLEAN, working : SUBSET Ids, asks : 0..MaxAsks, erred : SUBSET Hovers]
  /\ inbox \in Seq(ClientMessages) /\ toGopls \in Seq(ClientMessages)
  /\ outbox \in Seq(ServerMessages) /\ toEditor \in Seq(Delivered)
  /\ Len(inbox) <= Capacity /\ Len(toGopls) <= Capacity
  /\ Len(outbox) <= Capacity /\ Len(toEditor) <= Capacity
  /\ {goplsIn, exited, taken, shown} \subseteq BOOLEAN
  /\ reader \in [pc : {"read", "track", "forward", "stopped"}, msg : ClientMessages \cup {None}]
  /\ writer \in [pc : Labels, msg : ServerMessages \cup {None}, pos : Positions \cup {None},
                 note : Notes, arrived : 0..MaxVersion]
  /\ DOMAIN pending \subseteq Hovers /\ version \in 1..MaxVersion
  /\ cache \in [Keys -> 0..version]

InPipe(pipe, kind) == {pipe[i].id : i \in {j \in DOMAIN pipe : pipe[j].kind = kind}}

\* Hovers that were tracked and whose result has not come back.
InFlight ==
  (IF reader.pc \in {"forward", "stopped"} /\ reader.msg # None /\ Tracked(reader.msg)
   THEN {reader.msg.id} ELSE {})
    \cup InPipe(toGopls, "hover") \cup (gopls.working \cap Hovers)
    \cup (InPipe(outbox, "result") \cap Hovers)

\* The pending map knows exactly the hovers in flight, each at its position, so
\* that no result comes back unknown, and besides them only those gopls
\* answered with an error, which nothing removes (proxy.go:90-117).
PendingExact ==
  /\ DOMAIN pending = InFlight \cup gopls.erred
  /\ \A h \in DOMAIN pending : pending[h] = Pos[h]

\* The atomic lookup that the code spreads over three critical sections.
KeysOf(pos, text) ==
  CASE text = "func"   -> <<pos, "simple">>
    [] text = "method" -> <<pos, "ssa", "simple">>
    [] OTHER           -> <<pos>>

LookedUp(pos, text) ==
  LET keys == KeysOf(pos, text)
      hits == {i \in DOMAIN keys : cache[keys[i]] # 0}
      first == CHOOSE i \in hits : \A j \in hits : i <= j
  IN IF hits = {} THEN None ELSE [key |-> keys[first], entry |-> cache[keys[first]]]

\* A hover is annotated with what one atomic lookup by location, method name
\* and function name would give, unless the cache was replaced meanwhile; then
\* still with an entry of one of its own keys (proxy.go:121-143).
LookupAtomic ==
  writer.pc = "write" /\ writer.pos # None =>
    LET keys == KeysOf(writer.pos, writer.msg.text) IN
      /\ version = writer.arrived => writer.note = LookedUp(writer.pos, writer.msg.text)
      /\ writer.note # None => \E i \in DOMAIN keys : writer.note.key = keys[i]

\* Nothing is lost, duplicated or reordered on the way, whatever goes wrong
\* with one message, and only hover results that have contents are changed
\* (proxy.go:98-156, main.go:184-225).
Holds(m) == IF m = None THEN <<>> ELSE <<m>>
Annotated(m) ==
  IF m.kind = "result" /\ m.id \in Hovers /\ m.text # "null" /\ m.note = None
  THEN {[m EXCEPT !.note = n] : n \in Notes} ELSE {}

Relay == INSTANCE LspRelay WITH
  up <- toGopls \o Holds(reader.msg) \o inbox,
  down <- toEditor \o Holds(writer.msg) \o outbox

RelaysFaithfully == Relay!Spec

\* A session in which nothing went down or broke.
Healthy == editor.open /\ gopls.up /\ reader.pc # "stopped" /\ writer.pc # "wait"

\* Every request is answered while both ends and the proxy run: pipes that are
\* full in both directions do not stop each other (main.go:184-225).
RequestsAnswered == \A id \in Ids : id \in editor.sent ~> (id \in editor.answered \/ ~Healthy)

\* When the editor goes or gopls does, the proxy goes too (main.go:188-193, 213-229).
Terminates == ~(editor.open /\ gopls.up) ~> exited
=============================================================================
