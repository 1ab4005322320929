----------------------------- MODULE LspServer ------------------------------
(***************************************************************************)
(* errsweep-lsp: a language server of its own, which loads the cache once  *)
(* and then answers one message after the other until its input ends or    *)
(* it is told to exit.  The content of a message is                        *)
(*   [parses, id, method, params, size]                                    *)
(* where id is NoId on a notification, and the params of a hover are       *)
(*   [valid, place, context, symbol, contents]                             *)
(* `context` saying whether the part with the names decodes.               *)
(***************************************************************************)
EXTENDS LspFraming, FuncNames, Functions

CONSTANTS
  Messages,             \* what a client may send
  Content,              \* what a message holds
  Headers,              \* Headers[m]: the header lines its frame may have
  NoId,
  Caches,               \* what the loader may build, an entry for each place
  MaxMessages           \* bound: messages sent

ASSUME BoundAssumption == MaxMessages \in Nat

NoCache == [place \in {} |-> <<>>]      \* proxy.NewCache()
Running == -1

Items == [kind : {"length", "bad", "header", "blank", "byte"}, n : Nat,
          of : {None} \cup {{m} : m \in Messages}]

\* A header that the server does not stop at: it has a length and no bad one.
Readable(head) ==
  /\ \E i \in DOMAIN head : head[i].kind = "length"
  /\ BadLength \notin ToSet(head)

\* The last length that a client declares, if any, is that of what it sends.
ASSUME ClientAssumption ==
  \A m \in Messages :
    /\ Content[m].size \in Nat \ {0}
    /\ \A head \in Headers[m] :
         /\ head \in Seq([kind : {"length"}, n : Nat, of : {None}] \cup {BadLength, Header})
         /\ Readable(head) =>
              \E i \in DOMAIN head :
                /\ head[i] = Length(Content[m].size)
                /\ \A j \in DOMAIN head : j > i => head[j].kind # "length"

VARIABLES
  cache,
  wire,                 \* what the client has written and the server not read
  closed,               \* the client's end is closed, perhaps in a message
  shutdown,             \* server.shutdown
  replies,              \* history: the answers, in order
  exit,                 \* Running, or the exit code
  sent                  \* history: the messages written completely

vars == <<cache, wire, closed, shutdown, replies, exit, sent>>

-----------------------------------------------------------------------------
(* The cache.                                                              *)

Entries == {cache[place] : place \in DOMAIN cache}
LookupByFuncName(name) == {e \in Entries : name \in {e.name, simpleFuncName(e.name)}}

\* The entries found under the names of the request, which are merged.
FoundByName(names) ==
  IF names.ssa # <<>> /\ LookupByFuncName(names.ssa) # {} THEN LookupByFuncName(names.ssa)
  ELSE IF names.simple # <<>> THEN LookupByFuncName(names.simple)
  ELSE {}

NameIn(params) ==
  IF params.symbol # <<>> THEN params.symbol ELSE hoverFuncNameFromContents(params.contents)

Names == [m \in Messages |-> extractFuncNames(NameIn(Content[m].params))]

\* The entries whose sentinels are shown, {} for a null result.
handleHover(m) ==
  IF Content[m].params.place \in DOMAIN cache THEN {cache[Content[m].params.place]}
  ELSE IF Content[m].params.context THEN FoundByName(Names[m])
  ELSE {}

Result(error, shown) == [error |-> error, shown |-> shown]
handleRequest(m) ==
  CASE Content[m].method \in {"initialize", "shutdown"}          -> Result(0, {})
    [] Content[m].method = "hover" /\ Content[m].params.valid   -> Result(0, handleHover(m))
    [] Content[m].method = "hover" /\ ~Content[m].params.valid  -> Result(-32602, {})
    [] OTHER                                                    -> Result(-32601, {})

-----------------------------------------------------------------------------
Init ==
  /\ cache \in Caches \cup {NoCache}    \* NoCache: the build has failed
  /\ wire = <<>> /\ closed = FALSE
  /\ shutdown = FALSE
  /\ replies = <<>>
  /\ exit = Running
  /\ sent = <<>>

Bodies == [m \in Messages |-> Body(m, Content[m].size)]

\* The client writes a message, or breaks off in one.
Send ==
  /\ ~closed /\ Len(sent) < MaxMessages
  /\ \E m \in Messages : \E head \in Headers[m] :
       /\ wire' = wire \o head \o <<Blank>> \o Bodies[m]
       /\ sent' = Append(sent, [message |-> m, head |-> head])
  /\ UNCHANGED <<cache, closed, shutdown, replies, exit>>

Breaks ==
  UNION {{SubSeq(writeMessage(m, Content[m].size), 1, k) : k \in 0..(Content[m].size + 1)} :
         m \in Messages}
Break ==
  /\ ~closed
  /\ closed' = TRUE
  /\ \E part \in Breaks : wire' = wire \o part
  /\ UNCHANGED <<cache, shutdown, replies, exit, sent>>

\* What the server reads unmarshals to a message, or to none.
Parsed(frame) ==
  {m \in Messages : Content[m].parses /\ frame.body = Bodies[m]}

\* The loop goes on after an error.
MutantReadsOn(frame) ==
  /\ frame.status = "error"
  /\ UNCHANGED vars
\* run returns, and main.
ReadFails(frame) ==
  /\ frame.status = "error"
  /\ exit' = 0
  /\ UNCHANGED <<cache, wire, closed, shutdown, replies, sent>>

SkipUnparsable(frame) ==
  /\ frame.status = "ok" /\ Parsed(frame) = {}
  /\ wire' = frame.rest
  /\ UNCHANGED <<cache, closed, shutdown, replies, exit, sent>>

\* exit only leaves the loop, as the result of handleNotif would have it.
MutantReturnsTrue == 0
exitCode == IF shutdown THEN 0 ELSE 1

handleNotif(frame) ==
  /\ frame.status = "ok"
  /\ \E m \in Parsed(frame) :
       /\ Content[m].id = NoId
       /\ wire' = frame.rest
       /\ exit' = IF Content[m].method = "exit" THEN exitCode ELSE exit
  /\ UNCHANGED <<cache, closed, shutdown, replies, sent>>

\* An error of which the client cannot tell what it answers.
MutantNullId(id, result) ==
  <<[id |-> IF result.error # 0 THEN NoId ELSE id, error |-> result.error, shown |-> result.shown]>>
reply(id, result) == <<[id |-> id, error |-> result.error, shown |-> result.shown]>>

Serve(frame) ==
  /\ frame.status = "ok"
  /\ \E m \in Parsed(frame) :
       /\ Content[m].id # NoId
       /\ wire' = frame.rest
       /\ shutdown' = (shutdown \/ Content[m].method = "shutdown")
       /\ replies' = replies \o reply(Content[m].id, handleRequest(m))
  /\ UNCHANGED <<cache, closed, exit, sent>>

Stopped == exit # Running /\ UNCHANGED vars

\* An iteration of the loop.
Server ==
  /\ exit = Running
  /\ \E frame \in {readMessage(wire, closed)} :
       ReadFails(frame) \/ SkipUnparsable(frame) \/ handleNotif(frame) \/ Serve(frame)
Next == Send \/ Break \/ Server \/ Stopped

Spec == Init /\ [][Next]_vars
\* The server reads whatever there is to read.
FairSpec == Spec /\ WF_vars(Server)

-----------------------------------------------------------------------------
(* Properties.                                                             *)

IsExit(m) == Content[m].parses /\ Content[m].id = NoId /\ Content[m].method = "exit"
IsRequest(m) == Content[m].parses /\ Content[m].id # NoId

\* The messages that reach the server: up to a frame without a length, or an
\* exit; and the requests among them.
Stops(i) == ~Readable(sent[i].head) \/ IsExit(sent[i].message)
Reaching == {i \in DOMAIN sent : \A j \in 1..i : ~Stops(j)}
Asked == {i \in Reaching : IsRequest(sent[i].message)}
ToldToExit ==
  \E i \in DOMAIN sent :
    1..(i - 1) \subseteq Reaching /\ Readable(sent[i].head) /\ IsExit(sent[i].message)

\* turn[k] is the request that the k-th answer is to: the answers are to the
\* first requests, each to one.
InTurn(turn) ==
  /\ \A k, l \in DOMAIN turn : k < l => turn[k] < turn[l]
  /\ \A k \in DOMAIN turn : {i \in Asked : i <= turn[k]} \subseteq ToSet(turn)
Turns == {turn \in [DOMAIN replies -> Asked] : InTurn(turn)}

\* Every variable has its type: the answers are to requests, with the errors
\* of handleRequest and the entries of the cache (main.go:61-64, 114-126).
TypeOK ==
  /\ cache \in Caches \cup {NoCache}
  /\ wire \in Seq(Items)
  /\ closed \in BOOLEAN /\ shutdown \in BOOLEAN
  /\ replies \in Seq([id : {Content[m].id : m \in Messages} \ {NoId},
                      error : {0, -32601, -32602}, shown : SUBSET Entries])
  /\ exit \in {Running, 0, 1}
  /\ sent \in Seq([message : Messages, head : UNION {Headers[m] : m \in Messages}])

\* Whatever the headers, unparsable bodies and notifications in between: every
\* answer is to the next request in turn, none is left out or repeated, and a
\* server that has nothing left to read has answered all (main.go:69-99).
AnswersInTurn ==
  \E turn \in Turns :
    /\ \A k \in DOMAIN replies : replies[k].id = Content[sent[turn[k]].message].id
    /\ (exit # Running \/ wire = <<>>) => ToSet(turn) = Asked

\* The server ends with 1 exactly when exit comes before a shutdown request,
\* and with 0 after one, or at the end of its input (main.go:101-112).
ExitCode ==
  exit # Running =>
    (exit = 1 <=>
       ToldToExit /\ \A i \in Asked : Content[sent[i].message].method # "shutdown")

\* A name as Go forms them, of a function, perhaps with its package, or of a
\* method; and of such names only.
Formed(name) ==
  /\ name \in Seq(STRING) /\ name # <<>>
  /\ IsIdent(Last(name))
  /\ Len(name) > 1 => name[Len(name) - 1] = "."
  /\ Cuts(name) \subseteq {Len(name) - 2}
NamesFormed ==
  /\ \A built \in Caches : \A place \in DOMAIN built : Formed(built[place].name)
  /\ \A m \in Messages : LET name == NameIn(Content[m].params) IN name = <<>> \/ Formed(name)

\* What the last identifier of a name is: the function's or the method's.
SameFunction(name, e) == Last(name) = Last(e.name)

\* A hover shows the entry of its place, or else entries of the function that
\* it names, of the very name if there are any; it shows nothing only if there
\* are none (main.go:140-193, 200-218; cache.go:209-217).
HoverFinds ==
  \A turn \in Turns : \A k \in DOMAIN replies :
    LET asked  == Content[sent[turn[k]].message]
        params == asked.params
        name   == NameIn(params)
        exact  == {e \in Entries : e.name = name}
        shown  == replies[k].shown
    IN  asked.method = "hover" /\ params.valid =>
          IF params.place \in DOMAIN cache THEN shown = {cache[params.place]}
          ELSE IF ~params.context \/ name = <<>> THEN shown = {}
          ELSE /\ \A e \in shown : SameFunction(name, e)
               /\ (\E e \in Entries : SameFunction(name, e)) => shown # {}
               /\ exact \subseteq shown
               /\ exact # {} /\ Cuts(name) # {} => shown = exact

\* Every request that reaches the server is answered, and the end of the input
\* ends the server.
AllAnswered ==
  /\ []<>(Len(replies) = Cardinality(Asked))
  /\ closed ~> exit # Running
=============================================================================
