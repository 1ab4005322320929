-------------------------- MODULE HoverProxyProofs --------------------------
(***************************************************************************)
(* Proofs about the message path, for every set of requests and positions, *)
(* every size of the pipes and every number of caches.                     *)
(***************************************************************************)
EXTENDS HoverProxy, SequenceTheorems, TLAPS

\* What the goroutines hold at each of their points.
Control ==
  /\ reader.pc = "read" => reader.msg = None
  /\ reader.pc \in {"track", "forward"} => reader.msg # None
  /\ writer.pc \in {"read", "wait"} <=> writer.msg = None

\* The stages of a hover, until its answer is read or was an error.
Unread    == InPipe(inbox, "hover")
Held      == IF reader.msg # None /\ Tracked(reader.msg) THEN {reader.msg.id} ELSE {}
Forwarded == InPipe(toGopls, "hover")
Working   == gopls.working \cap Hovers
Results   == InPipe(outbox, "result") \cap Hovers

\* Hovers gopls was sent whose result has not been read.
Past == Forwarded \cup Working \cup Results \cup gopls.erred

\* A pipe has one message of this kind for a hover.
NoTwin(pipe, kind) ==
  \A i, j \in DOMAIN pipe :
    pipe[i].kind = kind /\ pipe[j].kind = kind /\ pipe[i].id \in Hovers
      /\ pipe[i].id = pipe[j].id => i = j

\* A hover is in one place at a time.
HoverOnce ==
  /\ Results \cap gopls.erred = {}
  /\ Working \cap (Results \cup gopls.erred) = {}
  /\ Forwarded \cap (Working \cup Results \cup gopls.erred) = {}
  /\ Held \cap (Forwarded \cup Working \cup Results \cup gopls.erred) = {}
  /\ Unread \cap (Held \cup Forwarded \cup Working \cup Results \cup gopls.erred) = {}
  /\ Unread \cup Held \cup Forwarded \cup Working \cup Results \cup gopls.erred \subseteq editor.sent
  /\ NoTwin(inbox, "hover") /\ NoTwin(toGopls, "hover") /\ NoTwin(outbox, "result")

\* The lookups that have missed, as long as the cache they were made in is
\* still the one installed.
Looking ==
  /\ writer.arrived <= version
  /\ writer.pc \in {"location", "ssa", "simple"} \/ writer.note # None =>
       /\ writer.pos \in Positions
       /\ writer.msg.kind = "result" /\ writer.msg.id \in Hovers
  /\ writer.pc \in {"location", "ssa", "simple"} => writer.note = None
  /\ writer.pc = "ssa" => writer.msg.text = "method"
  /\ writer.pc = "simple" => writer.msg.text \in {"func", "method"}
  /\ version = writer.arrived =>
       /\ writer.pc \in {"ssa", "simple"} => cache[writer.pos] = 0
       /\ writer.pc = "simple" /\ writer.msg.text = "method" => cache["ssa"] = 0

IInv == TypeOK /\ Control /\ HoverOnce /\ PendingExact /\ Looking /\ LookupAtomic

-----------------------------------------------------------------------------
(* What messages look like.                                                *)

LEMMA ClientShapes ==
  ASSUME NEW m \in ClientMessages
  PROVE  /\ m.kind \in {"hover", "request", "reply", "broken"} /\ m.note = None
         /\ m.kind = "hover" => m.id \in Hovers
         /\ m.kind = "request" => m.id \in Requests
         /\ m.kind # "broken" => m.id \in Ids
         /\ m # None
  BY HoverAssumption DEF ClientMessages, Msg, Ids

LEMMA ServerShapes ==
  ASSUME NEW m \in ServerMessages
  PROVE  /\ m.note = None
         /\ m.kind \in {"result", "error", "ask"} => m.id \in Ids
         /\ m.text \in Texts
         /\ \A n \in Notes : [m EXCEPT !.note = n] \in Delivered
         /\ [m EXCEPT !.note = None] = m
         /\ m # None
  BY HoverAssumption DEF ServerMessages, Delivered, Msg, Result, Ids, Texts

LEMMA SentShapes ==
  /\ \A h \in Hovers : Msg("hover", h) \in ClientMessages
  /\ \A r \in Ids \ Hovers : Msg("request", r) \in ClientMessages
  /\ \A id \in Ids : Msg("reply", id) \in ClientMessages
  /\ Msg("broken", None) \in ClientMessages
  BY DEF ClientMessages, Ids

LEMMA AnsweredShapes ==
  /\ \A id \in Ids, t \in Texts : Result(id, t) \in ServerMessages
  /\ \A id \in Ids : Msg("error", id) \in ServerMessages /\ Msg("ask", id) \in ServerMessages
  /\ Msg("garbage", None) \in ServerMessages /\ Msg("broken", None) \in ServerMessages
  BY DEF ServerMessages

\* Texts an answer may have are texts.
LEMMA AnswerTextsTyped == \A id \in Ids : AnswerTexts(id) \subseteq Texts
  BY DEF AnswerTexts, Texts

-----------------------------------------------------------------------------
(* Pipes.                                                                  *)

LEMMA PipeAppend ==
  ASSUME NEW S, NEW s \in Seq(S), NEW m \in S, NEW kind
  PROVE  InPipe(Append(s, m), kind) =
           InPipe(s, kind) \cup (IF m.kind = kind THEN {m.id} ELSE {})
<1>1. DOMAIN Append(s, m) = DOMAIN s \cup {Len(s) + 1}
  BY AppendProperties, LenProperties
<1>2. \A i \in DOMAIN s : Append(s, m)[i] = s[i]
  BY AppendProperties, LenProperties
<1>3. Append(s, m)[Len(s) + 1] = m
  BY AppendProperties
<1> QED  BY <1>1, <1>2, <1>3 DEF InPipe

LEMMA PipeTail ==
  ASSUME NEW S, NEW s \in Seq(S), s # <<>>, NEW kind
  PROVE  InPipe(s, kind) =
           InPipe(Tail(s), kind) \cup (IF Head(s).kind = kind THEN {Head(s).id} ELSE {})
<1>1. DOMAIN s = 1..Len(s) /\ Len(s) \in Nat \ {0}
  BY LenProperties, EmptySeq
<1>2. DOMAIN Tail(s) = 1..(Len(s) - 1) /\ \A i \in DOMAIN Tail(s) : Tail(s)[i] = s[i + 1]
  BY HeadTailProperties, LenProperties
<1>3. Head(s) = s[1]
  BY HeadTailProperties
<1>4. \A i \in DOMAIN s : i = 1 \/ (i - 1 \in DOMAIN Tail(s) /\ s[i] = Tail(s)[i - 1])
  BY <1>1, <1>2
<1>5. \A i \in DOMAIN Tail(s) : i + 1 \in DOMAIN s
  BY <1>1, <1>2
<1>6. InPipe(s, kind) \subseteq
        InPipe(Tail(s), kind) \cup (IF Head(s).kind = kind THEN {Head(s).id} ELSE {})
  <2> SUFFICES ASSUME NEW i \in DOMAIN s, s[i].kind = kind
               PROVE  \/ s[i].id \in InPipe(Tail(s), kind)
                      \/ Head(s).kind = kind /\ Head(s).id = s[i].id
    BY DEF InPipe
  <2>1. CASE i = 1
    BY <2>1, <1>3
  <2>2. CASE i - 1 \in DOMAIN Tail(s) /\ s[i] = Tail(s)[i - 1]
    BY <2>2 DEF InPipe
  <2> QED  BY <2>1, <2>2, <1>4
<1>7. InPipe(Tail(s), kind) \subseteq InPipe(s, kind)
  BY <1>2, <1>5 DEF InPipe
<1>8. 1 \in DOMAIN s
  BY <1>1
<1> QED  BY <1>3, <1>6, <1>7, <1>8 DEF InPipe

LEMMA TwinAppend ==
  ASSUME NEW S, NEW s \in Seq(S), NEW m \in S, NEW kind, NoTwin(s, kind),
         m.kind = kind /\ m.id \in Hovers => m.id \notin InPipe(s, kind)
  PROVE  NoTwin(Append(s, m), kind)
<1>1. DOMAIN Append(s, m) = DOMAIN s \cup {Len(s) + 1} /\ Len(s) + 1 \notin DOMAIN s
  BY AppendProperties, LenProperties
<1>2. \A i \in DOMAIN s : Append(s, m)[i] = s[i]
  BY AppendProperties, LenProperties
<1>3. Append(s, m)[Len(s) + 1] = m
  BY AppendProperties
<1> QED  BY <1>1, <1>2, <1>3 DEF InPipe, NoTwin

LEMMA TwinTail ==
  ASSUME NEW S, NEW s \in Seq(S), s # <<>>, NEW kind, NoTwin(s, kind)
  PROVE  /\ NoTwin(Tail(s), kind)
         /\ Head(s).kind = kind /\ Head(s).id \in Hovers =>
              Head(s).id \notin InPipe(Tail(s), kind)
<1>1. DOMAIN s = 1..Len(s) /\ Len(s) \in Nat \ {0}
  BY LenProperties, EmptySeq
<1>2. DOMAIN Tail(s) = 1..(Len(s) - 1) /\ \A i \in DOMAIN Tail(s) : Tail(s)[i] = s[i + 1]
  BY HeadTailProperties, LenProperties
<1>3. Head(s) = s[1] /\ 1 \in DOMAIN s
  BY <1>1, HeadTailProperties
<1>4. \A i \in DOMAIN Tail(s) : i + 1 \in DOMAIN s /\ i + 1 # 1 /\ i \in Nat
  BY <1>1, <1>2
<1>5. NoTwin(Tail(s), kind)
  <2> SUFFICES ASSUME NEW i \in DOMAIN Tail(s), NEW j \in DOMAIN Tail(s),
                      Tail(s)[i].kind = kind, Tail(s)[j].kind = kind,
                      Tail(s)[i].id \in Hovers, Tail(s)[i].id = Tail(s)[j].id
               PROVE  i = j
    BY DEF NoTwin
  <2>1. i + 1 = j + 1
    BY <1>2, <1>4 DEF NoTwin
  <2> QED  BY <2>1, <1>4
<1> QED  BY <1>2, <1>3, <1>4, <1>5 DEF InPipe, NoTwin

LEMMA TailTyped ==
  ASSUME NEW S, NEW s \in Seq(S), s # <<>>
  PROVE  Head(s) \in S /\ Tail(s) \in Seq(S) /\ Len(Tail(s)) = Len(s) - 1 /\ Len(s) \in Nat
  BY HeadTailProperties, LenProperties

LEMMA RoomTyped ==
  ASSUME NEW S, NEW s \in Seq(S), NEW m \in S, Room(s)
  PROVE  Append(s, m) \in Seq(S) /\ Len(Append(s, m)) <= Capacity
  BY AppendProperties, LenProperties, HoverAssumption DEF Room

-----------------------------------------------------------------------------
(* Types.                                                                  *)

LEMMA InitInv == Init => IInv
<1> SUFFICES ASSUME Init  PROVE IInv
  OBVIOUS
<1>1. TypeOK
  <2>1. cache \in [Keys -> 0..version] /\ version \in 1..MaxVersion /\ 0 \in 0..MaxVersion
    BY HoverAssumption DEF Init
  <2>2. Len(<<>>) <= Capacity
    BY EmptySeq, HoverAssumption
  <2>3. /\ inbox \in Seq(ClientMessages) /\ toGopls \in Seq(ClientMessages)
        /\ outbox \in Seq(ServerMessages)
        /\ toEditor \in Seq(Delivered)
    BY EmptySeq DEF Init
  <2>4. DOMAIN pending = {}
    BY DEF Init
  <2>5. 0 \in 0..MaxAsks
    BY HoverAssumption
  <2> QED  BY <2>1, <2>2, <2>3, <2>4, <2>5 DEF Init, TypeOK, Idle, Labels, Notes
<1>2. Control
  BY DEF Init, Control, Idle
<1>3. InFlight = {} /\ HoverOnce
  BY DEF Init, InFlight, HoverOnce, NoTwin, Results, Working, Forwarded, Held, Unread, InPipe
<1>4. PendingExact
  BY <1>3 DEF Init, PendingExact
<1>5. Looking /\ LookupAtomic
  BY DEF Init, Looking, LookupAtomic, Idle
<1> QED  BY <1>1, <1>2, <1>3, <1>4, <1>5 DEF IInv

LEMMA ReaderTypes == TypeOK /\ Control /\ Reader => TypeOK'
<1> SUFFICES ASSUME TypeOK, Control, Reader  PROVE TypeOK'
  OBVIOUS
<1>1. CASE ReaderReads
  BY SMTT(40), <1>1, TailTyped, HoverAssumption DEF TypeOK, ReaderReads, After, downVars, cacheVars
<1>2. CASE ReaderStops
  BY <1>2 DEF TypeOK, ReaderStops, downVars, cacheVars
<1>3. CASE ReaderTracks
  BY ZenonT(40), <1>3, ClientShapes DEF TypeOK, Control, ReaderTracks, After, Tracked, downVars, cacheVars
<1>4. CASE ReaderForwards
  <2>1. reader.msg \in ClientMessages
    BY <1>4 DEF TypeOK, Control, ReaderForwards
  <2>2. CASE gopls.up /\ Room(toGopls)
    <3>1. Append(toGopls, reader.msg) \in Seq(ClientMessages)
            /\ Len(Append(toGopls, reader.msg)) <= Capacity
      BY <2>1, <2>2, RoomTyped DEF TypeOK
    <3>2. reader' \in [pc : {"read", "track", "forward", "stopped"}, msg : ClientMessages \cup {None}]
            /\ toGopls' \in {toGopls, Append(toGopls, reader.msg)}
      BY <1>4, <2>1, <2>2 DEF ReaderForwards, After, TypeOK
    <3> QED  BY <1>4, <3>1, <3>2 DEF TypeOK, ReaderForwards, downVars, cacheVars
  <2>3. CASE ~(gopls.up /\ Room(toGopls))
    BY <1>4, <2>3 DEF TypeOK, ReaderForwards, downVars, cacheVars
  <2> QED  BY <2>2, <2>3
<1> QED  BY <1>1, <1>2, <1>3, <1>4 DEF Reader

LEMMA EditorTypes == TypeOK /\ Editor => TypeOK'
<1> SUFFICES ASSUME TypeOK, Editor  PROVE TypeOK'
  OBVIOUS
<1>1. ASSUME NEW m \in ClientMessages, EditorSends(m),
             editor' \in [open : BOOLEAN, sent : SUBSET Ids, answered : SUBSET Ids, asked : SUBSET Ids]
      PROVE  TypeOK'
  BY <1>1, RoomTyped DEF TypeOK, EditorSends, downVars, cacheVars
<1>2. ASSUME NEW id \in Ids, Ask(id)  PROVE TypeOK'
  BY <1>1, <1>2, SentShapes DEF Ask, TypeOK
<1>3. ASSUME NEW id \in Ids, Reply(id)  PROVE TypeOK'
  BY <1>1, <1>3, SentShapes DEF Reply, TypeOK
<1>4. CASE BreakInput
  BY <1>1, <1>4, SentShapes DEF BreakInput, TypeOK
<1>5. CASE EditorReceives
  <2> DEFINE m == Head(toEditor)
  <2>1. m \in Delivered /\ Tail(toEditor) \in Seq(Delivered) /\ Len(Tail(toEditor)) <= Capacity
    BY <1>5, TailTyped, HoverAssumption DEF EditorReceives, TypeOK
  <2>2. m.kind \in {"result", "error", "ask"} => m.id \in Ids
    BY <2>1 DEF Delivered
  <2>3. editor' \in [open : BOOLEAN, sent : SUBSET Ids, answered : SUBSET Ids, asked : SUBSET Ids]
    BY <1>5, <2>2 DEF EditorReceives, TypeOK
  <2> QED  BY <1>5, <2>1, <2>3 DEF EditorReceives, TypeOK, upVars, cacheVars
<1>6. CASE EditorCloses
  BY <1>6 DEF EditorCloses, TypeOK, upVars, downVars, cacheVars
<1> QED  BY <1>2, <1>3, <1>4, <1>5, <1>6 DEF Editor

LEMMA GoplsTypes == TypeOK /\ Gopls => TypeOK'
<1> SUFFICES ASSUME TypeOK, Gopls  PROVE TypeOK'
  OBVIOUS
<1>1. ASSUME NEW m \in ServerMessages, GoplsSends(m),
             gopls' \in [up : BOOLEAN, working : SUBSET Ids, asks : 0..MaxAsks, erred : SUBSET Hovers]
      PROVE  TypeOK'
  BY <1>1, RoomTyped DEF TypeOK, GoplsSends, upVars, cacheVars
<1>2. ASSUME NEW id \in Ids, GoplsAnswers(id)  PROVE TypeOK'
  <2>1. \E m \in ServerMessages : GoplsSends(m)
    BY <1>2, AnsweredShapes, AnswerTextsTyped DEF GoplsAnswers
  <2>2. gopls' \in [up : BOOLEAN, working : SUBSET Ids, asks : 0..MaxAsks, erred : SUBSET Hovers]
    <3>1. \/ gopls' = [gopls EXCEPT !.working = @ \ {id}]
          \/ gopls' = [gopls EXCEPT !.working = @ \ {id}, !.erred = @ \cup ({id} \cap Hovers)]
      BY <1>2 DEF GoplsAnswers
    <3> DEFINE working == gopls.working \ {id}
               erred == gopls.erred \cup ({id} \cap Hovers)
    <3>2. working \in SUBSET Ids /\ erred \in SUBSET Hovers
      BY DEF TypeOK
    <3>3. gopls' \in {[gopls EXCEPT !.working = working],
                     [gopls EXCEPT !.working = working, !.erred = erred]}
      BY <3>1
    <3> QED
      <4> HIDE DEF working, erred
      <4> QED  BY <3>2, <3>3 DEF TypeOK
  <2> QED  BY <1>1, <2>1, <2>2
<1>3. ASSUME NEW id \in Ids, GoplsAsks(id)  PROVE TypeOK'
  <2>1. GoplsSends(Msg("ask", id)) /\ Msg("ask", id) \in ServerMessages
    BY <1>3, AnsweredShapes DEF GoplsAsks
  <2>2. gopls' \in [up : BOOLEAN, working : SUBSET Ids, asks : 0..MaxAsks, erred : SUBSET Hovers]
    <3>1. gopls.asks + 1 \in 0..MaxAsks /\ gopls' = [gopls EXCEPT !.asks = gopls.asks + 1]
      BY <1>3, HoverAssumption DEF GoplsAsks, TypeOK
    <3> QED  BY <3>1 DEF TypeOK
  <2> QED  BY <1>1, <2>1, <2>2
<1>4. CASE BreakOutput
  <2>1. \E m \in ServerMessages : GoplsSends(m)
    BY <1>4, AnsweredShapes DEF BreakOutput
  <2>2. gopls' \in [up : BOOLEAN, working : SUBSET Ids, asks : 0..MaxAsks, erred : SUBSET Hovers]
    BY <1>4 DEF BreakOutput, TypeOK
  <2> QED  BY <1>1, <2>1, <2>2
<1>5. CASE GoplsReads
  <2> DEFINE m == Head(toGopls)
  <2>1. m \in ClientMessages /\ Tail(toGopls) \in Seq(ClientMessages) /\ Len(Tail(toGopls)) <= Capacity
    BY <1>5, TailTyped, HoverAssumption DEF GoplsReads, TypeOK
  <2>2. m.kind \in {"hover", "request"} => m.id \in Ids
    BY <2>1, ClientShapes
  <2>3. gopls' \in [up : BOOLEAN, working : SUBSET Ids, asks : 0..MaxAsks, erred : SUBSET Hovers]
    BY <1>5, <2>2 DEF GoplsReads, TypeOK
  <2> QED  BY <1>5, <2>1, <2>3 DEF GoplsReads, TypeOK, downVars, cacheVars
<1>6. CASE GoplsExits
  BY <1>6 DEF GoplsExits, TypeOK, upVars, downVars, cacheVars
<1> QED  BY <1>2, <1>3, <1>4, <1>5, <1>6 DEF Gopls

LEMMA WriterTypes == IInv /\ Writer => TypeOK'
<1> SUFFICES ASSUME IInv, Writer  PROVE TypeOK'
  OBVIOUS
<1> USE DEF IInv
<1>1. CASE WriterReads
  <2>1. /\ Head(outbox) \in ServerMessages
        /\ Tail(outbox) \in Seq(ServerMessages) /\ Len(Tail(outbox)) <= Capacity
    BY <1>1, TailTyped, HoverAssumption DEF WriterReads, TypeOK
  <2>2. \A h \in DOMAIN pending : pending[h] \in Positions
    BY HoverAssumption DEF TypeOK, PendingExact
  <2>3. version \in 0..MaxVersion
    BY HoverAssumption DEF TypeOK
  <2>4. writer' \in [pc : Labels, msg : ServerMessages \cup {None}, pos : Positions \cup {None},
                     note : Notes, arrived : 0..MaxVersion]
    BY <1>1, <2>1, <2>2, <2>3 DEF WriterReads, Labels, Notes
  <2>5. DOMAIN pending' \subseteq Hovers
    BY <1>1 DEF WriterReads, TypeOK
  <2> QED  BY <1>1, <2>1, <2>4, <2>5 DEF WriterReads, TypeOK, upVars, cacheVars
<1>2. ASSUME NEW pc \in {"location", "ssa", "simple"}, WriterLooksUp(pc)  PROVE TypeOK'
  <2> DEFINE key == IF pc = "location" THEN writer.pos ELSE pc
  <2>1. key \in Keys
    BY <1>2 DEF WriterLooksUp, Looking, TypeOK, Keys, Names
  <2>2. cache[key] # 0 => cache[key] \in 1..MaxVersion
    <3> HIDE DEF key
    <3> QED  BY <2>1, HoverAssumption DEF TypeOK
  <2>3. OnMiss(pc, writer.msg.text) \in Labels
    BY DEF OnMiss, Labels
  <2>4. cache[key] # 0 => [key |-> key, entry |-> cache[key]] \in Notes
    BY <2>1, <2>2 DEF Notes
  <2>5. writer' \in [pc : Labels, msg : ServerMessages \cup {None}, pos : Positions \cup {None},
                     note : Notes, arrived : 0..MaxVersion]
    BY <1>2, <2>3, <2>4 DEF WriterLooksUp, TypeOK, Labels
  <2> QED  BY <1>2, <2>5 DEF WriterLooksUp, TypeOK, upVars, cacheVars
<1>3. CASE WriterWrites
  <2>1. Appended(writer.msg, writer.note) \in Delivered
    BY <1>3, ServerShapes DEF WriterWrites, TypeOK, Control, Appended, Notes
  <2>2. /\ Append(toEditor, Appended(writer.msg, writer.note)) \in Seq(Delivered)
        /\ Len(Append(toEditor, Appended(writer.msg, writer.note))) <= Capacity
    BY <1>3, <2>1, RoomTyped DEF WriterWrites, TypeOK
  <2>3. 0 \in 0..MaxVersion
    BY HoverAssumption
  <2> QED
    BY <1>3, <2>2, <2>3 DEF WriterWrites, TypeOK, Idle, Labels, Notes, upVars, cacheVars
<1>4. CASE WriterFails \/ WriterExits
  BY ZenonT(40), <1>4 DEF WriterFails, WriterExits, TypeOK, upVars, downVars, cacheVars
<1>5. CASE WriterStops
  BY <1>5 DEF WriterStops, TypeOK, Labels, upVars, cacheVars
<1> QED  BY <1>1, <1>2, <1>3, <1>4, <1>5 DEF Writer

LEMMA CacheTypes == TypeOK /\ CacheReplaced => TypeOK'
  BY HoverAssumption DEF CacheReplaced, TypeOK, upVars, downVars

LEMMA NextTypes == IInv /\ [Next]_vars => TypeOK'
<1>1. TypeOK /\ UNCHANGED vars => TypeOK'
  BY DEF vars, upVars, downVars, cacheVars, TypeOK
<1> QED
  BY <1>1, ReaderTypes, EditorTypes, GoplsTypes, WriterTypes, CacheTypes DEF IInv, Next

-----------------------------------------------------------------------------
(* What the goroutines hold.                                               *)

LEMMA NextControl == TypeOK /\ Control /\ [Next]_vars => Control'
<1> SUFFICES ASSUME TypeOK, Control, [Next]_vars  PROVE Control'
  OBVIOUS
<1>1. CASE Reader
  <2>1. CASE ReaderReads
    <3>1. Head(inbox) # None
      BY <2>1, TailTyped, ClientShapes DEF ReaderReads, TypeOK
    <3> QED  BY <2>1, <3>1 DEF ReaderReads, After, Control, downVars
  <2>2. CASE ReaderStops \/ ReaderTracks \/ ReaderForwards
    BY <2>2 DEF ReaderStops, ReaderTracks, ReaderForwards, After, Control, TypeOK, downVars
  <2> QED  BY <1>1, <2>1, <2>2 DEF Reader
<1>2. CASE Writer
  <2>1. CASE WriterReads
    <3>1. Head(outbox) # None
      BY <2>1, TailTyped, ServerShapes DEF WriterReads, TypeOK
    <3> QED  BY <2>1, <3>1 DEF WriterReads, Control, upVars
  <2>2. ASSUME NEW pc \in {"location", "ssa", "simple"}, WriterLooksUp(pc)  PROVE Control'
    <3>1. OnMiss(pc, writer.msg.text) \in {"ssa", "simple", "write"}
      BY DEF OnMiss
    <3>2. writer'.msg = writer.msg /\ writer'.pc \in {"ssa", "simple", "write"}
      BY <2>2, <3>1 DEF WriterLooksUp, TypeOK
    <3> QED  BY <2>2, <3>2 DEF WriterLooksUp, Control, upVars
  <2>3. CASE WriterWrites \/ WriterFails \/ WriterExits \/ WriterStops
    BY <2>3 DEF WriterWrites, WriterFails, WriterExits, WriterStops, Idle, Control, TypeOK, upVars, downVars
  <2> QED  BY <1>2, <2>1, <2>2, <2>3 DEF Writer
<1>3. CASE Editor \/ Gopls \/ CacheReplaced \/ UNCHANGED vars
  <2>1. UNCHANGED <<reader, writer>>
    BY <1>3 DEF Editor, EditorReceives, EditorCloses, BreakInput, EditorSends, Ask, Reply, Gopls,
       GoplsReads, GoplsExits, BreakOutput, GoplsSends, GoplsAnswers, GoplsAsks, CacheReplaced,
       vars, upVars, downVars
  <2> QED  BY <2>1 DEF Control
<1> QED  BY <1>1, <1>2, <1>3 DEF Next

-----------------------------------------------------------------------------
(* Lookups.                                                                *)

\* The atomic lookup gives the entry of the first key that has one.
LEMMA FirstHit ==
  ASSUME NEW pos, NEW text, DOMAIN KeysOf(pos, text) \subseteq Nat,
         NEW i \in DOMAIN KeysOf(pos, text), cache[KeysOf(pos, text)[i]] # 0,
         \A j \in DOMAIN KeysOf(pos, text) : j < i => cache[KeysOf(pos, text)[j]] = 0
  PROVE  LookedUp(pos, text) = [key |-> KeysOf(pos, text)[i], entry |-> cache[KeysOf(pos, text)[i]]]
<1> DEFINE keys == KeysOf(pos, text)
           hits == {k \in DOMAIN keys : cache[keys[k]] # 0}
           first == CHOOSE k \in hits : \A j \in hits : k <= j
<1>1. i \in hits /\ \A j \in hits : i <= j
  OBVIOUS
<1>2. first \in hits /\ \A j \in hits : first <= j
  BY <1>1
<1>3. first = i
  BY <1>1, <1>2
<1> QED  BY <1>1, <1>3 DEF LookedUp

LEMMA NoHit ==
  ASSUME NEW pos, NEW text,
         \A j \in DOMAIN KeysOf(pos, text) : cache[KeysOf(pos, text)[j]] = 0
  PROVE  LookedUp(pos, text) = None
  BY DEF LookedUp

\* The step that reads a result starts its first lookup.
LEMMA ReadLooks == IInv /\ WriterReads => Looking' /\ LookupAtomic'
<1> SUFFICES ASSUME IInv, WriterReads  PROVE Looking' /\ LookupAtomic'
  OBVIOUS
<1> DEFINE m == Head(outbox)
           hover == m.kind = "result" /\ m.id \in DOMAIN pending
<1>1. writer' = [pc |-> IF hover THEN "location" ELSE "write", msg |-> m,
                 pos |-> IF hover THEN pending[m.id] ELSE None,
                 note |-> None, arrived |-> version]
  BY DEF WriterReads
<1>2. hover => pending[m.id] \in Positions /\ m.id \in Hovers
  BY HoverAssumption DEF IInv, PendingExact, TypeOK
<1>3. version' = version /\ version \in Nat
  BY HoverAssumption DEF WriterReads, cacheVars, IInv, TypeOK
<1> QED  BY <1>1, <1>2, <1>3 DEF Looking, LookupAtomic

LEMMA LookLooks ==
  ASSUME IInv, NEW pc \in {"location", "ssa", "simple"}, WriterLooksUp(pc)
  PROVE  Looking' /\ LookupAtomic'
<1> DEFINE key == IF pc = "location" THEN writer.pos ELSE pc
           text == writer.msg.text
           hit == cache[key] # 0
<1>1. /\ writer.pc = pc /\ writer.pos \in Positions /\ writer.note = None
      /\ writer.msg.kind = "result" /\ writer.msg.id \in Hovers
      /\ pc = "ssa" => text = "method"
      /\ pc = "simple" => text \in {"func", "method"}
  BY DEF IInv, Looking, WriterLooksUp
<1>2. UNCHANGED <<cache, version>>
  BY DEF WriterLooksUp, cacheVars
<1>3. writer' = IF hit THEN [writer EXCEPT !.pc = "write", !.note = [key |-> key, entry |-> cache[key]]]
                ELSE [writer EXCEPT !.pc = OnMiss(pc, text)]
  BY DEF WriterLooksUp
<1>4. /\ writer'.msg = writer.msg /\ writer'.pos = writer.pos /\ writer'.arrived = writer.arrived
      /\ hit => writer'.pc = "write" /\ writer'.note = [key |-> key, entry |-> cache[key]]
      /\ ~hit => writer'.pc = OnMiss(pc, text) /\ writer'.note = None
  BY <1>1, <1>3 DEF IInv, TypeOK
<1>5. version = writer.arrived =>
        /\ pc \in {"ssa", "simple"} => cache[writer.pos] = 0
        /\ pc = "simple" /\ text = "method" => cache["ssa"] = 0
  BY <1>1 DEF IInv, Looking
<1>6. Looking'
  <2> HIDE DEF key, text
  <2>1. writer.arrived <= version
    BY DEF IInv, Looking
  <2>2. CASE hit
    BY <2>1, <2>2, <1>1, <1>2, <1>4 DEF Looking
  <2>3. CASE ~hit
    <3>1. OnMiss(pc, text) = "ssa" => pc = "location" /\ text = "method"
      BY DEF OnMiss
    <3>2. OnMiss(pc, text) = "simple" =>
            text \in {"func", "method"} /\ (pc = "ssa" \/ (pc = "location" /\ text = "func"))
      BY <1>1 DEF OnMiss
    <3>3. OnMiss(pc, text) # "location"
      BY DEF OnMiss
    <3> QED  BY <2>1, <2>3, <3>1, <3>2, <3>3, <1>1, <1>2, <1>4, <1>5 DEF Looking, key, text
  <2> QED  BY <2>2, <2>3
<1>7. LookupAtomic'
  <2> SUFFICES ASSUME writer'.pc = "write"
               PROVE  LET keys == KeysOf(writer.pos, text) IN
                      /\ version = writer.arrived => writer'.note = LookedUp(writer.pos, text)
                      /\ writer'.note # None => \E i \in DOMAIN keys : writer'.note.key = keys[i]
    BY ZenonT(40), <1>2, <1>4 DEF LookupAtomic, LookedUp
  <2> DEFINE keys == KeysOf(writer.pos, text)
  <2>1. /\ text = "method" => keys = <<writer.pos, "ssa", "simple">>
        /\ text = "func" => keys = <<writer.pos, "simple">>
        /\ text \notin {"method", "func"} => keys = <<writer.pos>>
    BY DEF KeysOf
  <2>2. DOMAIN keys \subseteq Nat
    BY <2>1
  <2> HIDE DEF text
  <2>3. CASE hit
    <3>1. PICK i \in DOMAIN keys :
            keys[i] = key /\ (version = writer.arrived => \A j \in DOMAIN keys : j < i => cache[keys[j]] = 0)
      <4>1. CASE pc = "location"
        <5>1. 1 \in DOMAIN keys /\ keys[1] = key /\ \A j \in DOMAIN keys : ~(j < 1)
          BY <2>1, <4>1
        <5> QED  BY <5>1
      <4>2. CASE pc = "ssa"
        <5>1. DOMAIN keys = 1..3 /\ keys[2] = key /\ keys[1] = writer.pos
          BY <2>1, <4>2, <1>1
        <5> QED  BY <5>1, <4>2, <1>5
      <4>3. CASE pc = "simple" /\ text = "method"
        <5>1. DOMAIN keys = 1..3 /\ keys[3] = key /\ keys[2] = "ssa" /\ keys[1] = writer.pos
          BY <2>1, <4>3
        <5> QED  BY <5>1, <4>3, <1>5
      <4>4. CASE pc = "simple" /\ text = "func"
        <5>1. DOMAIN keys = 1..2 /\ keys[2] = key /\ keys[1] = writer.pos
          BY <2>1, <4>4
        <5> QED  BY <5>1, <4>4, <1>5
      <4> QED  BY <4>1, <4>2, <4>3, <4>4, <1>1
    <3>2. writer'.note = [key |-> keys[i], entry |-> cache[keys[i]]]
      BY <2>3, <3>1, <1>4
    <3>3. version = writer.arrived => LookedUp(writer.pos, text) = writer'.note
      BY <2>2, <2>3, <3>1, <3>2, FirstHit
    <3> QED  BY <3>2, <3>3
  <2>4. CASE ~hit
    <3>1. OnMiss(pc, text) = "write"
      BY <2>4, <1>4
    <3>2. (pc = "location" /\ text \notin {"method", "func"}) \/ pc = "simple"
      BY <3>1 DEF OnMiss
    <3>3. version = writer.arrived => \A j \in DOMAIN keys : cache[keys[j]] = 0
      <4>1. CASE pc = "location" /\ text \notin {"method", "func"}
        BY <4>1, <2>1, <2>4
      <4>2. CASE pc = "simple" /\ text = "method"
        <5>1. DOMAIN keys = 1..3 /\ keys[3] = key /\ keys[2] = "ssa" /\ keys[1] = writer.pos
          BY <2>1, <4>2
        <5> QED  BY <5>1, <4>2, <1>5, <2>4
      <4>3. CASE pc = "simple" /\ text = "func"
        <5>1. DOMAIN keys = 1..2 /\ keys[2] = key /\ keys[1] = writer.pos
          BY <2>1, <4>3
        <5> QED  BY <5>1, <4>3, <1>5, <2>4
      <4> QED  BY <4>1, <4>2, <4>3, <3>2, <1>1
    <3>4. version = writer.arrived => LookedUp(writer.pos, text) = None
      BY <3>3, NoHit
    <3> QED  BY <2>4, <3>4, <1>4
  <2> QED  BY <2>3, <2>4
<1> QED  BY <1>6, <1>7

LEMMA NextLooks == IInv /\ [Next]_vars => Looking' /\ LookupAtomic'
<1> SUFFICES ASSUME IInv, [Next]_vars  PROVE Looking' /\ LookupAtomic'
  OBVIOUS
<1>1. CASE UNCHANGED <<writer, cache, version>>
  <2>1. Looking'
    BY <1>1 DEF IInv, Looking
  <2>2. LookupAtomic'
    BY ZenonT(40), <1>1 DEF IInv, LookupAtomic, LookedUp
  <2> QED  BY <2>1, <2>2
<1>2. CASE Writer
  <2>1. CASE WriterReads
    BY <2>1, ReadLooks
  <2>2. ASSUME NEW pc \in {"location", "ssa", "simple"}, WriterLooksUp(pc)
        PROVE  Looking' /\ LookupAtomic'
    BY <2>2, LookLooks
  <2>3. CASE WriterWrites
    <3>1. writer' = Idle /\ version' = version /\ version \in Nat
      BY <2>3, HoverAssumption DEF WriterWrites, cacheVars, IInv, TypeOK
    <3> QED  BY <3>1, HoverAssumption DEF Idle, Looking, LookupAtomic, IInv, TypeOK
  <2>4. CASE WriterStops
    <3>1. /\ writer'.pc = "wait" /\ writer'.note = writer.note /\ writer'.pos = writer.pos
          /\ writer'.msg = writer.msg /\ writer'.arrived = writer.arrived
          /\ UNCHANGED <<cache, version>>
      BY <2>4 DEF WriterStops, cacheVars, IInv, TypeOK
    <3> QED  BY <3>1 DEF Looking, LookupAtomic, IInv
  <2>5. CASE WriterFails \/ WriterExits
    BY <2>5, <1>1 DEF WriterFails, WriterExits, downVars, cacheVars
  <2> QED  BY <1>2, <2>1, <2>2, <2>3, <2>4, <2>5 DEF Writer
<1>3. CASE CacheReplaced
  <2>1. version' = version + 1 /\ writer' = writer /\ version \in Nat /\ writer.arrived \in Nat
    BY <1>3, HoverAssumption DEF CacheReplaced, downVars, IInv, TypeOK
  <2>2. version' # writer.arrived /\ writer.arrived <= version'
    BY <2>1 DEF IInv, Looking
  <2>3. Looking'
    BY <2>1, <2>2 DEF Looking, IInv
  <2>4. LookupAtomic'
    BY <2>1, <2>2 DEF LookupAtomic, IInv
  <2> QED  BY <2>3, <2>4
<1>4. CASE Reader \/ Editor \/ Gopls \/ UNCHANGED vars
  BY <1>1, <1>4 DEF Reader, ReaderReads, ReaderStops, ReaderTracks, ReaderForwards,
     Editor, EditorReceives, EditorCloses, BreakInput, EditorSends, Ask, Reply, Gopls,
     GoplsReads, GoplsExits, BreakOutput, GoplsSends, GoplsAnswers, GoplsAsks,
     vars, downVars, cacheVars
<1> QED  BY <1>2, <1>3, <1>4 DEF Next

-----------------------------------------------------------------------------
(* Where a hover is.                                                       *)

LEMMA EditorOnce == IInv /\ Editor => HoverOnce'
<1> SUFFICES ASSUME IInv, Editor  PROVE HoverOnce'
  OBVIOUS
<1> USE DEF IInv
<1>1. ASSUME NEW m \in ClientMessages, EditorSends(m), m.kind # "hover",
             editor'.sent \in {editor.sent, editor.sent \cup {m.id}}
      PROVE  HoverOnce'
  <2>1. Unread' = Unread /\ NoTwin(inbox', "hover")
    <3>1. inbox' = Append(inbox, m) /\ inbox \in Seq(ClientMessages)
      BY <1>1 DEF EditorSends, TypeOK
    <3>2. InPipe(inbox', "hover") = InPipe(inbox, "hover")
      <4>1. InPipe(Append(inbox, m), "hover") =
              InPipe(inbox, "hover") \cup (IF m.kind = "hover" THEN {m.id} ELSE {})
        BY <3>1, PipeAppend
      <4> QED  BY <1>1, <3>1, <4>1
    <3>3. NoTwin(inbox', "hover")
      BY <1>1, <3>1, TwinAppend DEF HoverOnce
    <3> QED  BY <3>2, <3>3 DEF Unread
  <2>2. UNCHANGED <<Held, Forwarded, Working, Results, gopls, toGopls, outbox>>
    BY <1>1 DEF EditorSends, downVars, Held, Forwarded, Working, Results
  <2> QED  BY <1>1, <2>1, <2>2 DEF HoverOnce
<1>2. ASSUME NEW id \in Ids, Ask(id)  PROVE HoverOnce'
  <2>1. editor'.sent = editor.sent \cup {id} /\ id \notin editor.sent
    BY <1>2 DEF Ask, TypeOK
  <2>2. CASE id \in Hovers
    <3> DEFINE m == Msg("hover", id)
    <3>1. m \in ClientMessages /\ EditorSends(m) /\ m.kind = "hover" /\ m.id = id
      BY <1>2, <2>2, SentShapes DEF Ask, Msg
    <3>2. id \notin Unread \cup Held \cup Forwarded \cup Working \cup Results \cup gopls.erred
      BY <2>1 DEF HoverOnce
    <3>3. Unread' = Unread \cup {id} /\ NoTwin(inbox', "hover")
      <4> HIDE DEF m
      <4> QED
        BY <3>1, <3>2, PipeAppend, TwinAppend DEF EditorSends, TypeOK, HoverOnce, Unread
    <3>4. UNCHANGED <<Held, Forwarded, Working, Results, gopls, toGopls, outbox>>
      BY <3>1 DEF EditorSends, downVars, Held, Forwarded, Working, Results
    <3> QED  BY <2>1, <3>2, <3>3, <3>4 DEF HoverOnce
  <2>3. CASE id \notin Hovers
    <3>1. Msg("request", id) \in ClientMessages /\ EditorSends(Msg("request", id))
      BY <1>2, <2>3, SentShapes DEF Ask
    <3> QED  BY <1>1, <2>1, <3>1 DEF Msg
  <2> QED  BY <2>2, <2>3
<1>3. ASSUME NEW id \in Ids, Reply(id)  PROVE HoverOnce'
  <2>1. Msg("reply", id) \in ClientMessages /\ EditorSends(Msg("reply", id)) /\ editor'.sent = editor.sent
    BY <1>3, SentShapes DEF Reply, TypeOK
  <2> QED  BY <1>1, <2>1 DEF Msg
<1>4. CASE BreakInput
  BY <1>1, <1>4, SentShapes DEF BreakInput, Msg
<1>5. CASE EditorReceives \/ EditorCloses
  <2>1. UNCHANGED <<gopls, inbox, toGopls, outbox, reader>> /\ editor'.sent = editor.sent
    BY <1>5 DEF EditorReceives, EditorCloses, upVars, downVars, TypeOK
  <2> QED  BY <2>1 DEF HoverOnce, Unread, Held, Forwarded, Working, Results
<1> QED  BY <1>2, <1>3, <1>4, <1>5 DEF Editor

LEMMA GoplsOnce == IInv /\ Gopls => HoverOnce' /\ Past' = Past
<1> SUFFICES ASSUME IInv, Gopls  PROVE HoverOnce' /\ Past' = Past
  OBVIOUS
<1> USE DEF IInv
<1>1. CASE GoplsReads
  <2> DEFINE m == Head(toGopls)
             read == IF m.kind = "hover" THEN {m.id} ELSE {}
  <2>1. m \in ClientMessages
    BY <1>1, TailTyped DEF GoplsReads, TypeOK
  <2>2. /\ Forwarded = Forwarded' \cup read /\ NoTwin(toGopls', "hover")
        /\ m.kind = "hover" => m.id \in Hovers /\ m.id \notin Forwarded'
    BY <1>1, <2>1, ClientShapes, PipeTail, TwinTail DEF GoplsReads, TypeOK, HoverOnce, Forwarded
  <2>3. Working' = Working \cup read
    <3>1. m.kind = "request" => m.id \notin Hovers
      BY <2>1, ClientShapes, HoverAssumption
    <3>2. gopls'.working = IF m.kind \in {"hover", "request"} THEN gopls.working \cup {m.id} ELSE gopls.working
      BY <1>1 DEF GoplsReads, TypeOK
    <3> QED  BY <3>1, <3>2, <2>2 DEF Working
  <2>4. /\ UNCHANGED <<editor, Held, Unread, Results, inbox, outbox>>
        /\ gopls'.erred = gopls.erred
    BY <1>1 DEF GoplsReads, downVars, Held, Unread, Results, TypeOK
  <2> HIDE DEF read
  <2> QED  BY <2>2, <2>3, <2>4 DEF HoverOnce, Past, read
<1>2. ASSUME NEW m \in ServerMessages, GoplsSends(m), m.kind # "result"
      PROVE  Results' = Results /\ NoTwin(outbox', "result") /\ UNCHANGED <<editor, inbox, toGopls, reader>>
  <2>1. outbox' = Append(outbox, m) /\ outbox \in Seq(ServerMessages)
    BY <1>2 DEF GoplsSends, TypeOK
  <2>2. InPipe(outbox', "result") = InPipe(outbox, "result")
    <3>1. InPipe(Append(outbox, m), "result") =
            InPipe(outbox, "result") \cup (IF m.kind = "result" THEN {m.id} ELSE {})
      BY <2>1, PipeAppend
    <3> QED  BY <1>2, <2>1, <3>1
  <2>3. NoTwin(outbox', "result")
    BY <1>2, <2>1, TwinAppend DEF HoverOnce
  <2> QED  BY <1>2, <2>2, <2>3 DEF Results, GoplsSends, upVars
<1>3. ASSUME NEW id \in Ids, GoplsAnswers(id)  PROVE HoverOnce' /\ Past' = Past
  <2>1. CASE \E t \in AnswerTexts(id) : GoplsSends(Result(id, t)) /\ gopls' = [gopls EXCEPT !.working = @ \ {id}]
    <3>1. PICK m \in ServerMessages : GoplsSends(m) /\ m.kind = "result" /\ m.id = id
      BY <2>1, AnsweredShapes, AnswerTextsTyped DEF Result
    <3>2. gopls'.working = gopls.working \ {id} /\ gopls'.erred = gopls.erred
      BY <2>1 DEF TypeOK
    <3>3. outbox' = Append(outbox, m) /\ outbox \in Seq(ServerMessages)
      BY <3>1 DEF GoplsSends, TypeOK
    <3>4. InPipe(outbox', "result") = InPipe(outbox, "result") \cup {id}
      BY <3>1, <3>3, PipeAppend
    <3>5. id \in Hovers => id \in Working
      BY <1>3 DEF GoplsAnswers, Working
    <3>6. NoTwin(outbox', "result")
      <4>1. id \in Hovers => id \notin InPipe(outbox, "result")
        BY <3>5 DEF HoverOnce, Results
      <4> QED  BY <3>1, <3>3, <4>1, TwinAppend DEF HoverOnce, Past
    <3>7. Working' = Working \ {id} /\ Results' = Results \cup ({id} \cap Hovers)
      BY <3>2, <3>4 DEF Working, Results
    <3>8. UNCHANGED <<Unread, Held, Forwarded, editor, inbox, toGopls>>
      BY <3>1 DEF GoplsSends, upVars, Unread, Held, Forwarded
    <3>9. Past' = Past
      BY <3>2, <3>5, <3>7, <3>8 DEF Past, Working
    <3> QED  BY <3>2, <3>5, <3>6, <3>7, <3>8, <3>9 DEF HoverOnce
  <2>2. CASE /\ GoplsSends(Msg("error", id))
             /\ gopls' = [gopls EXCEPT !.working = @ \ {id}, !.erred = @ \cup ({id} \cap Hovers)]
    <3>1. gopls'.working = gopls.working \ {id} /\ gopls'.erred = gopls.erred \cup ({id} \cap Hovers)
      BY <2>2 DEF TypeOK
    <3>2. Results' = Results /\ NoTwin(outbox', "result") /\ UNCHANGED <<editor, inbox, toGopls, reader>>
      BY <1>2, <1>3, <2>2, AnsweredShapes DEF Msg
    <3>3. id \in Hovers => id \in Working
      BY <1>3 DEF GoplsAnswers, Working
    <3>4. Working' = Working \ {id}
      BY <3>1 DEF Working
    <3>5. UNCHANGED <<Unread, Held, Forwarded>>
      BY <3>2 DEF Unread, Held, Forwarded
    <3>6. Past' = Past
      BY <3>1, <3>2, <3>3, <3>4, <3>5 DEF Past, Working
    <3> QED  BY <3>1, <3>2, <3>3, <3>4, <3>5, <3>6 DEF HoverOnce
  <2> QED  BY <1>3, <2>1, <2>2 DEF GoplsAnswers
<1>4. ASSUME NEW id \in Ids, GoplsAsks(id)  PROVE HoverOnce' /\ Past' = Past
  <2>1. PICK m \in ServerMessages : GoplsSends(m) /\ m.kind # "result"
    BY <1>4, AnsweredShapes DEF GoplsAsks, Msg
  <2>2. gopls'.working = gopls.working /\ gopls'.erred = gopls.erred
    BY <1>4 DEF GoplsAsks, TypeOK
  <2>3. Results' = Results /\ NoTwin(outbox', "result") /\ UNCHANGED <<editor, inbox, toGopls, reader>>
    BY <1>2, <2>1
  <2> QED  BY <2>2, <2>3 DEF HoverOnce, Past, Unread, Held, Forwarded, Working
<1>5. CASE BreakOutput
  <2>1. PICK m \in ServerMessages : GoplsSends(m) /\ m.kind # "result"
    BY <1>5, AnsweredShapes DEF BreakOutput, Msg
  <2>2. Results' = Results /\ NoTwin(outbox', "result") /\ UNCHANGED <<editor, inbox, toGopls, reader, gopls>>
    BY <1>2, <1>5, <2>1 DEF BreakOutput
  <2> QED  BY <2>2 DEF HoverOnce, Past, Unread, Held, Forwarded, Working
<1>6. CASE GoplsExits
  <2>1. /\ UNCHANGED <<editor, inbox, toGopls, outbox, reader>>
        /\ gopls'.working = gopls.working /\ gopls'.erred = gopls.erred
    BY <1>6 DEF GoplsExits, upVars, downVars, TypeOK
  <2> QED  BY <2>1 DEF HoverOnce, Past, Unread, Held, Forwarded, Working, Results
<1> QED  BY <1>1, <1>3, <1>4, <1>5, <1>6 DEF Gopls

LEMMA ReaderOnce == IInv /\ Reader => HoverOnce'
<1> SUFFICES ASSUME IInv, Reader  PROVE HoverOnce'
  OBVIOUS
<1> USE DEF IInv
<1>1. CASE ReaderReads
  <2> DEFINE m == Head(inbox)
             read == IF m.kind = "hover" THEN {m.id} ELSE {}
  <2>1. m \in ClientMessages
    BY <1>1, TailTyped DEF ReaderReads, TypeOK
  <2>2. /\ Unread = Unread' \cup read /\ NoTwin(inbox', "hover")
        /\ m.kind = "hover" => m.id \in Hovers /\ m.id \notin Unread'
    BY <1>1, <2>1, ClientShapes, PipeTail, TwinTail DEF ReaderReads, TypeOK, HoverOnce, Unread
  <2>3. Held' = read /\ Held = {}
    BY <1>1, <2>1, ClientShapes DEF ReaderReads, Control, Held, Tracked
  <2>4. UNCHANGED <<editor, gopls, Forwarded, Working, Results, toGopls, outbox>>
    BY <1>1 DEF ReaderReads, downVars, Forwarded, Working, Results
  <2> HIDE DEF read
  <2> QED  BY <2>2, <2>3, <2>4 DEF HoverOnce, read
<1>2. CASE ReaderStops \/ ReaderTracks
  <2>1. reader'.msg = reader.msg /\ UNCHANGED <<editor, gopls, inbox, toGopls, outbox>>
    BY <1>2 DEF ReaderStops, ReaderTracks, downVars, TypeOK
  <2> QED  BY <2>1 DEF HoverOnce, Unread, Held, Forwarded, Working, Results
<1>3. CASE ReaderForwards
  <2>1. UNCHANGED <<editor, gopls, inbox, outbox, Unread, Working, Results>>
    BY <1>3 DEF ReaderForwards, downVars, Unread, Working, Results
  <2>2. CASE gopls.up /\ Room(toGopls)
    <3>1. toGopls' = Append(toGopls, reader.msg) /\ reader'.msg = None
            /\ reader.msg \in ClientMessages /\ toGopls \in Seq(ClientMessages)
      BY <1>3, <2>2 DEF ReaderForwards, TypeOK, Control
    <3>2. Held' = {} /\ Held = IF reader.msg.kind = "hover" THEN {reader.msg.id} ELSE {}
      BY <3>1, ClientShapes DEF Held, Tracked
    <3>3. Forwarded' = Forwarded \cup Held
      BY <3>1, <3>2, PipeAppend DEF Forwarded
    <3>4. reader.msg.kind = "hover" => reader.msg.id \notin Forwarded
      BY <3>2 DEF HoverOnce
    <3>5. NoTwin(toGopls', "hover")
      BY <3>1, <3>4, TwinAppend DEF HoverOnce, Forwarded
    <3> QED  BY <2>1, <3>2, <3>3, <3>5 DEF HoverOnce
  <2>3. CASE ~gopls.up
    <3>1. reader'.msg = reader.msg /\ toGopls' = toGopls
      BY <1>3, <2>3 DEF ReaderForwards, TypeOK
    <3> QED  BY <2>1, <3>1 DEF HoverOnce, Held, Forwarded
  <2> QED  BY <1>3, <2>2, <2>3 DEF ReaderForwards
<1> QED  BY <1>1, <1>2, <1>3 DEF Reader

LEMMA WriterOnce == IInv /\ (Writer \/ CacheReplaced \/ UNCHANGED vars) => HoverOnce'
<1> SUFFICES ASSUME IInv, Writer \/ CacheReplaced \/ UNCHANGED vars  PROVE HoverOnce'
  OBVIOUS
<1> USE DEF IInv
<1>1. CASE WriterReads
  <2>1. InPipe(outbox', "result") \subseteq InPipe(outbox, "result") /\ NoTwin(outbox', "result")
    BY <1>1, PipeTail, TwinTail DEF WriterReads, TypeOK, HoverOnce
  <2>2. UNCHANGED <<editor, gopls, inbox, toGopls, Unread, Held, Forwarded, Working>>
    BY <1>1 DEF WriterReads, upVars, Unread, Held, Forwarded, Working
  <2> QED  BY <2>1, <2>2 DEF HoverOnce, Results
<1>2. CASE UNCHANGED <<editor, gopls, inbox, toGopls, outbox, reader>>
  BY <1>2 DEF HoverOnce, Unread, Held, Forwarded, Working, Results
<1>3. (\E pc \in {"location", "ssa", "simple"} : WriterLooksUp(pc)) \/ WriterWrites \/ WriterFails
        \/ WriterStops \/ WriterExits \/ CacheReplaced \/ UNCHANGED vars
      => UNCHANGED <<editor, gopls, inbox, toGopls, outbox, reader>>
  BY DEF WriterLooksUp, WriterWrites, WriterFails, WriterStops, WriterExits, CacheReplaced,
     vars, upVars, downVars
<1> QED  BY <1>1, <1>2, <1>3 DEF Writer

LEMMA NextOnce == IInv /\ [Next]_vars => HoverOnce'
  BY EditorOnce, GoplsOnce, ReaderOnce, WriterOnce DEF Next

\* PendingExact in terms of the stages.
Known == (IF reader.pc \in {"forward", "stopped"} THEN Held ELSE {}) \cup Past

LEMMA PendingStages ==
  /\ PendingExact <=> DOMAIN pending = Known /\ \A h \in DOMAIN pending : pending[h] = Pos[h]
  /\ PendingExact' <=> /\ DOMAIN pending' = Known'
                       /\ \A h \in DOMAIN pending' : pending'[h] = Pos[h]
  BY DEF PendingExact, InFlight, Known, Past, Held, Forwarded, Working, Results

LEMMA ReaderPending == IInv /\ Reader => PendingExact'
<1> SUFFICES ASSUME IInv, Reader
             PROVE  DOMAIN pending' = Known' /\ \A h \in DOMAIN pending' : pending'[h] = Pos[h]
  BY PendingStages
<1> USE DEF IInv
<1>1. DOMAIN pending = Known /\ \A h \in DOMAIN pending : pending[h] = Pos[h]
  BY PendingStages
<1>2. CASE ReaderReads
  <2>1. pending' = pending /\ reader'.pc = "track" /\ reader.pc = "read"
    BY <1>2 DEF ReaderReads, After
  <2>2. Past' = Past
    BY <1>2 DEF ReaderReads, downVars, Past, Forwarded, Working, Results
  <2> QED  BY <2>1, <2>2, <1>1 DEF Known
<1>3. CASE ReaderStops
  <2>1. /\ pending' = pending /\ reader.pc = "read" /\ reader'.pc = "stopped"
        /\ reader'.msg = reader.msg /\ reader.msg = None
    BY <1>3 DEF ReaderStops, Control, TypeOK
  <2>2. Past' = Past
    BY <1>3 DEF ReaderStops, downVars, Past, Forwarded, Working, Results
  <2> QED  BY <2>1, <2>2, <1>1 DEF Known, Held
<1>4. CASE ReaderTracks
  <2>1. reader.pc = "track" /\ reader'.pc = "forward" /\ reader'.msg = reader.msg
          /\ reader.msg \in ClientMessages /\ reader.msg # None
    BY <1>4 DEF ReaderTracks, After, Control, TypeOK
  <2>2. Past' = Past /\ Held' = Held
    BY <1>4, <2>1 DEF ReaderTracks, downVars, Past, Forwarded, Working, Results, Held
  <2>3. Known = Past /\ Known' = Past \cup Held
    BY <2>1, <2>2 DEF Known
  <2>4. CASE Tracked(reader.msg)
    <3>1. Held = {reader.msg.id} /\ Position(reader.msg) = Pos[reader.msg.id]
      BY <2>1, <2>4, ClientShapes DEF Held, Tracked, Position
    <3>2. pending' = [h \in DOMAIN pending \cup {reader.msg.id} |->
                        IF h = reader.msg.id THEN Position(reader.msg) ELSE pending[h]]
      BY <1>4, <2>4 DEF ReaderTracks
    <3> QED  BY <3>1, <3>2, <2>3, <1>1
  <2>5. CASE ~Tracked(reader.msg)
    BY <1>1, <1>4, <2>3, <2>5 DEF ReaderTracks, Held
  <2> QED  BY <2>4, <2>5
<1>5. CASE ReaderForwards
  <2>1. UNCHANGED <<gopls, pending, Working, Results>> /\ reader.pc = "forward"
    BY <1>5 DEF ReaderForwards, downVars, Working, Results
  <2>2. CASE gopls.up /\ Room(toGopls)
    <3>1. toGopls' = Append(toGopls, reader.msg) /\ reader'.msg = None /\ reader'.pc = "read"
            /\ reader.msg \in ClientMessages /\ toGopls \in Seq(ClientMessages)
      BY <1>5, <2>2 DEF ReaderForwards, After, TypeOK, Control
    <3>2. Held = IF reader.msg.kind = "hover" THEN {reader.msg.id} ELSE {}
      BY <3>1, ClientShapes DEF Held, Tracked
    <3>3. Forwarded' = Forwarded \cup Held
      BY <3>1, <3>2, PipeAppend DEF Forwarded
    <3> QED  BY <2>1, <3>1, <3>3, <1>1 DEF Known, Past
  <2>3. CASE ~gopls.up
    <3>1. reader'.msg = reader.msg /\ toGopls' = toGopls /\ reader'.pc = "stopped"
      BY <1>5, <2>3 DEF ReaderForwards, TypeOK
    <3> QED  BY <2>1, <3>1, <1>1 DEF Known, Held, Forwarded, Past
  <2> QED  BY <1>5, <2>2, <2>3 DEF ReaderForwards
<1> QED  BY <1>2, <1>3, <1>4, <1>5 DEF Reader

\* A result that is read was of the one hover of its id.
LEMMA WriterPending == IInv /\ WriterReads => PendingExact'
<1> SUFFICES ASSUME IInv, WriterReads
             PROVE  DOMAIN pending' = Known' /\ \A h \in DOMAIN pending' : pending'[h] = Pos[h]
  BY PendingStages
<1> USE DEF IInv
<1> DEFINE m == Head(outbox)
           hover == m.kind = "result" /\ m.id \in DOMAIN pending
           gone == IF hover THEN {m.id} ELSE {}
<1>1. DOMAIN pending = Known /\ \A h \in DOMAIN pending : pending[h] = Pos[h]
  BY PendingStages
<1>2. pending' = [h \in DOMAIN pending \ gone |-> pending[h]]
  BY DEF WriterReads
<1>3. outbox \in Seq(ServerMessages) /\ outbox # <<>> /\ outbox' = Tail(outbox)
  BY DEF WriterReads, TypeOK
<1>4. /\ InPipe(outbox, "result") = InPipe(outbox', "result") \cup (IF m.kind = "result" THEN {m.id} ELSE {})
      /\ m.kind = "result" /\ m.id \in Hovers => m.id \notin InPipe(outbox', "result")
  BY <1>3, PipeTail, TwinTail DEF HoverOnce
<1>5. UNCHANGED <<reader, gopls, Held, Forwarded, Working>>
  BY DEF WriterReads, upVars, Held, Forwarded, Working
<1>6. DOMAIN pending \subseteq Hovers
  BY DEF TypeOK
<1>7. CASE hover
  <2>1. m.id \in Results /\ Results' = Results \ {m.id}
    BY <1>4, <1>6, <1>7 DEF Results
  <2>2. m.id \notin Held \cup Forwarded \cup Working \cup gopls.erred
    BY <2>1 DEF HoverOnce
  <2>3. Known' = Known \ {m.id}
    BY <1>5, <2>1, <2>2 DEF Known, Past
  <2> QED  BY <1>1, <1>2, <1>7, <2>3
<1>8. CASE ~hover
  <2>1. m.kind = "result" => m.id \notin Hovers
    BY <1>1, <1>4, <1>8 DEF Known, Past, Results
  <2>2. Results' = Results
    BY <1>4, <2>1 DEF Results
  <2> QED  BY <1>1, <1>2, <1>5, <1>8, <2>2 DEF Known, Past
<1> QED  BY <1>7, <1>8

LEMMA NextPending == IInv /\ [Next]_vars => PendingExact'
<1> SUFFICES ASSUME IInv, [Next]_vars  PROVE PendingExact'
  OBVIOUS
<1>1. CASE UNCHANGED <<reader, pending, Past>>
  BY <1>1, PendingStages DEF IInv, Known, Held
<1>2. CASE Gopls
  <2>1. UNCHANGED <<reader, pending>>
    BY <1>2 DEF Gopls, GoplsReads, GoplsExits, BreakOutput, GoplsSends, GoplsAnswers, GoplsAsks, upVars
  <2> QED  BY <1>1, <1>2, <2>1, GoplsOnce
<1>3. CASE Editor \/ CacheReplaced \/ UNCHANGED vars
  <2>1. UNCHANGED <<reader, pending, gopls, toGopls, outbox>>
    BY <1>3 DEF Editor, EditorReceives, EditorCloses, BreakInput, EditorSends, Ask, Reply,
       CacheReplaced, vars, upVars, downVars
  <2> QED  BY <1>1, <2>1 DEF Past, Forwarded, Working, Results
<1>4. CASE Writer /\ ~WriterReads
  <2>1. UNCHANGED <<reader, pending, gopls, toGopls, outbox>>
    BY <1>4 DEF Writer, WriterLooksUp, WriterWrites, WriterFails, WriterStops, WriterExits, upVars, downVars
  <2> QED  BY <1>1, <2>1 DEF Past, Forwarded, Working, Results
<1> QED  BY <1>2, <1>3, <1>4, ReaderPending, WriterPending DEF Next

-----------------------------------------------------------------------------
LEMMA Invariance == Spec => []IInv
<1>1. IInv /\ [Next]_vars => IInv'
  BY NextTypes, NextControl, NextOnce, NextPending, NextLooks DEF IInv
<1> QED  BY <1>1, InitInv, PTL DEF Spec

\* Every message, record and map has its shape, no pipe holds more than its
\* capacity, and only hovers are pending.
THEOREM TypeCorrect == Spec => []TypeOK
<1>1. IInv => TypeOK
  BY DEF IInv
<1> QED  BY <1>1, Invariance, PTL

\* The pending map knows the hovers in flight and no others but those answered
\* with an error, each at its own position (proxy.go:90-117).
THEOREM PendingKnowsFlight == Spec => []PendingExact
<1>1. IInv => PendingExact
  BY DEF IInv
<1> QED  BY <1>1, Invariance, PTL

\* The three lookups of a hover amount to one, unless the cache was replaced
\* between them, however often it is (proxy.go:121-143).
THEOREM LookupsAreOne == Spec => []LookupAtomic
<1>1. IInv => LookupAtomic
  BY DEF IInv
<1> QED  BY <1>1, Invariance, PTL

-----------------------------------------------------------------------------
(* The proxy is a relay.                                                   *)

LEMMA HeadedTail ==
  ASSUME NEW S, NEW s \in Seq(S), s # <<>>
  PROVE  <<Head(s)>> \o Tail(s) = s
<1>1. Head(s) \in S /\ Tail(s) \in Seq(S) /\ Len(Tail(s)) = Len(s) - 1 /\ Len(s) \in Nat \ {0}
  BY HeadTailProperties, EmptySeq
<1>2. <<Head(s)>> \in Seq(S) /\ Len(<<Head(s)>>) = 1
  BY <1>1
<1>3. <<Head(s)>> \o Tail(s) \in Seq(S) /\ Len(<<Head(s)>> \o Tail(s)) = Len(s)
  BY <1>1, <1>2, ConcatProperties
<1>4. \A i \in 1..Len(s) : (<<Head(s)>> \o Tail(s))[i] = s[i]
  BY <1>1, <1>2, ConcatProperties, HeadTailProperties
<1> QED  BY <1>3, <1>4, SeqEqual

LEMMA AppendConcat ==
  ASSUME NEW S, NEW s \in Seq(S), NEW t \in Seq(S), NEW m \in S
  PROVE  s \o Append(t, m) = Append(s \o t, m)
<1>1. <<m>> \in Seq(S) /\ s \o t \in Seq(S)
  BY ConcatProperties
<1>2. Append(t, m) = t \o <<m>> /\ Append(s \o t, m) = (s \o t) \o <<m>>
  BY <1>1, AppendIsConcat
<1> QED  BY <1>1, <1>2, ConcatAssociative

LEMMA TailConcat ==
  ASSUME NEW S, NEW s \in Seq(S), NEW t \in Seq(S), s # <<>>
  PROVE  s \o t # <<>> /\ Tail(s \o t) = Tail(s) \o t
<1>1. s \o t \in Seq(S) /\ Len(s \o t) = Len(s) + Len(t) /\ Len(s) \in Nat \ {0} /\ Len(t) \in Nat
  BY ConcatProperties, EmptySeq, LenProperties
<1>2. s \o t # <<>>
  BY <1>1, EmptySeq
<1>3. /\ Tail(s) \in Seq(S) /\ Len(Tail(s)) = Len(s) - 1
      /\ \A i \in 1..Len(Tail(s)) : Tail(s)[i] = s[i + 1]
  BY HeadTailProperties
<1>4. /\ Tail(s) \o t \in Seq(S) /\ Len(Tail(s) \o t) = Len(s) - 1 + Len(t)
      /\ \A i \in 1..(Len(s) - 1 + Len(t)) :
           (Tail(s) \o t)[i] = IF i <= Len(s) - 1 THEN Tail(s)[i] ELSE t[i - (Len(s) - 1)]
  BY <1>1, <1>3, ConcatProperties
<1>5. /\ Tail(s \o t) \in Seq(S) /\ Len(Tail(s \o t)) = Len(s) - 1 + Len(t)
      /\ \A i \in 1..(Len(s) - 1 + Len(t)) : Tail(s \o t)[i] = (s \o t)[i + 1]
  BY <1>1, <1>2, HeadTailProperties
<1>6. \A i \in 1..(Len(s) - 1 + Len(t)) :
        (s \o t)[i + 1] = IF i + 1 <= Len(s) THEN s[i + 1] ELSE t[i + 1 - Len(s)]
  BY <1>1, ConcatProperties
<1>7. \A i \in 1..(Len(s) - 1 + Len(t)) : Tail(s \o t)[i] = (Tail(s) \o t)[i]
  <2> SUFFICES ASSUME NEW i \in 1..(Len(s) - 1 + Len(t))  PROVE Tail(s \o t)[i] = (Tail(s) \o t)[i]
    OBVIOUS
  <2>1. i - (Len(s) - 1) = i + 1 - Len(s)
    BY <1>1
  <2> QED  BY <2>1, <1>1, <1>3, <1>4, <1>5, <1>6
<1> QED  BY <1>2, <1>4, <1>5, <1>7, SeqEqual

\* A message in the middle is the one that changes.
LEMMA MiddleReplaced ==
  ASSUME NEW S, NEW s \in Seq(S), NEW t \in Seq(S), NEW m \in S, NEW n \in S
  PROVE  /\ Len(s) + 1 \in DOMAIN ((s \o <<m>>) \o t)
         /\ ((s \o <<m>>) \o t)[Len(s) + 1] = m
         /\ (s \o <<n>>) \o t = [(s \o <<m>>) \o t EXCEPT ![Len(s) + 1] = n]
<1> DEFINE i == Len(s) + 1
           a == (s \o <<m>>) \o t
           b == (s \o <<n>>) \o t
<1>1. Len(s) \in Nat /\ Len(t) \in Nat
  BY LenProperties
<1>2. ASSUME NEW e \in S
      PROVE  /\ (s \o <<e>>) \o t \in Seq(S) /\ Len((s \o <<e>>) \o t) = Len(s) + 1 + Len(t)
             /\ \A j \in 1..(Len(s) + 1 + Len(t)) :
                  ((s \o <<e>>) \o t)[j] = IF j <= Len(s) THEN s[j] ELSE IF j = i THEN e ELSE t[j - i]
  <2>1. /\ s \o <<e>> \in Seq(S) /\ Len(s \o <<e>>) = Len(s) + 1
        /\ \A j \in 1..(Len(s) + 1) : (s \o <<e>>)[j] = IF j <= Len(s) THEN s[j] ELSE e
    <3>1. Append(s, e) = s \o <<e>>
      BY AppendIsConcat
    <3> QED  BY <1>1, <3>1, AppendProperties
  <2> QED  BY <1>1, <2>1, ConcatProperties
<1>3. i \in 1..Len(a) /\ a \in Seq(S) /\ a[i] = m
  BY <1>1, <1>2
<1>4. /\ [a EXCEPT ![i] = n] \in Seq(S) /\ Len([a EXCEPT ![i] = n]) = Len(a)
      /\ \A j \in 1..Len(a) : [a EXCEPT ![i] = n][j] = IF j = i THEN n ELSE a[j]
  <2> HIDE DEF i, a
  <2> QED  BY <1>3, ExceptSeq
<1>5. b \in Seq(S) /\ Len(b) = Len(a) /\ \A j \in 1..Len(a) : b[j] = [a EXCEPT ![i] = n][j]
  BY <1>1, <1>2, <1>4
<1>6. b = [a EXCEPT ![i] = n]
  BY <1>4, <1>5, SeqEqual
<1> QED  BY <1>3, <1>6, LenProperties

Up   == (toGopls \o Holds(reader.msg)) \o inbox
Down == (toEditor \o Holds(writer.msg)) \o outbox

LEMMA StreamsTyped ==
  ASSUME TypeOK
  PROVE  /\ toGopls \in Seq(ClientMessages) /\ Holds(reader.msg) \in Seq(ClientMessages)
         /\ inbox \in Seq(ClientMessages) /\ toGopls \o Holds(reader.msg) \in Seq(ClientMessages)
         /\ toEditor \in Seq(Delivered) /\ Holds(writer.msg) \in Seq(Delivered)
         /\ outbox \in Seq(Delivered) /\ toEditor \o Holds(writer.msg) \in Seq(Delivered)
         /\ ServerMessages \subseteq Delivered
<1>1. ServerMessages \subseteq Delivered
  <2>1. None \in Notes
    BY DEF Notes
  <2> QED  BY <2>1, ServerShapes
<1>2. Holds(reader.msg) \in Seq(ClientMessages)
  BY EmptySeq DEF TypeOK, Holds
<1>3. Holds(writer.msg) \in Seq(Delivered)
  BY <1>1, EmptySeq DEF TypeOK, Holds
<1>4. outbox \in Seq(Delivered)
  BY <1>1, SeqMonotonic DEF TypeOK
<1> QED  BY <1>1, <1>2, <1>3, <1>4, ConcatProperties DEF TypeOK

LEMMA EditorRelays ==
  ASSUME IInv, Editor  PROVE Relay!Send \/ Relay!Show \/ UNCHANGED Relay!vars
<1>1. ASSUME NEW m \in ClientMessages, EditorSends(m)  PROVE Relay!Send
  <2>1. inbox' = Append(inbox, m) /\ UNCHANGED <<toGopls, reader, toEditor, writer, outbox, taken, shown>>
    BY <1>1 DEF EditorSends, downVars
  <2>2. Up' = Append(Up, m) /\ Down' = Down
    BY SMTT(40), <2>1, StreamsTyped, AppendConcat DEF IInv, Up, Down
  <2> QED  BY <2>1, <2>2 DEF Relay!Send, Up, Down
<1>2. ASSUME NEW id \in Ids, Ask(id)  PROVE Relay!Send
  BY <1>1, <1>2, SentShapes DEF Ask
<1>3. ASSUME NEW id \in Ids, Reply(id)  PROVE Relay!Send
  BY <1>1, <1>3, SentShapes DEF Reply
<1>4. CASE BreakInput
  BY <1>1, <1>4, SentShapes DEF BreakInput
<1>5. CASE EditorReceives
  <2>1. /\ toEditor # <<>> /\ toEditor' = Tail(toEditor) /\ shown' = ~shown
        /\ UNCHANGED <<toGopls, reader, inbox, writer, outbox, taken>>
    BY <1>5 DEF EditorReceives, upVars
  <2>2. toEditor \o Holds(writer.msg) # <<>>
          /\ Tail(toEditor \o Holds(writer.msg)) = Tail(toEditor) \o Holds(writer.msg)
    BY <2>1, StreamsTyped, TailConcat DEF IInv
  <2>3. Down # <<>> /\ Tail(Down) = Tail(toEditor \o Holds(writer.msg)) \o outbox
    BY <2>2, StreamsTyped, TailConcat DEF IInv, Down
  <2>4. Down' = Tail(Down) /\ Up' = Up
    BY <2>1, <2>2, <2>3 DEF Up, Down
  <2> QED  BY <2>1, <2>3, <2>4 DEF Relay!Show, Up, Down
<1>6. CASE EditorCloses
  BY <1>6 DEF EditorCloses, upVars, downVars, Relay!vars
<1> QED  BY <1>2, <1>3, <1>4, <1>5, <1>6 DEF Editor

LEMMA GoplsRelays ==
  ASSUME IInv, Gopls  PROVE Relay!Answer \/ Relay!Take \/ UNCHANGED Relay!vars
<1>1. ASSUME NEW m \in ServerMessages, GoplsSends(m)  PROVE Relay!Answer
  <2>1. outbox' = Append(outbox, m) /\ UNCHANGED <<toGopls, reader, inbox, toEditor, writer, taken, shown>>
    BY <1>1 DEF GoplsSends, upVars
  <2>2. m \in Delivered
    BY StreamsTyped DEF IInv
  <2>3. Down' = Append(Down, m) /\ Up' = Up
    BY SMTT(40), <2>1, <2>2, StreamsTyped, AppendConcat DEF IInv, Up, Down
  <2> QED  BY <2>1, <2>3 DEF Relay!Answer, Up, Down
<1>2. ASSUME NEW id \in Ids, GoplsAnswers(id) \/ GoplsAsks(id)  PROVE Relay!Answer
  BY <1>1, <1>2, AnsweredShapes, AnswerTextsTyped DEF GoplsAnswers, GoplsAsks
<1>3. CASE BreakOutput
  BY <1>1, <1>3, AnsweredShapes DEF BreakOutput
<1>4. CASE GoplsReads
  <2>1. /\ toGopls # <<>> /\ toGopls' = Tail(toGopls) /\ taken' = ~taken
        /\ UNCHANGED <<reader, inbox, toEditor, writer, outbox, shown>>
    BY <1>4 DEF GoplsReads, downVars
  <2>2. toGopls \o Holds(reader.msg) # <<>>
          /\ Tail(toGopls \o Holds(reader.msg)) = Tail(toGopls) \o Holds(reader.msg)
    BY <2>1, StreamsTyped, TailConcat DEF IInv
  <2>3. Up # <<>> /\ Tail(Up) = Tail(toGopls \o Holds(reader.msg)) \o inbox
    BY <2>2, StreamsTyped, TailConcat DEF IInv, Up
  <2>4. Up' = Tail(Up) /\ Down' = Down
    BY <2>1, <2>2, <2>3 DEF Up, Down
  <2> QED  BY <2>1, <2>3, <2>4 DEF Relay!Take, Up, Down
<1>5. CASE GoplsExits
  BY <1>5 DEF GoplsExits, upVars, downVars, Relay!vars
<1> QED  BY <1>2, <1>3, <1>4, <1>5 DEF Gopls

\* The goroutine that reads from the editor only hands on.
LEMMA ReaderRelays ==
  ASSUME IInv, Reader  PROVE UNCHANGED Relay!vars
<1>1. UNCHANGED <<toEditor, writer, outbox, taken, shown>>
  BY DEF Reader, ReaderReads, ReaderStops, ReaderTracks, ReaderForwards, downVars
<1>2. SUFFICES Up' = Up
  BY <1>1 DEF Relay!vars, Up
<1>3. CASE ReaderReads
  <2>1. /\ reader.msg = None /\ reader'.msg = Head(inbox) /\ inbox # <<>>
        /\ inbox' = Tail(inbox) /\ toGopls' = toGopls
    BY <1>3 DEF ReaderReads, IInv, Control
  <2>2. Head(inbox) # None /\ Head(inbox) \in ClientMessages /\ Tail(inbox) \in Seq(ClientMessages)
    BY <2>1, TailTyped, ClientShapes DEF IInv, TypeOK
  <2>3. Up = toGopls \o inbox
    BY <2>1, StreamsTyped, ConcatEmptySeq DEF IInv, Up, Holds
  <2>4. Up' = (toGopls \o <<Head(inbox)>>) \o Tail(inbox)
    BY <2>1, <2>2 DEF Up, Holds
  <2>5. <<Head(inbox)>> \o Tail(inbox) = inbox
    BY <2>1, StreamsTyped, HeadedTail DEF IInv
  <2>6. Up' = toGopls \o (<<Head(inbox)>> \o Tail(inbox))
    <3>1. <<Head(inbox)>> \in Seq(ClientMessages)
      BY <2>2
    <3> QED  BY SMTT(40), <2>2, <2>4, <3>1, StreamsTyped, ConcatAssociative DEF IInv
  <2> QED  BY <2>3, <2>5, <2>6
<1>4. CASE ReaderStops \/ ReaderTracks
  BY <1>4 DEF ReaderStops, ReaderTracks, IInv, TypeOK, Up
<1>5. CASE ReaderForwards
  <2>1. CASE gopls.up /\ Room(toGopls)
    <3>1. /\ reader.msg # None /\ reader'.msg = None /\ inbox' = inbox
          /\ toGopls' = Append(toGopls, reader.msg) /\ reader.msg \in ClientMessages
      BY <1>5, <2>1 DEF ReaderForwards, IInv, Control, TypeOK
    <3>2. toGopls' = toGopls \o Holds(reader.msg)
      BY <3>1, StreamsTyped, AppendIsConcat DEF IInv, Holds
    <3> QED  BY <3>1, <3>2, StreamsTyped, ConcatEmptySeq DEF IInv, Up, Holds
  <2>2. CASE ~gopls.up
    BY <1>5, <2>2 DEF ReaderForwards, IInv, TypeOK, Up
  <2> QED  BY <1>5, <2>1, <2>2 DEF ReaderForwards
<1> QED  BY <1>3, <1>4, <1>5 DEF Reader

\* The main goroutine hands on, and annotates when it writes.
LEMMA WriterRelays ==
  ASSUME IInv, Writer  PROVE Relay!Annotate \/ UNCHANGED Relay!vars
<1>1. UNCHANGED <<toGopls, reader, inbox, taken, shown>>
  BY DEF Writer, WriterReads, WriterLooksUp, WriterWrites, WriterFails, WriterStops, WriterExits,
     upVars, downVars
<1>2. Up' = Up
  BY <1>1 DEF Up
<1>3. Down' = Down => UNCHANGED Relay!vars
  BY <1>1, <1>2 DEF Relay!vars, Up, Down
<1>4. CASE WriterReads
  <2>1. /\ writer.msg = None /\ writer'.msg = Head(outbox) /\ outbox # <<>>
        /\ outbox' = Tail(outbox) /\ toEditor' = toEditor
    BY <1>4 DEF WriterReads, IInv, Control
  <2>2. Head(outbox) # None /\ Head(outbox) \in Delivered /\ Tail(outbox) \in Seq(Delivered)
    <3>1. Head(outbox) \in ServerMessages
      BY <2>1, TailTyped DEF IInv, TypeOK
    <3> QED  BY <2>1, <3>1, StreamsTyped, TailTyped, ServerShapes DEF IInv
  <2>3. Down = toEditor \o outbox
    BY <2>1, StreamsTyped, ConcatEmptySeq DEF IInv, Down, Holds
  <2>4. Down' = (toEditor \o <<Head(outbox)>>) \o Tail(outbox)
    BY <2>1, <2>2 DEF Down, Holds
  <2>5. <<Head(outbox)>> \o Tail(outbox) = outbox
    BY <2>1, StreamsTyped, HeadedTail DEF IInv
  <2>6. Down' = toEditor \o (<<Head(outbox)>> \o Tail(outbox))
    <3>1. <<Head(outbox)>> \in Seq(Delivered)
      BY <2>2
    <3> QED  BY SMTT(40), <2>2, <2>4, <3>1, StreamsTyped, ConcatAssociative DEF IInv
  <2> QED  BY <1>3, <2>3, <2>5, <2>6
<1>5. CASE WriterWrites
  <2> DEFINE m == writer.msg
             shownForm == Appended(writer.msg, writer.note)
  <2>1. /\ m \in ServerMessages /\ m # None /\ m \in Delivered
        /\ toEditor' = Append(toEditor, shownForm) /\ writer'.msg = None /\ outbox' = outbox
    BY <1>5, StreamsTyped DEF WriterWrites, Idle, IInv, Control, TypeOK
  <2>2. shownForm \in Delivered
    BY <2>1, ServerShapes DEF IInv, TypeOK, Appended, Notes
  <2>3. Down = (toEditor \o <<m>>) \o outbox
    BY <2>1 DEF Down, Holds
  <2>4. Down' = (toEditor \o <<shownForm>>) \o outbox
    <3> HIDE DEF shownForm
    <3>1. toEditor' = toEditor \o <<shownForm>> /\ toEditor \o <<shownForm>> \in Seq(Delivered)
      BY <2>1, <2>2, StreamsTyped, AppendIsConcat, AppendProperties DEF IInv
    <3> QED  BY <2>1, <3>1, ConcatEmptySeq DEF Down, Holds
  <2>5. CASE writer.note = None \/ m.text = "null"
    <3>1. shownForm = m
      BY <2>1, <2>5, ServerShapes DEF Appended
    <3> QED  BY <1>3, <2>3, <2>4, <3>1
  <2>6. CASE writer.note # None /\ m.text # "null"
    <3>1. shownForm \in Annotated(m)
      BY <2>1, <2>6, ServerShapes DEF Appended, Annotated, IInv, Looking, TypeOK
    <3> DEFINE i == Len(toEditor) + 1
    <3>2. i \in DOMAIN Down /\ Down[i] = m /\ Down' = [Down EXCEPT ![i] = shownForm]
      <4> HIDE DEF shownForm, m
      <4>1. toEditor \in Seq(Delivered) /\ outbox \in Seq(Delivered)
        BY StreamsTyped DEF IInv
      <4>2. /\ i \in DOMAIN ((toEditor \o <<m>>) \o outbox)
            /\ ((toEditor \o <<m>>) \o outbox)[i] = m
            /\ (toEditor \o <<shownForm>>) \o outbox
                 = [(toEditor \o <<m>>) \o outbox EXCEPT ![i] = shownForm]
        <5>1. m \in Delivered /\ shownForm \in Delivered
          BY <2>1, <2>2
        <5> QED  BY ONLY SMTT(40), <4>1, <5>1, MiddleReplaced
      <4> QED  BY <2>3, <2>4, <4>2
    <3> QED  BY <1>1, <1>2, <3>1, <3>2 DEF Relay!Annotate, Up, Down
  <2> QED  BY <2>5, <2>6
<1>6. CASE Writer /\ ~WriterReads /\ ~WriterWrites
  <2>1. writer'.msg = writer.msg /\ UNCHANGED <<toEditor, outbox>>
    BY ZenonT(40), <1>6 DEF Writer, WriterLooksUp, WriterFails, WriterStops, WriterExits, downVars, IInv, TypeOK
  <2> QED  BY <1>3, <2>1 DEF Down
<1> QED  BY <1>4, <1>5, <1>6

LEMMA StepRelays == IInv /\ [Next]_vars => [Relay!Next]_(Relay!vars)
<1>1. CacheReplaced \/ UNCHANGED vars => UNCHANGED Relay!vars
  BY DEF CacheReplaced, vars, upVars, downVars, Relay!vars
<1> QED
  BY <1>1, EditorRelays, GoplsRelays, ReaderRelays, WriterRelays DEF Next, Relay!Next

\* The four pipes, the goroutines and the cache are one relay: nothing is lost,
\* duplicated or reordered, and only hover results with contents are annotated
\* (proxy.go:98-156, main.go:184-225).
THEOREM ProxyRelays == Spec => RelaysFaithfully
<1>1. Init => Relay!Init
  BY EmptySeq, ConcatEmptySeq DEF Init, Relay!Init, Holds, Idle
<1> QED  BY <1>1, Invariance, StepRelays, PTL DEF Spec, RelaysFaithfully, Relay!Spec

-----------------------------------------------------------------------------
(* No request is forgotten.                                                *)

\* The requests a pipe carries up, the answers it carries down, and what the
\* two goroutines hold of them.
Carried(pipe)  == InPipe(pipe, "hover") \cup InPipe(pipe, "request")
Returned(pipe) == InPipe(pipe, "result") \cup InPipe(pipe, "error")
HeldUp   == IF reader.msg # None /\ reader.msg.kind \in {"hover", "request"}
            THEN {reader.msg.id} ELSE {}
HeldDown == IF writer.msg # None /\ writer.msg.kind \in {"result", "error"}
            THEN {writer.msg.id} ELSE {}

\* Requests on their way, and those that have come back.
Asking == Carried(inbox) \cup HeldUp \cup Carried(toGopls) \cup gopls.working
Answering == Returned(outbox) \cup HeldDown \cup Returned(toEditor) \cup editor.answered

NothingForgotten == editor.sent \subseteq Asking \cup Answering

\* The proxy goes only with the editor or after it has seen gopls' output end.
GoneWithOne == exited => ~editor.open \/ writer.pc = "wait"

LEMMA CarriedAppend ==
  ASSUME NEW S, NEW s \in Seq(S), NEW m \in S
  PROVE  /\ Carried(Append(s, m)) =
              Carried(s) \cup (IF m.kind \in {"hover", "request"} THEN {m.id} ELSE {})
         /\ Returned(Append(s, m)) =
              Returned(s) \cup (IF m.kind \in {"result", "error"} THEN {m.id} ELSE {})
<1>1. \A kind : InPipe(Append(s, m), kind) = InPipe(s, kind) \cup (IF m.kind = kind THEN {m.id} ELSE {})
  BY PipeAppend
<1> QED  BY <1>1 DEF Carried, Returned

LEMMA CarriedTail ==
  ASSUME NEW S, NEW s \in Seq(S), s # <<>>
  PROVE  /\ Carried(s) =
              Carried(Tail(s)) \cup (IF Head(s).kind \in {"hover", "request"} THEN {Head(s).id} ELSE {})
         /\ Returned(s) =
              Returned(Tail(s)) \cup (IF Head(s).kind \in {"result", "error"} THEN {Head(s).id} ELSE {})
<1>1. \A kind : InPipe(s, kind) = InPipe(Tail(s), kind) \cup (IF Head(s).kind = kind THEN {Head(s).id} ELSE {})
  BY PipeTail
<1> QED  BY <1>1 DEF Carried, Returned

LEMMA EditorForgets == IInv /\ NothingForgotten /\ Editor => NothingForgotten'
<1> SUFFICES ASSUME IInv, NothingForgotten, Editor  PROVE NothingForgotten'
  OBVIOUS
<1> USE DEF IInv
<1>1. ASSUME NEW m \in ClientMessages, EditorSends(m), editor'.answered = editor.answered,
             editor'.sent \subseteq editor.sent \cup (IF m.kind \in {"hover", "request"} THEN {m.id} ELSE {})
      PROVE  NothingForgotten'
  <2>1. inbox' = Append(inbox, m) /\ inbox \in Seq(ClientMessages)
    BY <1>1 DEF EditorSends, TypeOK
  <2>2. Carried(inbox') = Carried(inbox) \cup (IF m.kind \in {"hover", "request"} THEN {m.id} ELSE {})
    BY <2>1, CarriedAppend
  <2>3. UNCHANGED <<gopls, toGopls, outbox, toEditor, HeldUp, HeldDown>>
    BY <1>1 DEF EditorSends, downVars, HeldUp, HeldDown
  <2> QED  BY <1>1, <2>2, <2>3 DEF NothingForgotten, Asking, Answering
<1>2. ASSUME NEW id \in Ids, Ask(id)  PROVE NothingForgotten'
  <2>1. PICK m \in ClientMessages : EditorSends(m) /\ m.kind \in {"hover", "request"} /\ m.id = id
    BY <1>2, SentShapes DEF Ask, Msg
  <2>2. editor'.sent = editor.sent \cup {id} /\ editor'.answered = editor.answered
    BY <1>2 DEF Ask, TypeOK
  <2> QED  BY <1>1, <2>1, <2>2
<1>3. ASSUME NEW id \in Ids, Reply(id)  PROVE NothingForgotten'
  <2>1. editor'.sent = editor.sent /\ editor'.answered = editor.answered
    BY <1>3 DEF Reply, TypeOK
  <2>2. Msg("reply", id) \in ClientMessages /\ EditorSends(Msg("reply", id))
    BY <1>3, SentShapes DEF Reply
  <2> QED  BY <1>1, <2>1, <2>2
<1>4. CASE BreakInput
  <2>1. Msg("broken", None) \in ClientMessages /\ EditorSends(Msg("broken", None)) /\ editor' = editor
    BY <1>4, SentShapes DEF BreakInput
  <2> QED  BY <1>1, <2>1
<1>5. CASE EditorReceives
  <2> DEFINE m == Head(toEditor)
             got == IF m.kind \in {"result", "error"} THEN {m.id} ELSE {}
  <2>1. editor'.sent = editor.sent /\ editor'.answered = editor.answered \cup got
    BY <1>5 DEF EditorReceives, TypeOK
  <2>2. Returned(toEditor) = Returned(toEditor') \cup got
    BY <1>5, CarriedTail DEF EditorReceives, TypeOK
  <2>3. UNCHANGED <<gopls, inbox, toGopls, outbox, HeldUp, HeldDown>>
    BY <1>5 DEF EditorReceives, upVars, HeldUp, HeldDown
  <2> HIDE DEF got
  <2> QED  BY <2>1, <2>2, <2>3 DEF NothingForgotten, Asking, Answering
<1>6. CASE EditorCloses
  <2>1. /\ editor'.sent = editor.sent /\ editor'.answered = editor.answered
        /\ UNCHANGED <<gopls, inbox, toGopls, outbox, toEditor, HeldUp, HeldDown>>
    BY <1>6 DEF EditorCloses, upVars, downVars, HeldUp, HeldDown, TypeOK
  <2> QED  BY <2>1 DEF NothingForgotten, Asking, Answering
<1> QED  BY <1>2, <1>3, <1>4, <1>5, <1>6 DEF Editor

LEMMA GoplsForgets == IInv /\ NothingForgotten /\ Gopls => NothingForgotten'
<1> SUFFICES ASSUME IInv, NothingForgotten, Gopls  PROVE NothingForgotten'
  OBVIOUS
<1> USE DEF IInv
<1>1. CASE GoplsReads
  <2> DEFINE m == Head(toGopls)
             got == IF m.kind \in {"hover", "request"} THEN {m.id} ELSE {}
  <2>1. gopls'.working = gopls.working \cup got
    BY <1>1 DEF GoplsReads, TypeOK
  <2>2. Carried(toGopls) = Carried(toGopls') \cup got
    BY <1>1, CarriedTail DEF GoplsReads, TypeOK
  <2>3. UNCHANGED <<editor, inbox, outbox, toEditor, HeldUp, HeldDown>>
    BY <1>1 DEF GoplsReads, downVars, HeldUp, HeldDown
  <2> HIDE DEF got
  <2> QED  BY <2>1, <2>2, <2>3 DEF NothingForgotten, Asking, Answering
<1>2. ASSUME NEW m \in ServerMessages, GoplsSends(m), NEW gone,
             gopls'.working = gopls.working \ gone,
             gone \subseteq IF m.kind \in {"result", "error"} THEN {m.id} ELSE {}
      PROVE  NothingForgotten'
  <2>1. outbox' = Append(outbox, m) /\ outbox \in Seq(ServerMessages)
    BY <1>2 DEF GoplsSends, TypeOK
  <2>2. Returned(outbox') = Returned(outbox) \cup (IF m.kind \in {"result", "error"} THEN {m.id} ELSE {})
    BY <2>1, CarriedAppend
  <2>3. UNCHANGED <<editor, inbox, toGopls, toEditor, HeldUp, HeldDown>>
    BY <1>2 DEF GoplsSends, upVars, HeldUp, HeldDown
  <2> QED  BY <1>2, <2>2, <2>3 DEF NothingForgotten, Asking, Answering
<1>3. ASSUME NEW id \in Ids, GoplsAnswers(id)  PROVE NothingForgotten'
  <2>1. PICK m \in ServerMessages : GoplsSends(m) /\ m.kind \in {"result", "error"} /\ m.id = id
    BY <1>3, AnsweredShapes, AnswerTextsTyped DEF GoplsAnswers, Result, Msg
  <2>2. gopls'.working = gopls.working \ {id}
    BY <1>3 DEF GoplsAnswers, TypeOK
  <2> QED  BY <1>2, <2>1, <2>2
<1>4. ASSUME NEW id \in Ids, GoplsAsks(id)  PROVE NothingForgotten'
  <2>1. gopls'.working = gopls.working \ {}
    BY <1>4 DEF GoplsAsks, TypeOK
  <2> QED  BY <1>2, <1>4, <2>1, AnsweredShapes DEF GoplsAsks
<1>5. CASE BreakOutput
  <2>1. gopls'.working = gopls.working \ {}
    BY <1>5 DEF BreakOutput
  <2> QED  BY <1>2, <1>5, <2>1, AnsweredShapes DEF BreakOutput
<1>6. CASE GoplsExits
  <2>1. /\ gopls'.working = gopls.working
        /\ UNCHANGED <<editor, inbox, toGopls, outbox, toEditor, HeldUp, HeldDown>>
    BY <1>6 DEF GoplsExits, upVars, downVars, HeldUp, HeldDown, TypeOK
  <2> QED  BY <2>1 DEF NothingForgotten, Asking, Answering
<1> QED  BY <1>1, <1>3, <1>4, <1>5, <1>6 DEF Gopls

LEMMA ReaderForgets == IInv /\ NothingForgotten /\ Reader => NothingForgotten'
<1> SUFFICES ASSUME IInv, NothingForgotten, Reader  PROVE NothingForgotten'
  OBVIOUS
<1> USE DEF IInv
<1>1. Reader => UNCHANGED <<gopls, outbox, toEditor, editor, HeldDown>>
  BY DEF Reader, ReaderReads, ReaderStops, ReaderTracks, ReaderForwards, downVars, HeldDown
<1>2. CASE ReaderReads
  <2>1. Head(inbox) \in ClientMessages /\ Head(inbox) # None
    BY <1>2, TailTyped, ClientShapes DEF ReaderReads, TypeOK
  <2>2. HeldUp' = (IF Head(inbox).kind \in {"hover", "request"} THEN {Head(inbox).id} ELSE {}) /\ HeldUp = {}
    BY <1>2, <2>1 DEF ReaderReads, Control, HeldUp
  <2>3. Carried(inbox) = Carried(inbox') \cup HeldUp' /\ toGopls' = toGopls
    BY <1>2, <2>2, CarriedTail DEF ReaderReads, TypeOK
  <2> QED  BY <1>1, <2>2, <2>3 DEF NothingForgotten, Asking, Answering
<1>3. CASE ReaderStops \/ ReaderTracks
  <2>1. reader'.msg = reader.msg /\ UNCHANGED <<inbox, toGopls>>
    BY <1>3 DEF ReaderStops, ReaderTracks, TypeOK
  <2> QED  BY <1>1, <2>1 DEF NothingForgotten, Asking, Answering, HeldUp
<1>4. CASE ReaderForwards
  <2>1. CASE gopls.up /\ Room(toGopls)
    <3>1. /\ toGopls' = Append(toGopls, reader.msg) /\ reader'.msg = None /\ inbox' = inbox
          /\ reader.msg \in ClientMessages /\ toGopls \in Seq(ClientMessages)
      BY <1>4, <2>1 DEF ReaderForwards, TypeOK, Control
    <3>2. Carried(toGopls') = Carried(toGopls) \cup
            (IF reader.msg.kind \in {"hover", "request"} THEN {reader.msg.id} ELSE {})
      BY <3>1, CarriedAppend
    <3>3. HeldUp' = {} /\ Carried(toGopls') = Carried(toGopls) \cup HeldUp
      BY <3>1, <3>2, ClientShapes DEF HeldUp
    <3> QED  BY <1>1, <3>1, <3>3 DEF NothingForgotten, Asking, Answering
  <2>2. CASE ~gopls.up
    <3>1. reader'.msg = reader.msg /\ UNCHANGED <<inbox, toGopls>>
      BY <1>4, <2>2 DEF ReaderForwards, TypeOK
    <3> QED  BY <1>1, <3>1 DEF NothingForgotten, Asking, Answering, HeldUp
  <2> QED  BY <1>4, <2>1, <2>2 DEF ReaderForwards
<1> QED  BY <1>2, <1>3, <1>4 DEF Reader

LEMMA WriterForgets == IInv /\ NothingForgotten /\ Writer => NothingForgotten'
<1> SUFFICES ASSUME IInv, NothingForgotten, Writer  PROVE NothingForgotten'
  OBVIOUS
<1> USE DEF IInv
<1>1. UNCHANGED <<gopls, inbox, toGopls, editor, HeldUp>>
  BY DEF Writer, WriterReads, WriterLooksUp, WriterWrites, WriterFails, WriterStops, WriterExits,
     upVars, HeldUp
<1>2. CASE WriterReads
  <2>1. /\ outbox \in Seq(ServerMessages) /\ outbox # <<>> /\ outbox' = Tail(outbox)
        /\ writer'.msg = Head(outbox) /\ writer.msg = None /\ toEditor' = toEditor
    BY <1>2 DEF WriterReads, TypeOK, Control
  <2>2. Head(outbox) # None
    BY <2>1, TailTyped, ServerShapes
  <2>3. HeldDown = {} /\ Returned(outbox) = Returned(outbox') \cup HeldDown'
    BY <2>1, <2>2, CarriedTail DEF HeldDown
  <2> QED  BY <1>1, <2>1, <2>3 DEF NothingForgotten, Asking, Answering
<1>3. CASE WriterWrites
  <2> DEFINE m == Appended(writer.msg, writer.note)
  <2>1. writer.msg \in ServerMessages /\ writer.msg # None /\ writer.note \in Notes
    BY <1>3 DEF WriterWrites, TypeOK, Control
  <2>2. m \in Delivered /\ m.kind = writer.msg.kind /\ m.id = writer.msg.id
    <3>1. None \in Notes
      BY DEF Notes
    <3>2. /\ [writer.msg EXCEPT !.note = writer.note] \in Delivered
          /\ [writer.msg EXCEPT !.note = None] \in Delivered
      BY <2>1, <3>1, ServerShapes
    <3> QED  BY <2>1, <3>2 DEF Appended, ServerMessages, Msg, Result
  <2>3. toEditor' = Append(toEditor, m) /\ toEditor \in Seq(Delivered) /\ outbox' = outbox
    BY <1>3 DEF WriterWrites, TypeOK
  <2> HIDE DEF m
  <2>4. Returned(toEditor') = Returned(toEditor) \cup (IF m.kind \in {"result", "error"} THEN {m.id} ELSE {})
    BY <2>2, <2>3, CarriedAppend
  <2>5. Returned(toEditor') = Returned(toEditor) \cup HeldDown /\ HeldDown' = {}
    BY <1>3, <2>1, <2>2, <2>4 DEF WriterWrites, Idle, HeldDown
  <2> QED  BY <1>1, <2>3, <2>5 DEF NothingForgotten, Asking, Answering
<1>4. CASE \/ \E pc \in {"location", "ssa", "simple"} : WriterLooksUp(pc)
           \/ WriterFails \/ WriterStops \/ WriterExits
  <2>1. writer'.msg = writer.msg /\ UNCHANGED <<outbox, toEditor>>
    BY <1>4 DEF WriterLooksUp, WriterFails, WriterStops, WriterExits, downVars, TypeOK
  <2> QED  BY <1>1, <2>1 DEF NothingForgotten, Asking, Answering, HeldDown
<1> QED  BY <1>2, <1>3, <1>4 DEF Writer

LEMMA NextForgets == IInv /\ NothingForgotten /\ [Next]_vars => NothingForgotten'
<1>1. CacheReplaced \/ UNCHANGED vars =>
        UNCHANGED <<editor, gopls, inbox, toGopls, outbox, toEditor, reader, writer>>
  BY DEF CacheReplaced, vars, upVars, downVars
<1>2. NothingForgotten /\ (CacheReplaced \/ UNCHANGED vars) => NothingForgotten'
  BY <1>1 DEF NothingForgotten, Asking, Answering, HeldUp, HeldDown
<1> QED  BY <1>2, EditorForgets, GoplsForgets, ReaderForgets, WriterForgets DEF Next

LEMMA NextGone == IInv /\ GoneWithOne /\ [Next]_vars => GoneWithOne'
<1> SUFFICES ASSUME IInv, GoneWithOne, [Next]_vars  PROVE GoneWithOne'
  OBVIOUS
<1>1. CASE Writer
  BY <1>1 DEF Writer, WriterReads, WriterLooksUp, WriterWrites, WriterFails, WriterStops, WriterExits,
     downVars, GoneWithOne
<1>2. CASE ~Writer
  <2>1. UNCHANGED <<exited, writer>>
    BY <1>2 DEF Next, Reader, ReaderReads, ReaderStops, ReaderTracks, ReaderForwards, Editor,
       EditorReceives, EditorCloses, BreakInput, EditorSends, Ask, Reply, Gopls,
       GoplsReads, GoplsExits, BreakOutput, GoplsSends, GoplsAnswers, GoplsAsks, CacheReplaced,
       vars, downVars
  <2>2. ~editor.open => ~editor'.open
    BY <1>2 DEF Next, Reader, ReaderReads, ReaderStops, ReaderTracks, ReaderForwards, Editor,
       EditorReceives, EditorCloses, BreakInput, EditorSends, Ask, Reply, Gopls,
       GoplsReads, GoplsExits, BreakOutput, GoplsSends, GoplsAnswers, GoplsAsks, CacheReplaced,
       vars, IInv, TypeOK
  <2> QED  BY <2>1, <2>2 DEF GoneWithOne
<1> QED  BY <1>1, <1>2

\* A request that was sent is answered, or in a pipe, or held by one of the
\* goroutines, or worked on by gopls: whatever broke, closed or crashed on the
\* way, none disappears (main.go:184-225, proxy.go:98-156).
THEOREM RequestsAccounted == Spec => []NothingForgotten
<1>1. Init => NothingForgotten
  BY DEF Init, NothingForgotten
<1>2. IInv /\ IInv' /\ NothingForgotten /\ [Next]_vars => NothingForgotten'
  BY NextForgets
<1> QED  BY <1>1, <1>2, Invariance, PTL DEF Spec

\* Somebody can take the next step: the guards of the goroutines and of the
\* processes at the ends, without those of new requests, new caches, broken
\* frames, closing and crashing.
ReaderCan ==
  \/ reader.pc = "read" /\ (inbox # <<>> \/ ~editor.open)
  \/ reader.pc = "track"
  \/ reader.pc = "forward" /\ (Room(toGopls) \/ ~gopls.up)
WriterCan ==
  \/ writer.pc = "read" /\ (outbox # <<>> \/ ~gopls.up)
  \/ writer.pc \in {"location", "ssa", "simple"}
  \/ writer.pc = "write" /\ (Room(toEditor) \/ ~editor.open)
  \/ writer.pc = "wait" /\ ~gopls.up
GoplsCan ==
  \/ gopls.up /\ (toGopls # <<>> \/ InputEnded)
  \/ gopls.up /\ gopls.working # {} /\ Room(outbox)
EditorCan == editor.open /\ toEditor # <<>>
CanStep ==
  \/ ~exited /\ (ReaderCan \/ WriterCan)
  \/ GoplsCan
  \/ EditorCan

\* The goroutine that read from the editor has closed gopls' input, or failed to
\* write to it.
InputClosed == reader.pc = "stopped" => ~goplsIn \/ ~gopls.up

LEMMA NextClosed == IInv /\ InputClosed /\ [Next]_vars => InputClosed'
<1> SUFFICES ASSUME IInv, InputClosed, [Next]_vars  PROVE InputClosed'
  OBVIOUS
<1>1. CASE Reader
  BY <1>1 DEF Reader, ReaderReads, ReaderStops, ReaderTracks, ReaderForwards, After, InputClosed,
     IInv, TypeOK
<1>2. CASE ~Reader
  <2>1. UNCHANGED <<reader, goplsIn>>
    BY <1>2 DEF Next, Writer, WriterReads, WriterLooksUp, WriterWrites, WriterFails, WriterStops,
       WriterExits, Editor, EditorReceives, EditorCloses, BreakInput, EditorSends, Ask, Reply, Gopls,
       GoplsReads, GoplsExits, BreakOutput, GoplsSends, GoplsAnswers, GoplsAsks, CacheReplaced,
       vars, upVars
  <2>2. ~gopls.up => ~gopls'.up
    BY <1>2 DEF Next, Writer, WriterReads, WriterLooksUp, WriterWrites, WriterFails, WriterStops,
       WriterExits, Editor, EditorReceives, EditorCloses, BreakInput, EditorSends, Ask, Reply, Gopls,
       GoplsReads, GoplsExits, BreakOutput, GoplsSends, GoplsAnswers, GoplsAsks, CacheReplaced,
       vars, IInv, TypeOK
  <2> QED  BY <2>1, <2>2 DEF InputClosed
<1> QED  BY <1>1, <1>2

\* In a session in which nothing went down or broke, a request that waits for
\* its answer finds somebody who can step: pipes of any size that are full in
\* both directions never stop each other (main.go:184-225).
THEOREM NeverStuck == Spec => [](Healthy /\ editor.sent \ editor.answered # {} => CanStep)
<1>1. Init => NothingForgotten /\ GoneWithOne
  BY DEF Init, NothingForgotten, GoneWithOne
<1>2. IInv /\ NothingForgotten /\ GoneWithOne /\ [Next]_vars => (NothingForgotten /\ GoneWithOne)'
  BY NextForgets, NextGone
<1>3. IInv /\ NothingForgotten /\ GoneWithOne /\ Healthy /\ editor.sent \ editor.answered # {} => CanStep
  <2> SUFFICES ASSUME IInv, NothingForgotten, GoneWithOne, Healthy, ~CanStep
               PROVE  Asking = {} /\ Answering = editor.answered
    BY DEF NothingForgotten
  <2> USE DEF IInv
  <2>1. ~exited
    BY DEF GoneWithOne, Healthy
  <2>2. toGopls = <<>> /\ toEditor = <<>>
    BY DEF CanStep, GoplsCan, EditorCan, Healthy
  <2>3. \A pipe : pipe = <<>> => Room(pipe) /\ Carried(pipe) = {} /\ Returned(pipe) = {}
    BY HoverAssumption, EmptySeq DEF Room, Carried, Returned, InPipe
  <2>4. inbox = <<>> /\ reader.msg = None
    BY <2>1, <2>2, <2>3 DEF CanStep, ReaderCan, Healthy, TypeOK, Control
  <2>5. outbox = <<>> /\ writer.msg = None
    BY <2>1, <2>2, <2>3 DEF CanStep, WriterCan, Healthy, TypeOK, Control, Labels
  <2>6. gopls.working = {}
    BY <2>3, <2>5 DEF CanStep, GoplsCan, EditorCan, Healthy
  <2> QED  BY <2>2, <2>3, <2>4, <2>5, <2>6 DEF Asking, Answering, HeldUp, HeldDown
<1> QED  BY <1>1, <1>2, <1>3, Invariance, PTL DEF Spec
\* When the editor has closed or gopls has gone, and the proxy has not exited,
\* somebody can take the next step: no goroutine waits for one that waits for
\* it, however full the pipes are (main.go:188-193, 213-229).
THEOREM NeverHangs == Spec => [](~(editor.open /\ gopls.up) /\ ~exited => CanStep)
<1>1. Init => InputClosed
  BY DEF Init, InputClosed
<1>2. IInv /\ InputClosed /\ ~(editor.open /\ gopls.up) /\ ~exited => CanStep
  <2> SUFFICES ASSUME IInv, InputClosed, ~exited, ~CanStep  PROVE editor.open /\ gopls.up
    OBVIOUS
  <2> USE DEF IInv
  <2>1. \A pipe : pipe = <<>> => Room(pipe)
    BY HoverAssumption, EmptySeq DEF Room
  <2>2. gopls.up
    <3> SUFFICES ASSUME ~gopls.up  PROVE FALSE
      OBVIOUS
    <3>1. writer.pc = "write" /\ editor.open
      BY DEF CanStep, WriterCan, TypeOK, Labels
    <3>2. toEditor = <<>>
      BY <3>1 DEF CanStep, EditorCan
    <3> QED  BY <2>1, <3>1, <3>2 DEF CanStep, WriterCan
  <2>3. editor.open
    <3> SUFFICES ASSUME ~editor.open  PROVE FALSE
      OBVIOUS
    <3>1. toGopls = <<>> /\ goplsIn
      BY <2>2 DEF CanStep, GoplsCan, InputEnded, TypeOK
    <3>2. reader.pc = "stopped"
      BY <2>1, <3>1 DEF CanStep, ReaderCan, TypeOK
    <3> QED  BY <2>2, <3>1, <3>2 DEF InputClosed
  <2> QED  BY <2>2, <2>3
<1> QED  BY <1>1, <1>2, NextClosed, Invariance, PTL DEF Spec

=============================================================================
