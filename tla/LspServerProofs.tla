-------------------------- MODULE LspServerProofs ---------------------------
(***************************************************************************)
(* Proofs about errsweep-lsp, for every set of messages, headers, caches   *)
(* and every number of messages sent.                                      *)
(***************************************************************************)
EXTENDS LspServer, SequenceTheorems, WellFoundedInduction, TLAPS

-----------------------------------------------------------------------------
(* Frames.                                                                 *)

LEMMA MinOf ==
  ASSUME NEW S, S \subseteq Nat, NEW m \in S, \A x \in S : m <= x
  PROVE  Min(S) = m
<1>1. Min(S) \in S /\ \A x \in S : Min(S) <= x
  BY DEF Min
<1>2. m <= Min(S) /\ Min(S) <= m /\ m \in Nat /\ Min(S) \in Nat
  BY <1>1
<1> QED  BY <1>2

LEMMA MaxOf ==
  ASSUME NEW S, S \subseteq Nat, NEW m \in S, \A x \in S : x <= m
  PROVE  Max(S) = m
<1>1. Max(S) \in S /\ \A x \in S : Max(S) >= x
  BY DEF Max
<1>2. m <= Max(S) /\ Max(S) <= m /\ m \in Nat /\ Max(S) \in Nat
  BY <1>1
<1> QED  BY <1>2

LEMMA ConcatAt ==
  ASSUME NEW T, NEW s \in Seq(T), NEW t \in Seq(T)
  PROVE  /\ s \o t \in Seq(T) /\ Len(s \o t) = Len(s) + Len(t)
         /\ \A i \in 1..Len(s) : (s \o t)[i] = s[i]
         /\ \A i \in 1..Len(t) : (s \o t)[Len(s) + i] = t[i]
OBVIOUS

\* The first blank line of the stream ends the header.
LEMMA BlankFound ==
  ASSUME NEW T, NEW stream \in Seq(T), NEW k \in DOMAIN stream,
         stream[k].kind = "blank", \A i \in DOMAIN stream : i < k => stream[i].kind # "blank"
  PROVE  HeaderEnd(stream) = k
<1> DEFINE I == {i \in 1..Len(stream) : stream[i].kind = "blank"}
<1>1. HeaderEnd(stream) = IF I # {} THEN Min(I) ELSE 0
  BY DEF HeaderEnd, SelectInSeq
<1>2. I \subseteq Nat /\ k \in I /\ \A x \in I : k <= x
  OBVIOUS
<1> HIDE DEF I
<1>3. Min(I) = k
  BY <1>2, MinOf
<1> QED  BY <1>1, <1>2, <1>3

LEMMA NoBlankFound ==
  ASSUME NEW T, NEW stream \in Seq(T), \A i \in DOMAIN stream : stream[i].kind # "blank"
  PROVE  HeaderEnd(stream) = 0
BY DEF HeaderEnd, SelectInSeq
-----------------------------------------------------------------------------
\* What a header says to whom reads all of it.
LEMMA LengthOf ==
  ASSUME NEW T, NEW head \in Seq(T), NEW i \in DOMAIN head, head[i].kind = "length",
         \A j \in DOMAIN head : j > i => head[j].kind # "length"
  PROVE  contentLength(head) = head[i].n
<1> DEFINE lengths == {j \in DOMAIN head : head[j].kind = "length"}
<1>1. lengths \subseteq Nat /\ i \in lengths /\ \A x \in lengths : x <= i
  OBVIOUS
<1>2. contentLength(head) = IF lengths = {} THEN 0 ELSE head[Max(lengths)].n
  BY DEF contentLength
<1> HIDE DEF lengths
<1>3. Max(lengths) = i
  BY <1>1, MaxOf
<1> QED  BY <1>1, <1>2, <1>3

LEMMA NoLength ==
  ASSUME NEW head, \A j \in DOMAIN head : head[j].kind # "length"
  PROVE  contentLength(head) = 0
BY DEF contentLength

\* The stream begins with the frame of message m under the header lines.
Frame(head, m) == head \o <<Blank>> \o Bodies[m]
StartsWith(stream, frame) ==
  Len(frame) <= Len(stream) /\ \A i \in 1..Len(frame) : stream[i] = frame[i]

LEMMA FrameTyped ==
  ASSUME NEW m \in Messages, NEW head \in Headers[m]
  PROVE  /\ head \in Seq(Items) /\ Frame(head, m) \in Seq(Items)
         /\ Bodies[m] \in Seq(Items) /\ Len(Bodies[m]) = Content[m].size
         /\ Content[m].size \in Nat \ {0}
         /\ \A i \in DOMAIN head : head[i].kind # "blank" /\ head[i] \in Items
         /\ \A i \in DOMAIN head : head[i].kind = "bad" => head[i] = BadLength
<1>1. /\ Content[m].size \in Nat \ {0}
      /\ head \in Seq([kind : {"length"}, n : Nat, of : {None}] \cup {BadLength, Header})
  BY ClientAssumption
<1>2. \A i \in DOMAIN head : /\ head[i] \in Items /\ head[i].kind # "blank"
                             /\ head[i].kind = "bad" => head[i] = BadLength
  <2> SUFFICES ASSUME NEW i \in DOMAIN head
               PROVE  /\ head[i] \in Items /\ head[i].kind # "blank"
                      /\ head[i].kind = "bad" => head[i] = BadLength
    OBVIOUS
  <2>1. head[i] \in [kind : {"length"}, n : Nat, of : {None}] \cup {BadLength, Header}
    BY <1>1
  <2> QED  BY <2>1 DEF Items, BadLength, Header, Item
<1>3. head \in Seq(Items)
  BY <1>1, <1>2
<1>4. Bodies[m] = [i \in 1..Content[m].size |-> Item("byte", i, {m})]
  BY DEF Bodies, Body
<1>5. Bodies[m] \in Seq(Items) /\ Len(Bodies[m]) = Content[m].size
  <2>1. \A i \in 1..Content[m].size : Item("byte", i, {m}) \in Items
    BY <1>1 DEF Item, Items
  <2>2. Bodies[m] \in [1..Content[m].size -> Items]
    BY <1>4, <2>1
  <2> QED  BY <1>1, <2>2
<1>6. <<Blank>> \in Seq(Items)
  BY DEF Blank, Item, Items
<1>7. Frame(head, m) \in Seq(Items)
  BY <1>3, <1>5, <1>6 DEF Frame
<1> QED  BY <1>1, <1>2, <1>3, <1>5, <1>7

\* readMessage once it knows where the header ends.
Framed(stream, blank, head, over) ==
  LET last == blank + contentLength(head)
      Stop(status) == [status |-> status, body |-> <<>>, rest |-> <<>>]
  IN  IF BadLength \in ToSet(head) THEN Stop("error")
      ELSE IF blank # 0 /\ contentLength(head) = 0 THEN Stop("error")
      ELSE IF blank = 0 \/ Len(stream) < last THEN Stop(IF over THEN "error" ELSE "wait")
      ELSE [status |-> "ok", body |-> SubSeq(stream, blank + 1, last),
            rest |-> SubSeq(stream, last + 1, Len(stream))]

\* A complete frame that comes first is read, unless its header stops the server.
LEMMA FrameRead ==
  ASSUME NEW m \in Messages, NEW head \in Headers[m], NEW stream \in Seq(Items),
         StartsWith(stream, Frame(head, m)), NEW over \in BOOLEAN
  PROVE  IF Readable(head)
         THEN readMessage(stream, over) =
                [status |-> "ok", body |-> Bodies[m],
                 rest |-> SubSeq(stream, Len(Frame(head, m)) + 1, Len(stream))]
         ELSE readMessage(stream, over).status = "error"
<1> DEFINE h == Len(head)
           n == Content[m].size
<1>1. /\ h \in Nat /\ n \in Nat \ {0} /\ head \in Seq(Items)
      /\ Bodies[m] \in Seq(Items) /\ Len(Bodies[m]) = n
      /\ \A i \in 1..h : head[i].kind # "blank"
      /\ \A i \in 1..h : head[i].kind = "bad" => head[i] = BadLength
  BY FrameTyped
<1>2. /\ Len(Frame(head, m)) = h + 1 + n
      /\ \A i \in 1..h : Frame(head, m)[i] = head[i]
      /\ Frame(head, m)[h + 1] = Blank
      /\ \A i \in 1..n : Frame(head, m)[h + 1 + i] = Bodies[m][i]
  <2> DEFINE top == head \o <<Blank>>
  <2>1. <<Blank>> \in Seq(Items) /\ Len(<<Blank>>) = 1 /\ <<Blank>>[1] = Blank
    BY DEF Blank, Item, Items
  <2>2. /\ top \in Seq(Items) /\ Len(top) = h + 1
        /\ \A i \in 1..h : top[i] = head[i]
        /\ top[h + 1] = Blank
    BY <1>1, <2>1
  <2> HIDE DEF top, h, n
  <2>3. /\ Len(top \o Bodies[m]) = h + 1 + n
        /\ \A i \in 1..(h + 1) : (top \o Bodies[m])[i] = top[i]
        /\ \A i \in 1..n : (top \o Bodies[m])[h + 1 + i] = Bodies[m][i]
    <3>1. Bodies[m] \in Seq(Items) /\ Len(Bodies[m]) = n
      BY <1>1
    <3>2. top \in Seq(Items) /\ Len(top) = h + 1
      BY <2>2
    <3> DEFINE body == Bodies[m]
    <3>3. body \in Seq(Items) /\ Len(body) = n
      BY <3>1
    <3> HIDE DEF body
    <3>4. /\ Len(top \o body) = Len(top) + Len(body)
          /\ \A i \in 1..Len(top) : (top \o body)[i] = top[i]
          /\ \A i \in 1..Len(body) : (top \o body)[Len(top) + i] = body[i]
      <4>1. top \in Seq(Items) /\ body \in Seq(Items)
        BY <3>2, <3>3
      <4>2. Len(top \o body) = Len(top) + Len(body)
        BY ONLY <4>1
      <4>3. \A i \in 1..Len(top) : (top \o body)[i] = top[i]
        BY ONLY <4>1
      <4>4. \A i \in 1..Len(body) : (top \o body)[Len(top) + i] = body[i]
        BY ONLY <4>1
      <4> QED  BY <4>2, <4>3, <4>4
    <3> QED  BY <3>2, <3>3, <3>4 DEF body
  <2>4. Frame(head, m) = top \o Bodies[m]
    BY DEF Frame, top
  <2> QED  BY SMTT(40), <1>1, <2>2, <2>3, <2>4
<1> HIDE DEF h, n
<1>3. /\ Len(stream) >= h + 1 + n
      /\ \A i \in 1..h : stream[i] = head[i]
      /\ stream[h + 1] = Blank
      /\ \A i \in 1..n : stream[h + 1 + i] = Bodies[m][i]
  <2>1. /\ h + 1 + n <= Len(stream)
        /\ \A i \in 1..(h + 1 + n) : stream[i] = Frame(head, m)[i]
    BY <1>2 DEF StartsWith
  <2> QED  BY <1>1, <1>2, <2>1
<1>4. HeaderEnd(stream) = h + 1
  <2>1. h + 1 \in DOMAIN stream /\ stream[h + 1].kind = "blank"
    BY <1>1, <1>3 DEF Blank, Item
  <2>2. \A i \in DOMAIN stream : i < h + 1 => stream[i].kind # "blank"
    <3> SUFFICES ASSUME NEW i \in DOMAIN stream, i < h + 1  PROVE stream[i].kind # "blank"
      OBVIOUS
    <3>1. i \in 1..h
      BY <1>1
    <3> QED  BY <1>1, <1>3, <3>1
  <2> QED  BY <2>1, <2>2, BlankFound
<1>5. SubSeq(stream, 1, IF HeaderEnd(stream) = 0 THEN Len(stream) ELSE HeaderEnd(stream) - 1) = head
  <2>1. SubSeq(stream, 1, h) = head
    BY <1>1, <1>3 DEF h
  <2>2. h \in Nat
    BY <1>1
  <2>3. (IF HeaderEnd(stream) = 0 THEN Len(stream) ELSE HeaderEnd(stream) - 1) = h
    BY ONLY <2>2, <1>4
  <2> QED  BY <2>1, <2>3
<1>6. readMessage(stream, over) = Framed(stream, h + 1, head, over)
  <2>1. readMessage(stream, over) =
          Framed(stream, HeaderEnd(stream),
                 SubSeq(stream, 1, IF HeaderEnd(stream) = 0 THEN Len(stream)
                                   ELSE HeaderEnd(stream) - 1), over)
    BY DEF readMessage, Framed
  <2> QED  BY <1>4, <1>5, <2>1
<1>7. CASE ~Readable(head)
  <2>1. CASE BadLength \in ToSet(head)
    BY <1>6, <1>7, <2>1 DEF Framed
  <2>2. CASE BadLength \notin ToSet(head)
    <3>1. contentLength(head) = 0
      BY <1>7, <2>2, NoLength DEF Readable
    <3> QED  BY <1>1, <1>6, <1>7, <2>2, <3>1 DEF Framed
  <2> QED  BY <2>1, <2>2
<1>8. CASE Readable(head)
  <2>1. BadLength \notin ToSet(head)
    BY <1>8 DEF Readable
  <2>2. contentLength(head) = n
    <3>1. PICK i \in DOMAIN head : /\ head[i] = Length(n)
                                   /\ \A j \in DOMAIN head : j > i => head[j].kind # "length"
      BY <1>8, ClientAssumption DEF n
    <3>2. head[i].kind = "length" /\ head[i].n = n
      BY <3>1 DEF Length, Item
    <3> QED  BY <1>1, <3>1, <3>2, LengthOf
  <2>3. SubSeq(stream, h + 2, h + 1 + n) = Bodies[m]
    <3>1. /\ SubSeq(stream, h + 2, h + 1 + n) \in Seq(Items)
          /\ Len(SubSeq(stream, h + 2, h + 1 + n)) = n
      BY <1>1, <1>3
    <3>2. \A i \in 1..n : SubSeq(stream, h + 2, h + 1 + n)[i] = Bodies[m][i]
      BY <1>1, <1>3
    <3> HIDE DEF Frame
    <3> QED  BY <1>1, <3>1, <3>2, SeqEqual
  <2>4. readMessage(stream, over) =
          [status |-> "ok", body |-> SubSeq(stream, h + 2, h + 1 + n),
           rest |-> SubSeq(stream, h + 1 + n + 1, Len(stream))]
    <3>1. /\ h + 1 # 0 /\ contentLength(head) # 0 /\ ~(Len(stream) < h + 1 + contentLength(head))
          /\ h + 1 + 1 = h + 2
      BY <1>1, <1>3, <2>2
    <3>2. Framed(stream, h + 1, head, over) =
            [status |-> "ok", body |-> SubSeq(stream, h + 1 + 1, h + 1 + n),
             rest |-> SubSeq(stream, h + 1 + n + 1, Len(stream))]
      BY <2>1, <2>2, <3>1 DEF Framed
    <3> QED  BY <1>6, <3>1, <3>2
  <2> QED  BY <1>2, <1>8, <2>3, <2>4
<1> QED  BY <1>7, <1>8

-----------------------------------------------------------------------------
(* The stream: the frames of the messages not read yet, one after another, *)
(* and perhaps the beginning of one more.                                  *)

Sent == {s \in [message : Messages, head : UNION {Headers[m] : m \in Messages}] :
           s.head \in Headers[s.message]}
FrameOf(s) == Frame(s.head, s.message)

LEMMA SentTyped ==
  ASSUME NEW s \in Sent
  PROVE  FrameOf(s) \in Seq(Items) /\ Len(FrameOf(s)) \in Nat /\ FrameOf(s) # <<>>
<1>1. s.message \in Messages /\ s.head \in Headers[s.message]
  BY DEF Sent
<1>2. /\ FrameOf(s) \in Seq(Items) /\ s.head \in Seq(Items)
      /\ Bodies[s.message] \in Seq(Items) /\ Len(Bodies[s.message]) \in Nat \ {0}
  BY <1>1, FrameTyped DEF FrameOf
<1>3. <<Blank>> \in Seq(Items)
  BY DEF Blank, Item, Items
<1>4. FrameOf(s) # <<>>
  <2> DEFINE top == s.head \o <<Blank>>
             body == Bodies[s.message]
  <2>1. top \in Seq(Items) /\ body \in Seq(Items) /\ body # <<>>
    BY <1>2, <1>3
  <2>2. FrameOf(s) = top \o body
    BY DEF FrameOf, Frame
  <2> HIDE DEF top, body
  <2>3. top \o body # <<>>
    BY <2>1
  <2> QED  BY <2>2, <2>3
<1> QED  BY <1>2, <1>4

\* at[i] items of the stream come before what follows message i; the first n
\* messages are no longer there, and `part` is at the end.
Laid(stream, msgs, n, at, part) ==
  /\ n \in 0..Len(msgs)
  /\ at \in [n..Len(msgs) -> Nat] /\ at[n] = 0
  /\ \A i, j \in n..Len(msgs) : i <= j => at[i] <= at[j]
  /\ \A i \in (n + 1)..Len(msgs) :
       /\ at[i] = at[i-1] + Len(FrameOf(msgs[i]))
       /\ \A j \in 1..Len(FrameOf(msgs[i])) : stream[at[i-1] + j] = FrameOf(msgs[i])[j]
  /\ Len(stream) = at[Len(msgs)] + Len(part)
  /\ \A j \in 1..Len(part) : stream[at[Len(msgs)] + j] = part[j]

LEMMA LaidEmpty == Laid(<<>>, <<>>, 0, [i \in 0..0 |-> 0], <<>>)
BY DEF Laid

LEMMA LaidSend ==
  ASSUME NEW stream \in Seq(Items), NEW msgs \in Seq(Sent), NEW n, NEW at, NEW s \in Sent,
         Laid(stream, msgs, n, at, <<>>)
  PROVE  \E new : Laid(stream \o FrameOf(s), Append(msgs, s), n, new, <<>>)
<1> DEFINE L == Len(msgs)
           F == FrameOf(s)
           more == Append(msgs, s)
           new == [i \in n..(L + 1) |-> IF i = L + 1 THEN at[L] + Len(F) ELSE at[i]]
           longer == stream \o F
<1>1. L \in Nat /\ F \in Seq(Items) /\ Len(F) \in Nat
  BY SentTyped
<1>2. /\ n \in 0..L
      /\ at \in [n..L -> Nat] /\ at[n] = 0
      /\ \A i, j \in n..L : i <= j => at[i] <= at[j]
      /\ \A i \in (n + 1)..L :
           /\ at[i] = at[i-1] + Len(FrameOf(msgs[i]))
           /\ \A j \in 1..Len(FrameOf(msgs[i])) : stream[at[i-1] + j] = FrameOf(msgs[i])[j]
      /\ Len(stream) = at[L]
  <2>1. Len(stream) \in Nat
    OBVIOUS
  <2>2. at[Len(msgs)] \in Nat
    BY DEF Laid
  <2> QED  BY <2>1, <2>2 DEF Laid
<1>3. Len(more) = L + 1 /\ more[L + 1] = s /\ \A i \in 1..L : more[i] = msgs[i]
  OBVIOUS
<1> HIDE DEF F
<1>4. /\ Len(longer) = Len(stream) + Len(F)
      /\ \A j \in 1..Len(stream) : longer[j] = stream[j]
      /\ \A j \in 1..Len(F) : longer[Len(stream) + j] = F[j]
  <2>1. Len(longer) = Len(stream) + Len(F)
    BY <1>1
  <2>2. \A j \in 1..Len(stream) : longer[j] = stream[j]
    BY <1>1
  <2>3. \A j \in 1..Len(F) : longer[Len(stream) + j] = F[j]
    BY <1>1
  <2> QED  BY <2>1, <2>2, <2>3
<1> HIDE DEF L, more, longer
<1>5. /\ new \in [n..(L + 1) -> Nat] /\ new[n] = 0
      /\ \A i \in n..L : new[i] = at[i]
      /\ new[L + 1] = at[L] + Len(F)
  BY <1>1, <1>2
<1> HIDE DEF new
<1>6. ASSUME NEW i \in n..(L + 1), NEW j \in n..(L + 1), i <= j  PROVE new[i] <= new[j]
  <2>1. \A k \in n..L : at[k] \in Nat /\ at[k] <= at[L]
    BY <1>1, <1>2
  <2>2. CASE j \in n..L
    <3>1. i \in n..L
      BY <1>1, <1>2, <1>6, <2>2
    <3>2. at[i] <= at[j]
      BY <1>2, <1>6, <2>2, <3>1
    <3> QED  BY <1>5, <2>2, <3>1, <3>2
  <2>3. CASE j = L + 1 /\ i \in n..L
    <3>1. new[i] = at[i] /\ at[i] \in Nat /\ at[i] <= at[L] /\ at[L] \in Nat
      BY <1>1, <1>2, <1>5, <2>1, <2>3
    <3>2. new[j] = at[L] + Len(F)
      BY <1>5, <2>3
    <3> QED  BY <1>1, <3>1, <3>2
  <2>4. CASE i = L + 1 /\ j = L + 1
    <3>1. new[i] = at[L] + Len(F) /\ at[L] \in Nat
      BY <1>1, <1>2, <1>5, <2>4
    <3> QED  BY <1>1, <2>4, <3>1
  <2> QED  BY <1>1, <1>2, <1>6, <2>2, <2>3, <2>4
<1>7. ASSUME NEW i \in (n + 1)..(L + 1)
      PROVE  /\ new[i] = new[i-1] + Len(FrameOf(more[i]))
             /\ \A j \in 1..Len(FrameOf(more[i])) : longer[new[i-1] + j] = FrameOf(more[i])[j]
  <2>1. CASE i \in (n + 1)..L
    <3>1. i - 1 \in n..L /\ i \in n..L /\ i \in 1..L
      BY <1>1, <1>2, <2>1
    <3>2. FrameOf(more[i]) = FrameOf(msgs[i]) /\ Len(FrameOf(msgs[i])) \in Nat
      BY <1>3, <3>1, SentTyped DEF L
    <3>3. new[i] = new[i-1] + Len(FrameOf(more[i]))
      BY <1>2, <1>5, <2>1, <3>1, <3>2
    <3>4. ASSUME NEW j \in 1..Len(FrameOf(msgs[i]))
          PROVE  longer[new[i-1] + j] = FrameOf(msgs[i])[j]
      <4>1. at[i-1] + j \in 1..Len(stream)
        <5>1. at[i] <= at[L] /\ at[i-1] \in Nat /\ at[i] = at[i-1] + Len(FrameOf(msgs[i]))
              /\ at[L] \in Nat
          BY <1>1, <1>2, <2>1, <3>1
        <5> QED  BY SMTT(40), <1>2, <3>2, <5>1
      <4> QED  BY <1>2, <1>4, <1>5, <2>1, <3>1, <4>1
    <3> QED  BY <3>2, <3>3, <3>4
  <2>2. CASE i = L + 1
    <3>1. i - 1 = L /\ L \in n..L /\ FrameOf(more[i]) = F
      BY <1>1, <1>2, <1>3, <2>2 DEF F
    <3> QED  BY SMTT(40), <1>2, <1>4, <1>5, <2>2, <3>1
  <2> QED  BY <1>1, <1>2, <2>1, <2>2
<1>8. n \in 0..(L + 1) /\ Len(longer) = new[L + 1] + Len(<<>>)
  <2>1. at[L] \in Nat /\ Len(<<>>) = 0
    BY <1>1, <1>2
  <2> QED  BY <1>1, <1>2, <1>4, <1>5, <2>1
<1>9. \A j \in 1..Len(<<>>) : longer[new[L + 1] + j] = <<>>[j]
  OBVIOUS
<1>10. Laid(longer, more, n, new, <<>>)
  BY <1>3, <1>5, <1>6, <1>7, <1>8, <1>9 DEF Laid
<1> QED  BY <1>10 DEF longer, more, F

LEMMA LaidBreak ==
  ASSUME NEW stream \in Seq(Items), NEW msgs \in Seq(Sent), NEW n, NEW at,
         NEW part \in Seq(Items), Laid(stream, msgs, n, at, <<>>)
  PROVE  Laid(stream \o part, msgs, n, at, part)
<1> DEFINE L == Len(msgs)
           longer == stream \o part
<1>1. /\ n \in 0..L /\ L \in Nat
      /\ at \in [n..L -> Nat] /\ at[n] = 0
      /\ \A i, j \in n..L : i <= j => at[i] <= at[j]
      /\ \A i \in (n + 1)..L :
           /\ at[i] = at[i-1] + Len(FrameOf(msgs[i]))
           /\ \A j \in 1..Len(FrameOf(msgs[i])) : stream[at[i-1] + j] = FrameOf(msgs[i])[j]
      /\ Len(stream) = at[L]
  <2>1. Len(stream) \in Nat /\ L \in Nat /\ Len(<<>>) = 0
    OBVIOUS
  <2>2. at[L] \in Nat
    BY <2>1 DEF Laid
  <2> HIDE DEF L
  <2>3. n \in 0..L /\ at \in [n..L -> Nat] /\ at[n] = 0
    BY DEF Laid, L
  <2>4. Len(stream) = at[L]
    <3>1. Len(stream) = at[L] + Len(<<>>)
      BY DEF Laid, L
    <3> QED  BY <2>1, <2>2, <3>1
  <2>5. \A i, j \in n..L : i <= j => at[i] <= at[j]
    BY DEF Laid, L
  <2>6. \A i \in (n + 1)..L :
          /\ at[i] = at[i-1] + Len(FrameOf(msgs[i]))
          /\ \A j \in 1..Len(FrameOf(msgs[i])) : stream[at[i-1] + j] = FrameOf(msgs[i])[j]
    BY DEF Laid, L
  <2> QED  BY <2>1, <2>3, <2>4, <2>5, <2>6
<1>2. /\ Len(longer) = Len(stream) + Len(part)
      /\ \A j \in 1..Len(stream) : longer[j] = stream[j]
      /\ \A j \in 1..Len(part) : longer[Len(stream) + j] = part[j]
  <2>1. Len(longer) = Len(stream) + Len(part)
    OBVIOUS
  <2>2. \A j \in 1..Len(stream) : longer[j] = stream[j]
    OBVIOUS
  <2>3. \A j \in 1..Len(part) : longer[Len(stream) + j] = part[j]
    OBVIOUS
  <2> QED  BY <2>1, <2>2, <2>3
<1> HIDE DEF longer
<1>3. ASSUME NEW i \in (n + 1)..L, NEW j \in 1..Len(FrameOf(msgs[i]))
      PROVE  longer[at[i-1] + j] = FrameOf(msgs[i])[j]
  <2>1. msgs[i] \in Sent /\ i \in n..L /\ i - 1 \in n..L /\ L \in n..L
    BY <1>1
  <2>2. Len(FrameOf(msgs[i])) \in Nat
    BY <2>1, SentTyped
  <2>3. at[i-1] + j \in 1..Len(stream)
    <3>1. at[i] <= at[L] /\ at[i-1] \in Nat /\ at[i] = at[i-1] + Len(FrameOf(msgs[i])) /\ at[L] \in Nat
      <4>1. at[i] = at[i-1] + Len(FrameOf(msgs[i]))
        BY <1>1
      <4>2. at[i-1] \in Nat /\ at[L] \in Nat
        BY <1>1, <2>1
      <4>3. at[i] <= at[L]
        BY <1>1, <2>1
      <4> QED  BY <4>1, <4>2, <4>3
    <3> QED  BY <1>1, <2>2, <3>1
  <2> QED  BY <1>1, <1>2, <2>3
<1> HIDE DEF L
<1>4. Laid(longer, msgs, n, at, part)
  BY <1>1, <1>2, <1>3 DEF Laid, L
<1> QED  BY <1>4 DEF longer

LEMMA LaidFirst ==
  ASSUME NEW stream \in Seq(Items), NEW msgs \in Seq(Sent), NEW n, NEW at,
         NEW part \in Seq(Items), Laid(stream, msgs, n, at, part), n < Len(msgs)
  PROVE  /\ n + 1 \in 1..Len(msgs) /\ msgs[n + 1] \in Sent
         /\ StartsWith(stream, FrameOf(msgs[n + 1]))
         /\ stream # <<>>
<1> DEFINE L == Len(msgs)
           F == FrameOf(msgs[n + 1])
<1>1. /\ n \in 0..L /\ L \in Nat /\ Len(part) \in Nat /\ Len(stream) \in Nat
      /\ at \in [n..L -> Nat] /\ at[n] = 0
      /\ \A i, j \in n..L : i <= j => at[i] <= at[j]
      /\ Len(stream) = at[L] + Len(part)
  BY DEF Laid
<1>2. n + 1 \in (n + 1)..L /\ n + 1 \in n..L /\ n + 1 - 1 = n /\ n + 1 \in 1..L /\ L \in n..L
  BY <1>1
<1>3. msgs[n + 1] \in Sent
  BY <1>2
<1>4. F \in Seq(Items) /\ Len(F) \in Nat /\ F # <<>>
  BY <1>3, SentTyped
<1>5. at[n + 1] = at[n] + Len(F) /\ \A j \in 1..Len(F) : stream[at[n] + j] = F[j]
  <2>1. at[n + 1] = at[n] + Len(F)
    BY <1>2 DEF Laid
  <2> DEFINE G(i) == FrameOf(msgs[i])
  <2>2. \A i \in (n + 1)..L : \A j \in 1..Len(G(i)) : stream[at[i-1] + j] = G(i)[j]
    BY DEF Laid
  <2>3. F = G(n + 1)
    OBVIOUS
  <2> HIDE DEF F, G
  <2>4. PICK i \in (n + 1)..L : i = n + 1 /\ i - 1 = n
    BY <1>1, <1>2
  <2>5. \A j \in 1..Len(G(i)) : stream[at[i-1] + j] = G(i)[j]
    BY <2>2
  <2>6. G(i) = F /\ at[i-1] = at[n]
    BY <2>3, <2>4
  <2> QED  BY <2>1, <2>5, <2>6
<1> HIDE DEF F, L
<1>6. at[n + 1] = Len(F) /\ \A j \in 1..Len(F) : stream[j] = F[j]
  BY <1>1, <1>4, <1>5
<1>7. Len(F) <= at[L] /\ at[L] \in Nat
  BY <1>1, <1>2, <1>6
<1>8. Len(F) <= Len(stream) /\ Len(F) > 0
  BY <1>1, <1>4, <1>7
<1>9. StartsWith(stream, F)
  BY <1>6, <1>8 DEF StartsWith
<1>10. stream # <<>>
  BY <1>4, <1>8
<1> QED  BY <1>2, <1>3, <1>9, <1>10 DEF F, L

LEMMA LaidNext ==
  ASSUME NEW stream \in Seq(Items), NEW msgs \in Seq(Sent), NEW n, NEW at,
         NEW part \in Seq(Items), Laid(stream, msgs, n, at, part), n < Len(msgs)
  PROVE  \E new : Laid(SubSeq(stream, Len(FrameOf(msgs[n + 1])) + 1, Len(stream)),
                       msgs, n + 1, new, part)
<1> DEFINE L == Len(msgs)
           k == Len(FrameOf(msgs[n + 1]))
           rest == SubSeq(stream, k + 1, Len(stream))
           new == [i \in (n + 1)..L |-> at[i] - k]
<1>1. /\ n \in 0..L /\ L \in Nat /\ Len(part) \in Nat /\ Len(stream) \in Nat
      /\ at \in [n..L -> Nat] /\ at[n] = 0
      /\ \A i, j \in n..L : i <= j => at[i] <= at[j]
      /\ Len(stream) = at[L] + Len(part)
      /\ \A j \in 1..Len(part) : stream[at[L] + j] = part[j]
  BY DEF Laid
<1>2. n + 1 \in (n + 1)..L /\ n + 1 \in n..L /\ n + 1 - 1 = n /\ L \in (n + 1)..L
  BY <1>1
<1>3. k \in Nat
  <2>1. msgs[n + 1] \in Sent
    BY LaidFirst
  <2> QED  BY <2>1, SentTyped
<1>4. at[n + 1] = k
  <2>1. at[n + 1] = at[n] + k
    BY <1>2 DEF Laid
  <2> HIDE DEF k
  <2> QED  BY <1>1, <1>3, <2>1
<1>5. \A i \in (n + 1)..L : i \in n..L /\ at[i] \in Nat /\ k <= at[i] /\ at[i] <= at[L]
  <2> SUFFICES ASSUME NEW i \in (n + 1)..L
               PROVE  i \in n..L /\ at[i] \in Nat /\ k <= at[i] /\ at[i] <= at[L]
    OBVIOUS
  <2>1. i \in n..L /\ L \in n..L /\ n + 1 <= i /\ i <= L
    BY <1>1, <1>2
  <2>2. at[n + 1] <= at[i] /\ at[i] <= at[L]
    BY <1>1, <1>2, <2>1
  <2>3. at[i] \in Nat
    BY <1>1, <2>1
  <2> QED  BY <1>4, <2>1, <2>2, <2>3
<1> HIDE DEF k
<1>6. at[L] \in Nat /\ k <= at[L] /\ k <= Len(stream)
  BY <1>1, <1>2, <1>3, <1>5
<1>7. /\ rest \in Seq(Items) /\ Len(rest) = Len(stream) - k
      /\ \A j \in 1..(Len(stream) - k) : rest[j] = stream[k + j]
  <2>1. rest \in Seq(Items) /\ Len(rest) = Len(stream) - k
    BY SMTT(40), <1>1, <1>3, <1>6
  <2>2. \A j \in 1..(Len(stream) - k) : rest[j] = stream[k + j]
    BY <1>1, <1>3, <1>6
  <2> QED  BY <2>1, <2>2
<1>8. /\ new \in [(n + 1)..L -> Nat] /\ new[n + 1] = 0
      /\ \A i \in (n + 1)..L : new[i] = at[i] - k
  BY <1>2, <1>3, <1>4, <1>5
<1> HIDE DEF new, rest
<1>9. ASSUME NEW i \in (n + 1)..L, NEW j \in (n + 1)..L, i <= j  PROVE new[i] <= new[j]
  <2>1. at[i] <= at[j]
    BY <1>1, <1>5, <1>9
  <2> QED  BY <1>3, <1>5, <1>8, <2>1
<1>10. ASSUME NEW i \in (n + 2)..L
       PROVE  /\ new[i] = new[i-1] + Len(FrameOf(msgs[i]))
              /\ \A j \in 1..Len(FrameOf(msgs[i])) : rest[new[i-1] + j] = FrameOf(msgs[i])[j]
  <2> DEFINE F == FrameOf(msgs[i])
  <2>1. i \in (n + 1)..L /\ i - 1 \in (n + 1)..L /\ i \in 1..L
    BY <1>1
  <2>2. Len(F) \in Nat
    <3>1. msgs[i] \in Sent
      BY <2>1 DEF L
    <3> QED  BY <3>1, SentTyped
  <2>3. at[i] = at[i-1] + Len(F) /\ \A j \in 1..Len(F) : stream[at[i-1] + j] = F[j]
    BY <2>1 DEF Laid, L
  <2> HIDE DEF F
  <2>4. /\ new[i] = at[i] - k /\ new[i-1] = at[i-1] - k /\ at[i] \in Nat /\ at[i-1] \in Nat
        /\ k <= at[i-1] /\ at[i] <= at[L]
    BY <1>5, <1>8, <2>1
  <2>5. new[i] = new[i-1] + Len(F)
    BY <1>3, <2>2, <2>3, <2>4
  <2>6. ASSUME NEW j \in 1..Len(F)  PROVE rest[new[i-1] + j] = F[j]
    <3>1. new[i-1] + j \in 1..(Len(stream) - k) /\ k + (new[i-1] + j) = at[i-1] + j
      <4>1. Len(stream) \in Nat /\ at[L] \in Nat /\ at[L] <= Len(stream)
        BY <1>1, <1>6
      <4>2. new[i-1] = at[i-1] - k /\ at[i-1] + Len(F) <= at[L] /\ at[i-1] \in Nat /\ k <= at[i-1]
        BY <2>3, <2>4
      <4>3. j \in Nat /\ 1 <= j /\ j <= Len(F)
        BY <2>2
      <4>4. new[i-1] + j \in Nat /\ 1 <= new[i-1] + j
        BY SMTT(40), <1>3, <4>2, <4>3
      <4>5. new[i-1] + j <= Len(stream) - k
        BY SMTT(40), <1>3, <2>2, <4>1, <4>2, <4>3
      <4>6. k + (new[i-1] + j) = at[i-1] + j
        BY SMTT(40), <1>3, <4>2, <4>3
      <4> QED  BY <1>3, <4>1, <4>4, <4>5, <4>6
    <3>2. rest[new[i-1] + j] = stream[k + (new[i-1] + j)]
      BY <1>7, <3>1
    <3> QED  BY <2>3, <3>1, <3>2
  <2> QED  BY <2>5, <2>6 DEF F
<1>11. Len(rest) = new[L] + Len(part)
  <2>1. new[L] = at[L] - k /\ Len(rest) = Len(stream) - k
    BY <1>2, <1>7, <1>8
  <2>2. Len(stream) = at[L] + Len(part) /\ Len(part) \in Nat
    BY <1>1
  <2> QED  BY <1>3, <1>6, <2>1, <2>2
<1>12. ASSUME NEW j \in 1..Len(part)  PROVE rest[new[L] + j] = part[j]
  <2>1. new[L] = at[L] - k
    BY <1>2, <1>8
  <2>2. new[L] + j \in 1..(Len(stream) - k) /\ k + (new[L] + j) = at[L] + j
    BY <1>1, <1>3, <1>6, <2>1
  <2>3. rest[new[L] + j] = stream[k + (new[L] + j)]
    BY <1>7, <2>2
  <2> QED  BY <1>1, <2>2, <2>3
<1>13. n + 1 \in 0..L /\ n + 1 + 1 = n + 2
  BY <1>1, <1>2
<1>14. Laid(rest, msgs, n + 1, new, part)
  BY <1>8, <1>9, <1>10, <1>11, <1>12, <1>13 DEF Laid, L
<1> QED  BY <1>14 DEF rest, k

LEMMA LaidLast ==
  ASSUME NEW stream \in Seq(Items), NEW msgs \in Seq(Sent), NEW at,
         NEW part \in Seq(Items), Laid(stream, msgs, Len(msgs), at, part)
  PROVE  stream = part
<1> DEFINE L == Len(msgs)
<1>1. /\ at[L] = 0 /\ Len(part) \in Nat
      /\ Len(stream) = at[L] + Len(part)
      /\ \A j \in 1..Len(part) : stream[at[L] + j] = part[j]
  BY DEF Laid
<1> HIDE DEF L
<1>2. Len(stream) = Len(part) /\ \A j \in 1..Len(part) : stream[j] = part[j]
  BY <1>1
<1> QED  BY <1>2, SeqEqual

-----------------------------------------------------------------------------
(* What is read when no complete frame is left.                            *)

LEMMA ReadsFramed ==
  ASSUME NEW stream, NEW over
  PROVE  readMessage(stream, over) =
           Framed(stream, HeaderEnd(stream),
                  SubSeq(stream, 1, IF HeaderEnd(stream) = 0 THEN Len(stream)
                                    ELSE HeaderEnd(stream) - 1), over)
BY DEF readMessage, Framed

LEMMA NothingRead == readMessage(<<>>, FALSE).status = "wait"
<1>1. HeaderEnd(<<>>) = 0
  <2>1. <<>> \in Seq(Items) /\ \A i \in DOMAIN <<>> : <<>>[i].kind # "blank"
    OBVIOUS
  <2> QED  BY <2>1, NoBlankFound
<1>2. SubSeq(<<>>, 1, 0) = <<>> /\ Len(<<>>) = 0 /\ BadLength \notin ToSet(<<>>)
  BY DEF ToSet
<1>3. readMessage(<<>>, FALSE) = Framed(<<>>, 0, <<>>, FALSE)
  BY <1>1, <1>2, ReadsFramed
<1>4. Framed(<<>>, 0, <<>>, FALSE).status = "wait"
  BY <1>2 DEF Framed
<1> QED  BY <1>3, <1>4

\* What a frame that is broken off begins with.
LEMMA PartOf ==
  ASSUME NEW part \in Breaks
  PROVE  \E n \in Nat \ {0} :
           /\ part \in Seq(Items) /\ Len(part) < n + 2
           /\ Len(part) >= 1 => part[1] = Length(n)
           /\ Len(part) >= 2 => part[2] = Blank
<1>1. PICK m \in Messages : part \in {SubSeq(writeMessage(m, Content[m].size), 1, k) :
                                      k \in 0..(Content[m].size + 1)}
  BY DEF Breaks
<1>2. PICK k \in 0..(Content[m].size + 1) : part = SubSeq(writeMessage(m, Content[m].size), 1, k)
  BY <1>1
<1> DEFINE n == Content[m].size
           body == Body(m, n)
           top == <<Length(n), Blank>>
           whole == top \o body
<1>3. n \in Nat \ {0}
  BY ClientAssumption
<1>4. k \in Nat /\ k <= n + 1
  BY <1>3
<1>5. body \in Seq(Items) /\ Len(body) = n
  <2>1. \A i \in 1..n : Item("byte", i, {m}) \in Items
    BY <1>3 DEF Item, Items
  <2>2. body \in [1..n -> Items]
    BY <2>1 DEF Body
  <2> QED  BY <1>3, <2>2
<1>6. top \in Seq(Items) /\ Len(top) = 2 /\ top[1] = Length(n) /\ top[2] = Blank
  BY <1>3 DEF Length, Blank, Item, Items
<1>7. part = SubSeq(whole, 1, k)
  BY <1>2 DEF writeMessage
<1> HIDE DEF top, body, n
<1>8. /\ whole \in Seq(Items) /\ Len(whole) = Len(top) + Len(body)
      /\ \A i \in 1..Len(top) : whole[i] = top[i]
  BY ZenonT(40), <1>5, <1>6, ConcatAt
<1> HIDE DEF whole
<1>9. Len(whole) = n + 2
  BY <1>3, <1>5, <1>6, <1>8
<1>10. whole[1] = Length(n) /\ whole[2] = Blank
  BY <1>6, <1>8
<1>11. part \in Seq(Items) /\ Len(part) = k /\ \A i \in 1..k : part[i] = whole[i]
  BY <1>3, <1>4, <1>7, <1>8, <1>9
<1>12. Len(part) < n + 2
  BY <1>3, <1>4, <1>11
<1>13. /\ Len(part) >= 1 => part[1] = Length(n)
       /\ Len(part) >= 2 => part[2] = Blank
  BY <1>4, <1>10, <1>11
<1> QED  BY <1>3, <1>11, <1>12, <1>13

\* The stream that ends in a frame is an error, not a message.
LEMMA PartRead ==
  ASSUME NEW part \in Breaks
  PROVE  readMessage(part, TRUE).status = "error"
<1>1. PICK n \in Nat \ {0} :
        /\ part \in Seq(Items) /\ Len(part) < n + 2
        /\ Len(part) >= 1 => part[1] = Length(n)
        /\ Len(part) >= 2 => part[2] = Blank
  BY PartOf
<1> DEFINE head == SubSeq(part, 1, IF HeaderEnd(part) = 0 THEN Len(part) ELSE HeaderEnd(part) - 1)
<1>2. readMessage(part, TRUE) = Framed(part, HeaderEnd(part), head, TRUE)
  BY ReadsFramed
<1>3. Len(part) \in Nat
  BY <1>1
<1>4. CASE Len(part) < 2
  <2>1. \A i \in DOMAIN part : part[i].kind # "blank"
    <3> SUFFICES ASSUME NEW i \in DOMAIN part  PROVE part[i].kind # "blank"
      OBVIOUS
    <3>1. i = 1 /\ Len(part) >= 1
      BY <1>1, <1>3, <1>4
    <3> QED  BY <1>1, <3>1 DEF Length, Item
  <2>2. HeaderEnd(part) = 0
    BY <1>1, <2>1, NoBlankFound
  <2> HIDE DEF head
  <2>3. Framed(part, 0, head, TRUE).status = "error"
    BY DEF Framed
  <2> QED  BY <1>2, <2>2, <2>3
<1>5. CASE Len(part) >= 2
  <2>1. part[1] = Length(n) /\ part[2] = Blank /\ 2 \in DOMAIN part
    BY <1>1, <1>3, <1>5
  <2>2. part[2].kind = "blank" /\ part[1].kind = "length" /\ part[1].n = n
    BY <2>1 DEF Blank, Length, Item
  <2>3. HeaderEnd(part) = 2
    <3>1. \A i \in DOMAIN part : i < 2 => part[i].kind # "blank"
      <4> SUFFICES ASSUME NEW i \in DOMAIN part, i < 2  PROVE part[i].kind # "blank"
        OBVIOUS
      <4>1. i = 1
        BY <1>1
      <4> QED  BY <2>2, <4>1
    <3> QED  BY <1>1, <2>1, <2>2, <3>1, BlankFound
  <2>4. head \in Seq(Items) /\ Len(head) = 1 /\ head[1] = part[1]
    <3>1. head = SubSeq(part, 1, 1)
      BY <2>3
    <3>2. part \in Seq(Items) /\ 1 <= Len(part)
      BY <1>1, <1>3, <1>5
    <3>3. SubSeq(part, 1, 1) \in Seq(Items) /\ Len(SubSeq(part, 1, 1)) = 1
      BY ONLY <3>2
    <3>4. SubSeq(part, 1, 1)[1] = part[1]
      BY ONLY <3>2
    <3> QED  BY <3>1, <3>3, <3>4
  <2> HIDE DEF head
  <2>5. contentLength(head) = n
    <3>1. 1 \in DOMAIN head /\ head[1].kind = "length" /\ head[1].n = n
          /\ \A j \in DOMAIN head : j > 1 => head[j].kind # "length"
      BY <2>2, <2>4
    <3> QED  BY <2>4, <3>1, LengthOf
  <2>6. Len(part) < 2 + n
    BY <1>1, <1>3
  <2>7. Framed(part, 2, head, TRUE).status = "error"
    BY <2>5, <2>6 DEF Framed
  <2> QED  BY <1>2, <2>3, <2>7
<1>6. Len(part) < 2 \/ Len(part) >= 2
  BY ONLY <1>3
<1> QED  BY <1>4, <1>5, <1>6

-----------------------------------------------------------------------------
(* The invariant: the server has gone through the first n messages, has    *)
(* answered the requests among them, and the rest is in the stream.        *)

Asks(i) == IsRequest(sent[i].message)
Answer(m) ==
  [id |-> Content[m].id, error |-> handleRequest(m).error, shown |-> handleRequest(m).shown]

Passed(n) == \A i \in 1..n : ~Stops(i)

\* turn[k] is the request that the k-th answer is to.
Served(turn, n) ==
  /\ turn \in [DOMAIN replies -> 1..n]
  /\ \A k, l \in DOMAIN replies : k < l => turn[k] < turn[l]
  /\ \A k \in DOMAIN replies : Asks(turn[k]) /\ replies[k] = Answer(sent[turn[k]].message)
  /\ \A i \in 1..n : Asks(i) => \E k \in DOMAIN replies : turn[k] = i

AskedToShutDown(n) ==
  shutdown <=> \E i \in 1..n : Asks(i) /\ Content[sent[i].message].method = "shutdown"

Left(n) ==
  \E at : \E part \in IF closed THEN Breaks ELSE {<<>>} : Laid(wire, sent, n, at, part)

\* The server has ended at what follows the first n messages.
Ended(n) ==
  \/ n = Len(sent) /\ closed /\ exit = 0
  \/ n < Len(sent) /\ ~Readable(sent[n+1].head) /\ exit = 0
  \/ /\ n < Len(sent) /\ Readable(sent[n+1].head) /\ IsExit(sent[n+1].message)
     /\ exit = exitCode

Through(n) == Passed(n) /\ (\E turn : Served(turn, n)) /\ AskedToShutDown(n)
Progress(n) == Through(n) /\ (exit = Running => Left(n)) /\ (exit # Running => Ended(n))

IInv == TypeOK /\ sent \in Seq(Sent) /\ \E n \in 0..Len(sent) : Progress(n)

\* As long as the cache is what it is, so is the answer to a message.
LEMMA AnswerKept ==
  ASSUME NEW i, cache' = cache, sent'[i] = sent[i]
  PROVE  Answer(sent[i].message)' = Answer(sent[i].message)
BY DEF Answer, handleRequest, handleHover, FoundByName, LookupByFuncName, Entries, Result

\* Messages that come later change nothing about those before.
LEMMA ThroughKept ==
  ASSUME NEW n \in Nat, Through(n), \A i \in 1..n : sent'[i] = sent[i],
         cache' = cache, replies' = replies, shutdown' = shutdown
  PROVE  Through(n)'
<1>1. \A i \in 1..n : Asks(i)' = Asks(i) /\ Stops(i)' = Stops(i)
  BY DEF Asks, Stops
<1>2. Passed(n)'
  BY <1>1 DEF Through, Passed
<1>3. AskedToShutDown(n)'
  BY <1>1 DEF Through, AskedToShutDown
<1>4. PICK turn : Served(turn, n)
  BY DEF Through
<1>5. Served(turn, n)'
  <2>1. /\ turn \in [DOMAIN replies' -> 1..n]
        /\ \A k, l \in DOMAIN replies' : k < l => turn[k] < turn[l]
    BY <1>4 DEF Served
  <2>2. ASSUME NEW k \in DOMAIN replies'
        PROVE  Asks(turn[k])' /\ replies'[k] = Answer(sent[turn[k]].message)'
    <3>1. turn[k] \in 1..n /\ Asks(turn[k]) /\ replies[k] = Answer(sent[turn[k]].message)
      BY <1>4 DEF Served
    <3>2. sent'[turn[k]] = sent[turn[k]]
      BY <3>1
    <3>3. Answer(sent[turn[k]].message)' = Answer(sent[turn[k]].message)
      BY <3>2, AnswerKept
    <3> QED  BY <1>1, <3>1, <3>3
  <2>3. \A i \in 1..n : Asks(i)' => \E k \in DOMAIN replies' : turn[k] = i
    BY <1>1, <1>4 DEF Served
  <2> QED  BY <2>1, <2>2, <2>3 DEF Served
<1> QED  BY <1>2, <1>3, <1>5 DEF Through

\* What is read and needs no answer.
LEMMA PassedOver ==
  ASSUME NEW n \in Nat, Through(n), ~Stops(n + 1), ~Asks(n + 1)
  PROVE  Through(n + 1)
<1>1. \A i \in 1..(n + 1) : i \in 1..n \/ i = n + 1
  OBVIOUS
<1>2. \A i \in 1..n : i \in 1..(n + 1)
  OBVIOUS
<1>3. Passed(n + 1)
  BY <1>1 DEF Through, Passed
<1>4. AskedToShutDown(n + 1)
  BY <1>1, <1>2 DEF Through, AskedToShutDown
<1>5. PICK turn : Served(turn, n)
  BY DEF Through
<1>6. Served(turn, n + 1)
  <2>1. turn \in [DOMAIN replies -> 1..(n + 1)]
    BY <1>2, <1>5 DEF Served
  <2> QED  BY <1>1, <1>5, <2>1 DEF Served
<1> QED  BY <1>3, <1>4, <1>6 DEF Through

LEMMA Answered ==
  ASSUME NEW n \in Nat, NEW T, replies \in Seq(T), Through(n), ~Stops(n + 1), Asks(n + 1),
         sent' = sent, cache' = cache,
         replies' = Append(replies, Answer(sent[n + 1].message)),
         shutdown' = (shutdown \/ Content[sent[n + 1].message].method = "shutdown")
  PROVE  Through(n + 1)'
<1> DEFINE L == Len(replies)
<1>1. \A i \in 1..(n + 1) : i \in 1..n \/ i = n + 1
  OBVIOUS
<1>2. n + 1 \in 1..(n + 1) /\ \A i \in 1..n : i \in 1..(n + 1)
  OBVIOUS
<1>3. \A i \in 1..(n + 1) : Asks(i)' = Asks(i) /\ Stops(i)' = Stops(i)
  BY DEF Asks, Stops
<1>4. Passed(n + 1)'
  BY <1>1, <1>3 DEF Through, Passed
<1>5. AskedToShutDown(n + 1)'
  BY <1>1, <1>2, <1>3 DEF Through, AskedToShutDown
<1>6. PICK turn : Served(turn, n)
  BY DEF Through
<1> DEFINE longer == [k \in 1..(L + 1) |-> IF k = L + 1 THEN n + 1 ELSE turn[k]]
<1>7. L \in Nat /\ DOMAIN replies = 1..L
  OBVIOUS
<1>8. /\ DOMAIN replies' = 1..(L + 1)
      /\ \A k \in 1..L : replies'[k] = replies[k]
      /\ replies'[L + 1] = Answer(sent[n + 1].message)
  <2> DEFINE a == Answer(sent[n + 1].message)
  <2>1. replies' = Append(replies, a)
    OBVIOUS
  <2> HIDE DEF a
  <2>2. DOMAIN Append(replies, a) = 1..(L + 1)
    OBVIOUS
  <2>3. \A k \in 1..L : Append(replies, a)[k] = replies[k]
    OBVIOUS
  <2>4. Append(replies, a)[L + 1] = a
    OBVIOUS
  <2> QED  BY <2>1, <2>2, <2>3, <2>4 DEF a
<1> HIDE DEF L
<1>9. PICK more :
        /\ \A k \in 1..L : more[k] = turn[k] /\ turn[k] \in 1..n
        /\ more[L + 1] = n + 1
        /\ more \in [1..(L + 1) -> 1..(n + 1)]
  <2>1. \A k \in 1..L : turn[k] \in 1..n
    BY <1>6, <1>7 DEF Served
  <2>2. \A k \in 1..L : longer[k] = turn[k]
    BY <1>7
  <2>3. longer[L + 1] = n + 1
    BY <1>7
  <2>4. \A k \in 1..(L + 1) : k = L + 1 \/ k \in 1..L
    BY <1>7
  <2>5. longer \in [1..(L + 1) -> 1..(n + 1)]
    BY <1>2, <2>1, <2>4
  <2> HIDE DEF longer
  <2> QED  BY <2>1, <2>2, <2>3, <2>5
<1> HIDE DEF longer
<1>10. \A k \in 1..(L + 1) : k = L + 1 \/ k \in 1..L
  BY <1>7
<1>11. ASSUME NEW k \in 1..(L + 1), NEW l \in 1..(L + 1), k < l  PROVE more[k] < more[l]
  <2>1. k \in 1..L
    BY <1>7, <1>11
  <2>2. CASE l \in 1..L
    BY <1>6, <1>7, <1>9, <1>11, <2>1, <2>2 DEF Served
  <2>3. CASE l = L + 1
    BY <1>9, <2>1, <2>3
  <2> QED  BY <1>10, <2>2, <2>3
<1>12. ASSUME NEW k \in 1..(L + 1)
       PROVE  Asks(more[k])' /\ replies'[k] = Answer(sent[more[k]].message)'
  <2>1. Answer(sent[more[k]].message)' = Answer(sent[more[k]].message)
    BY AnswerKept
  <2>2. Asks(more[k]) /\ replies'[k] = Answer(sent[more[k]].message)
    <3>1. CASE k = L + 1
      BY <1>8, <1>9, <3>1
    <3>2. CASE k \in 1..L
      BY <1>6, <1>7, <1>8, <1>9, <3>2 DEF Served
    <3> QED  BY <1>10, <3>1, <3>2
  <2> QED  BY <1>3, <1>9, <2>1, <2>2
<1>13. ASSUME NEW i \in 1..(n + 1), Asks(i)  PROVE \E k \in 1..(L + 1) : more[k] = i
  <2>1. L + 1 \in 1..(L + 1) /\ \A k \in 1..L : k \in 1..(L + 1)
    BY <1>7
  <2>2. CASE i \in 1..n
    <3>1. PICK k \in 1..L : turn[k] = i
      BY <1>6, <1>7, <1>13, <2>2 DEF Served
    <3> QED  BY <1>9, <2>1, <3>1
  <2>3. CASE i = n + 1
    BY <1>9, <2>1, <2>3
  <2> QED  BY <1>1, <2>2, <2>3
<1>14. Served(more, n + 1)'
  BY <1>3, <1>8, <1>9, <1>11, <1>12, <1>13 DEF Served
<1> QED  BY <1>4, <1>5, <1>14 DEF Through

-----------------------------------------------------------------------------
(* Every step keeps the invariant.                                         *)

LEMMA InitInvariant == Init => IInv
<1> SUFFICES ASSUME Init  PROVE IInv
  OBVIOUS
<1>1. TypeOK
  <2>1. \A T : <<>> \in Seq(T)
    OBVIOUS
  <2>2. cache \in Caches \cup {NoCache} /\ wire = <<>> /\ replies = <<>> /\ sent = <<>>
    BY DEF Init
  <2>3. closed \in BOOLEAN /\ shutdown \in BOOLEAN /\ exit \in {Running, 0, 1}
    BY DEF Init
  <2> QED  BY <2>1, <2>2, <2>3 DEF TypeOK
<1>2. sent = <<>> /\ replies = <<>> /\ wire = <<>> /\ ~closed /\ ~shutdown /\ exit = Running
  BY DEF Init
<1>3. Through(0)
  <2>1. Served(<<>>, 0)
    BY <1>2 DEF Served
  <2> QED  BY <1>2, <2>1 DEF Through, Passed, AskedToShutDown
<1>4. Left(0)
  BY <1>2, LaidEmpty DEF Left
<1>5. Progress(0) /\ 0 \in 0..Len(sent) /\ sent \in Seq(Sent)
  BY <1>2, <1>3, <1>4 DEF Progress
<1> QED  BY <1>1, <1>5 DEF IInv

\* A frame parses as the message that was sent, if as any.
LEMMA ParsedOne ==
  ASSUME NEW m \in Messages, NEW frame, frame.body = Bodies[m]
  PROVE  /\ \A k \in Parsed(frame) : k = m /\ Content[m].parses
         /\ Content[m].parses => m \in Parsed(frame)
<1>1. ASSUME NEW k \in Messages  PROVE Bodies[k][1] = Item("byte", 1, {k})
  <2>1. Bodies[k] = [i \in 1..Content[k].size |-> Item("byte", i, {k})]
    BY DEF Bodies, Body
  <2>2. 1 \in 1..Content[k].size
    BY ClientAssumption
  <2> QED  BY <2>1, <2>2
<1>2. ASSUME NEW k \in Messages, Bodies[k] = Bodies[m]  PROVE k = m
  <2>1. Item("byte", 1, {k}) = Item("byte", 1, {m})
    BY <1>1, <1>2
  <2>2. Item("byte", 1, {k}).of = {k} /\ Item("byte", 1, {m}).of = {m}
    BY DEF Item
  <2>3. {k} = {m}
    BY <2>1, <2>2
  <2> QED  BY <2>3
<1> QED  BY <1>2 DEF Parsed

LEMMA SendKeeps ==
  ASSUME IInv, Send  PROVE IInv'
<1>1. PICK m \in Messages : \E head \in Headers[m] :
        /\ wire' = wire \o head \o <<Blank>> \o Bodies[m]
        /\ sent' = Append(sent, [message |-> m, head |-> head])
  BY DEF Send
<1>2. PICK head \in Headers[m] :
        /\ wire' = wire \o head \o <<Blank>> \o Bodies[m]
        /\ sent' = Append(sent, [message |-> m, head |-> head])
  BY <1>1
<1>3. ~closed /\ UNCHANGED <<cache, closed, shutdown, replies, exit>>
  BY DEF Send
<1> DEFINE s == [message |-> m, head |-> head]
<1>4. s \in Sent /\ FrameOf(s) = (head \o <<Blank>>) \o Bodies[m]
  BY DEF Sent, FrameOf, Frame
<1>5. wire \in Seq(Items) /\ sent \in Seq(Sent)
  BY DEF IInv, TypeOK
<1>6. wire' = wire \o FrameOf(s)
  <2>1. head \in Seq(Items) /\ Bodies[m] \in Seq(Items)
    BY FrameTyped
  <2>2. <<Blank>> \in Seq(Items)
    BY DEF Blank, Item, Items
  <2>3. (wire \o head) \o <<Blank>> = wire \o (head \o <<Blank>>)
    BY SMTT(40), <1>5, <2>1, <2>2, ConcatAssociative
  <2>4. head \o <<Blank>> \in Seq(Items)
    BY <2>1, <2>2
  <2>5. (wire \o (head \o <<Blank>>)) \o Bodies[m] = wire \o ((head \o <<Blank>>) \o Bodies[m])
    <3> DEFINE top == head \o <<Blank>>
               body == Bodies[m]
    <3>1. wire \in Seq(Items) /\ top \in Seq(Items) /\ body \in Seq(Items)
      BY <1>5, <2>1, <2>4
    <3> HIDE DEF top, body
    <3>2. (wire \o top) \o body = wire \o (top \o body)
      BY ONLY <3>1, ConcatAssociative
    <3> QED  BY <3>2 DEF top, body
  <2> QED  BY <1>2, <1>4, <2>3, <2>5
<1>7. FrameOf(s) \in Seq(Items)
  BY <1>4, SentTyped
<1> HIDE DEF s
<1>8. sent' = Append(sent, s)
  BY <1>2 DEF s
<1>9. wire' \in Seq(Items)
  BY <1>5, <1>6, <1>7, ConcatAt
<1>10. /\ sent' \in Seq(Sent) /\ Len(sent') = Len(sent) + 1
       /\ \A i \in 1..Len(sent) : sent'[i] = sent[i]
  BY <1>4, <1>5, <1>8
<1>11. TypeOK'
  <2>1. sent' \in Seq([message : Messages, head : UNION {Headers[k] : k \in Messages}])
    <3>1. s \in [message : Messages, head : UNION {Headers[k] : k \in Messages}]
      BY <1>4 DEF Sent
    <3>2. sent \in Seq([message : Messages, head : UNION {Headers[k] : k \in Messages}])
      BY DEF IInv, TypeOK
    <3> QED  BY <1>8, <3>1, <3>2
  <2> QED  BY <1>3, <1>9, <2>1 DEF IInv, TypeOK, Entries
<1>12. PICK n \in 0..Len(sent) : Progress(n)
  BY DEF IInv
<1>13. Len(sent) \in Nat /\ n \in Nat /\ n <= Len(sent) /\ n \in 0..Len(sent')
  BY <1>5, <1>10
<1>14. Through(n)'
  BY <1>3, <1>10, <1>12, <1>13, ThroughKept DEF Progress
<1>15. ASSUME exit = Running  PROVE Left(n)'
  <2>1. PICK at : Laid(wire, sent, n, at, <<>>)
    BY <1>3, <1>12, <1>15 DEF Progress, Left
  <2>2. PICK new : Laid(wire \o FrameOf(s), Append(sent, s), n, new, <<>>)
    BY <1>4, <1>5, <2>1, LaidSend
  <2>3. Laid(wire', sent', n, new, <<>>)
    BY <1>6, <1>8, <2>2
  <2> QED  BY <1>3, <2>3 DEF Left
<1>16. ASSUME exit # Running  PROVE Ended(n)'
  <2>1. Ended(n)
    BY <1>12, <1>16 DEF Progress
  <2>2. n < Len(sent)
    BY <1>3, <2>1, <1>13 DEF Ended
  <2>3. n < Len(sent') /\ sent'[n + 1] = sent[n + 1]
    BY <1>10, <1>13, <2>2
  <2>4. exitCode' = exitCode
    BY <1>3 DEF exitCode
  <2> QED  BY <1>3, <2>1, <2>2, <1>13, <2>3, <2>4 DEF Ended
<1> QED  BY <1>3, <1>10, <1>11, <1>13, <1>14, <1>15, <1>16 DEF IInv, Progress

LEMMA BreakKeeps ==
  ASSUME IInv, Break  PROVE IInv'
<1>1. PICK part \in Breaks : wire' = wire \o part
  BY DEF Break
<1>2. ~closed /\ closed' = TRUE /\ UNCHANGED <<cache, shutdown, replies, exit, sent>>
  BY DEF Break
<1>3. part \in Seq(Items) /\ wire \in Seq(Items) /\ sent \in Seq(Sent)
  BY PartOf DEF IInv, TypeOK
<1>4. wire' \in Seq(Items)
  BY <1>1, <1>3, ConcatAt
<1>5. TypeOK'
  BY <1>2, <1>4 DEF IInv, TypeOK, Entries
<1>6. PICK n \in 0..Len(sent) : Progress(n)
  BY DEF IInv
<1>7. n \in Nat
  BY <1>3
<1>8. Through(n)'
  BY <1>2, <1>6, <1>7, ThroughKept DEF Progress
<1>9. ASSUME exit = Running  PROVE Left(n)'
  <2>1. PICK at : Laid(wire, sent, n, at, <<>>)
    BY <1>2, <1>6, <1>9 DEF Progress, Left
  <2>2. Laid(wire', sent', n, at, part)
    BY <1>1, <1>2, <1>3, <2>1, LaidBreak
  <2> QED  BY <1>2, <2>2 DEF Left
<1>10. ASSUME exit # Running  PROVE Ended(n)'
  BY <1>2, <1>6, <1>10 DEF Progress, Ended, exitCode
<1> QED  BY <1>2, <1>5, <1>3, <1>6, <1>8, <1>9, <1>10 DEF IInv, Progress


\* What the server finds in the stream while messages are left.
LEMMA FrameFound ==
  ASSUME IInv, NEW n \in 0..Len(sent), Progress(n), exit = Running, n < Len(sent)
  PROVE  /\ sent[n + 1] \in Sent /\ n + 1 \in 0..Len(sent) /\ n \in Nat
         /\ IF Readable(sent[n + 1].head)
            THEN /\ readMessage(wire, closed).status = "ok"
                 /\ readMessage(wire, closed).body = Bodies[sent[n + 1].message]
                 /\ readMessage(wire, closed).rest \in Seq(Items)
                 /\ \E at : \E part \in IF closed THEN Breaks ELSE {<<>>} :
                      Laid(readMessage(wire, closed).rest, sent, n + 1, at, part)
            ELSE readMessage(wire, closed).status = "error"
<1> DEFINE s == sent[n + 1]
           rest == SubSeq(wire, Len(FrameOf(s)) + 1, Len(wire))
<1>1. wire \in Seq(Items) /\ sent \in Seq(Sent) /\ closed \in BOOLEAN
  BY DEF IInv, TypeOK
<1>2. PICK at : \E part \in IF closed THEN Breaks ELSE {<<>>} : Laid(wire, sent, n, at, part)
  BY DEF Progress, Left
<1>3. PICK part \in IF closed THEN Breaks ELSE {<<>>} : Laid(wire, sent, n, at, part)
  BY <1>2
<1>4. part \in Seq(Items)
  <2>1. <<>> \in Seq(Items)
    OBVIOUS
  <2> QED  BY <2>1, PartOf
<1>5. s \in Sent /\ StartsWith(wire, FrameOf(s)) /\ n + 1 \in 1..Len(sent)
  BY <1>1, <1>3, <1>4, LaidFirst
<1>6. \E new : Laid(rest, sent, n + 1, new, part)
  BY <1>1, <1>3, <1>4, LaidNext
<1>7. s.message \in Messages /\ s.head \in Headers[s.message]
  BY <1>5 DEF Sent
<1>8. IF Readable(s.head)
      THEN readMessage(wire, closed) = [status |-> "ok", body |-> Bodies[s.message], rest |-> rest]
      ELSE readMessage(wire, closed).status = "error"
  BY <1>1, <1>5, <1>7, FrameRead DEF FrameOf
<1>9. rest \in Seq(Items)
  <2>1. Len(FrameOf(s)) \in Nat /\ Len(wire) \in Nat
    BY <1>1, <1>5, SentTyped
  <2> QED  BY <1>1, <2>1
<1>10. n \in Nat /\ n + 1 \in 0..Len(sent)
  BY <1>1
<1> HIDE DEF s, rest
<1>11. CASE Readable(s.head)
  <2>1. /\ readMessage(wire, closed).status = "ok"
        /\ readMessage(wire, closed).body = Bodies[s.message]
        /\ readMessage(wire, closed).rest = rest
    BY <1>8, <1>11
  <2> QED  BY <1>3, <1>5, <1>6, <1>9, <1>10, <1>11, <2>1 DEF s
<1>12. CASE ~Readable(s.head)
  BY <1>5, <1>8, <1>10, <1>12 DEF s
<1> QED  BY <1>11, <1>12

\* What it finds when none is left: nothing yet, or the end of its input.
LEMMA EndFound ==
  ASSUME IInv, NEW n \in 0..Len(sent), Progress(n), exit = Running, n = Len(sent)
  PROVE  readMessage(wire, closed).status = IF closed THEN "error" ELSE "wait"
<1>1. wire \in Seq(Items) /\ sent \in Seq(Sent) /\ closed \in BOOLEAN
  BY DEF IInv, TypeOK
<1>2. PICK at : \E part \in IF closed THEN Breaks ELSE {<<>>} : Laid(wire, sent, n, at, part)
  BY DEF Progress, Left
<1>3. PICK part \in IF closed THEN Breaks ELSE {<<>>} : Laid(wire, sent, n, at, part)
  BY <1>2
<1>4. part \in Seq(Items)
  <2>1. <<>> \in Seq(Items)
    OBVIOUS
  <2> QED  BY <2>1, PartOf
<1>5. wire = part
  BY <1>1, <1>3, <1>4, LaidLast
<1>6. CASE closed
  BY <1>3, <1>5, <1>6, PartRead
<1>7. CASE ~closed
  BY <1>1, <1>3, <1>5, <1>7, NothingRead
<1> QED  BY <1>6, <1>7

\* The server goes on after message n + 1.
LEMMA GoesOn ==
  ASSUME IInv, NEW n \in 0..Len(sent), Progress(n), exit = Running, n < Len(sent),
         Readable(sent[n + 1].head), Through(n + 1)',
         wire' = readMessage(wire, closed).rest,
         UNCHANGED <<cache, closed, exit, sent>>,
         shutdown' \in BOOLEAN,
         replies' \in Seq([id : {Content[m].id : m \in Messages} \ {NoId},
                           error : {0, -32601, -32602}, shown : SUBSET Entries])
  PROVE  IInv'
<1>1. /\ sent \in Seq(Sent) /\ n + 1 \in 0..Len(sent)
      /\ wire' \in Seq(Items)
      /\ \E at : \E part \in IF closed THEN Breaks ELSE {<<>>} : Laid(wire', sent, n + 1, at, part)
  BY FrameFound DEF IInv
<1>2. Entries' = Entries
  BY DEF Entries
<1>3. TypeOK'
  BY <1>1, <1>2 DEF IInv, TypeOK
<1>4. Left(n + 1)'
  BY <1>1 DEF Left
<1>5. Progress(n + 1)'
  BY <1>4 DEF Progress
<1> QED  BY <1>1, <1>3, <1>5 DEF IInv


\* What an answer shows is of the cache, and its error is one of handleRequest.
LEMMA AnswerTyped ==
  ASSUME NEW m \in Messages, Content[m].id # NoId
  PROVE  Answer(m) \in [id : {Content[k].id : k \in Messages} \ {NoId},
                        error : {0, -32601, -32602}, shown : SUBSET Entries]
<1>1. handleHover(m) \subseteq Entries
  <2>1. \A name : LookupByFuncName(name) \subseteq Entries
    BY DEF LookupByFuncName
  <2>2. FoundByName(Names[m]) \subseteq Entries
    BY <2>1 DEF FoundByName
  <2>3. Content[m].params.place \in DOMAIN cache => cache[Content[m].params.place] \in Entries
    BY DEF Entries
  <2> QED  BY <2>2, <2>3 DEF handleHover
<1>2. /\ handleRequest(m).error \in {0, -32601, -32602}
      /\ handleRequest(m).shown \in SUBSET Entries
  <2>1. handleRequest(m) \in {Result(0, {}), Result(0, handleHover(m)), Result(-32602, {}),
                              Result(-32601, {})}
    BY DEF handleRequest
  <2>2. CASE handleRequest(m) = Result(0, handleHover(m))
    BY <1>1, <2>2 DEF Result
  <2>3. CASE handleRequest(m) \in {Result(0, {}), Result(-32602, {}), Result(-32601, {})}
    BY <2>3 DEF Result
  <2> QED  BY <2>1, <2>2, <2>3
<1> QED  BY <1>2 DEF Answer

LEMMA ServerKeeps ==
  ASSUME IInv, Server  PROVE IInv'
<1> DEFINE frame == readMessage(wire, closed)
<1>1. exit = Running
      /\ (ReadFails(frame) \/ SkipUnparsable(frame) \/ handleNotif(frame) \/ Serve(frame))
  BY DEF Server
<1> HIDE DEF frame
<1>2. PICK n \in 0..Len(sent) : Progress(n)
  BY DEF IInv
<1>3. sent \in Seq(Sent) /\ Len(sent) \in Nat /\ n \in Nat
  BY DEF IInv
<1>4. CASE n = Len(sent)
  <2>1. frame.status = IF closed THEN "error" ELSE "wait"
    BY <1>1, <1>2, <1>4, EndFound DEF frame
  <2>2. ReadFails(frame) /\ closed
    BY <1>1, <2>1 DEF ReadFails, SkipUnparsable, handleNotif, Serve
  <2>3. exit' = 0 /\ UNCHANGED <<cache, wire, closed, shutdown, replies, sent>>
    BY <2>2 DEF ReadFails
  <2>4. TypeOK'
    BY <2>3 DEF IInv, TypeOK, Entries
  <2>5. Through(n)'
    BY <1>2, <1>3, <2>3, ThroughKept DEF Progress
  <2>6. Ended(n)' /\ exit' # Running
    BY <1>4, <2>2, <2>3 DEF Ended, Running
  <2> QED  BY <1>2, <1>3, <2>3, <2>4, <2>5, <2>6 DEF IInv, Progress
<1>5. CASE n < Len(sent)
  <2> DEFINE s == sent[n + 1]
             m == s.message
  <2>1. /\ s \in Sent /\ m \in Messages
        /\ IF Readable(s.head)
           THEN frame.status = "ok" /\ frame.body = Bodies[m]
           ELSE frame.status = "error"
    BY <1>1, <1>2, <1>5, FrameFound DEF frame, Sent
  <2>2. CASE ~Readable(s.head)
    <3>1. ReadFails(frame)
      BY <1>1, <2>1, <2>2 DEF ReadFails, SkipUnparsable, handleNotif, Serve
    <3>2. exit' = 0 /\ UNCHANGED <<cache, wire, closed, shutdown, replies, sent>>
      BY <3>1 DEF ReadFails
    <3>3. TypeOK'
      BY <3>2 DEF IInv, TypeOK, Entries
    <3>4. Through(n)'
      BY <1>2, <1>3, <3>2, ThroughKept DEF Progress
    <3>5. Ended(n)' /\ exit' # Running
      BY <1>5, <2>2, <3>2 DEF Ended, Running
    <3> QED  BY <1>2, <1>3, <3>2, <3>3, <3>4, <3>5 DEF IInv, Progress
  <2>3. CASE Readable(s.head)
    <3>1. frame.status = "ok" /\ frame.body = Bodies[m]
      BY <2>1, <2>3
    <3>2. /\ \A k \in Parsed(frame) : k = m /\ Content[m].parses
          /\ Content[m].parses => m \in Parsed(frame)
      BY <2>1, <3>1, ParsedOne
    <3>3. /\ Stops(n + 1) <=> IsExit(m)
          /\ Asks(n + 1) <=> IsRequest(m)
      BY <2>3 DEF Stops, Asks
    <3>4. Through(n) /\ n + 1 \in 1..Len(sent)
      BY <1>2, <1>3, <1>5 DEF Progress
    <3>8. /\ IInv /\ n \in 0..Len(sent) /\ Progress(n) /\ exit = Running /\ n < Len(sent)
          /\ Readable(sent[n + 1].head) /\ frame.rest = readMessage(wire, closed).rest
      BY <1>1, <1>2, <1>5, <2>3 DEF frame
    <3>9. ASSUME Through(n + 1)', wire' = frame.rest, UNCHANGED <<cache, closed, exit, sent>>,
                 shutdown' \in BOOLEAN,
                 replies' \in Seq([id : {Content[k].id : k \in Messages} \ {NoId},
                                   error : {0, -32601, -32602}, shown : SUBSET Entries])
          PROVE  IInv'
      <4> HIDE DEF frame
      <4> QED  BY ONLY <3>8, <3>9, GoesOn
    <3>5. CASE SkipUnparsable(frame)
      <4>1. wire' = frame.rest /\ UNCHANGED <<cache, closed, shutdown, replies, exit, sent>>
        BY <3>5 DEF SkipUnparsable
      <4>2. ~Stops(n + 1) /\ ~Asks(n + 1)
        BY <3>2, <3>3, <3>5 DEF SkipUnparsable, IsExit, IsRequest
      <4>3. Through(n + 1)
        BY <1>3, <3>4, <4>2, PassedOver
      <4>4. Through(n + 1)'
        BY <1>3, <4>1, <4>3, ThroughKept
      <4>5. /\ shutdown' \in BOOLEAN
            /\ replies' \in Seq([id : {Content[k].id : k \in Messages} \ {NoId},
                                 error : {0, -32601, -32602}, shown : SUBSET Entries])
        BY <4>1 DEF IInv, TypeOK
      <4> QED  BY <3>9, <4>1, <4>4, <4>5
    <3>6. CASE handleNotif(frame)
      <4>1. /\ wire' = frame.rest /\ UNCHANGED <<cache, closed, shutdown, replies, sent>>
            /\ Content[m].parses /\ Content[m].id = NoId
            /\ exit' = IF Content[m].method = "exit" THEN exitCode ELSE exit
        <5>1. PICK k \in Parsed(frame) :
                /\ Content[k].id = NoId
                /\ wire' = frame.rest
                /\ exit' = IF Content[k].method = "exit" THEN exitCode ELSE exit
          BY <3>6 DEF handleNotif
        <5>2. UNCHANGED <<cache, closed, shutdown, replies, sent>>
          BY <3>6 DEF handleNotif
        <5>3. k = m /\ Content[m].parses
          BY <3>2
        <5> HIDE DEF m
        <5> QED  BY <5>1, <5>2, <5>3
      <4>2. ~Asks(n + 1)
        BY <3>3, <4>1 DEF IsRequest
      <4>3. CASE Content[m].method = "exit"
        <5>1. exit' = exitCode /\ exitCode \in {0, 1} /\ exitCode' = exitCode
          BY <4>1, <4>3 DEF exitCode
        <5>2. IsExit(m)
          BY <4>1, <4>3 DEF IsExit
        <5>3. Ended(n)' /\ exit' # Running
          BY <1>5, <2>3, <4>1, <5>1, <5>2 DEF Ended, Running
        <5>4. Through(n)'
          BY <1>3, <3>4, <4>1, ThroughKept
        <5>5. TypeOK'
          <6>1. wire' \in Seq(Items)
            BY <1>1, <1>2, <1>5, <2>3, <4>1, FrameFound DEF frame
          <6> QED  BY <4>1, <5>1, <6>1 DEF IInv, TypeOK, Entries
        <5> QED  BY <1>2, <1>3, <4>1, <5>3, <5>4, <5>5 DEF IInv, Progress
      <4>4. CASE Content[m].method # "exit"
        <5>1. exit' = exit /\ ~Stops(n + 1)
          BY <3>3, <4>1, <4>4 DEF IsExit
        <5>2. Through(n + 1)
          BY <1>3, <3>4, <4>2, <5>1, PassedOver
        <5>3. Through(n + 1)'
          BY <1>3, <4>1, <5>2, ThroughKept
        <5>4. /\ shutdown' \in BOOLEAN
              /\ replies' \in Seq([id : {Content[k].id : k \in Messages} \ {NoId},
                                   error : {0, -32601, -32602}, shown : SUBSET Entries])
          BY <4>1 DEF IInv, TypeOK
        <5> QED  BY <3>9, <4>1, <5>1, <5>3, <5>4
      <4> QED  BY <4>3, <4>4
    <3>7. CASE Serve(frame)
      <4>1. /\ wire' = frame.rest /\ UNCHANGED <<cache, closed, exit, sent>>
            /\ Content[m].parses /\ Content[m].id # NoId
            /\ shutdown' = (shutdown \/ Content[m].method = "shutdown")
            /\ replies' = replies \o reply(Content[m].id, handleRequest(m))
        <5>1. PICK k \in Parsed(frame) :
                /\ Content[k].id # NoId
                /\ wire' = frame.rest
                /\ shutdown' = (shutdown \/ Content[k].method = "shutdown")
                /\ replies' = replies \o reply(Content[k].id, handleRequest(k))
          BY <3>7 DEF Serve
        <5>2. UNCHANGED <<cache, closed, exit, sent>>
          BY <3>7 DEF Serve
        <5>3. k = m /\ Content[m].parses
          BY <3>2
        <5> HIDE DEF m
        <5> QED  BY <5>1, <5>2, <5>3
      <4>2. Asks(n + 1) /\ ~Stops(n + 1)
        BY <3>3, <4>1 DEF IsRequest, IsExit
      <4> DEFINE T == [id : {Content[k].id : k \in Messages} \ {NoId},
                       error : {0, -32601, -32602}, shown : SUBSET Entries]
      <4>3. replies \in Seq(T) /\ Answer(m) \in T
        <5>1. replies \in Seq(T)
          BY DEF IInv, TypeOK
        <5> HIDE DEF m
        <5>2. Answer(m) \in T
          BY <2>1, <4>1, AnswerTyped
        <5> QED  BY <5>1, <5>2
      <4>4. replies' = Append(replies, Answer(m))
        <5>1. reply(Content[m].id, handleRequest(m)) = <<Answer(m)>>
          BY DEF reply, Answer
        <5>2. replies' = replies \o <<Answer(m)>>
          BY <4>1, <5>1
        <5> HIDE DEF T, m
        <5>3. replies \o <<Answer(m)>> = Append(replies, Answer(m))
          BY <4>3, AppendIsConcat
        <5> QED  BY <5>2, <5>3
      <4> HIDE DEF T
      <4>5. Through(n + 1)'
        BY <1>3, <3>4, <4>1, <4>2, <4>3, <4>4, Answered
      <4>6. shutdown' \in BOOLEAN /\ replies' \in Seq(T)
        <5>1. Append(replies, Answer(m)) \in Seq(T)
          BY <4>3
        <5> QED  BY <4>1, <4>4, <5>1 DEF IInv, TypeOK
      <4> QED  BY SMTT(40), <3>9, <4>1, <4>5, <4>6 DEF T
    <3>10. ~ReadFails(frame)
      BY <3>1 DEF ReadFails
    <3> QED  BY <1>1, <3>5, <3>6, <3>7, <3>10
  <2> QED  BY <2>2, <2>3
<1> QED  BY <1>3, <1>4, <1>5

LEMMA NextKeeps == IInv /\ [Next]_vars => IInv'
<1> SUFFICES ASSUME IInv, [Next]_vars  PROVE IInv'
  OBVIOUS
<1>1. CASE UNCHANGED vars
  <2>1. UNCHANGED <<cache, wire, closed, shutdown, replies, exit, sent>>
    BY <1>1 DEF vars
  <2>2. PICK n \in 0..Len(sent) : Progress(n)
    BY DEF IInv
  <2>3. n \in Nat /\ Through(n)
    BY <2>2 DEF IInv, Progress
  <2>4. Through(n)'
    BY <2>1, <2>3, ThroughKept
  <2>5. (exit' = Running => Left(n)') /\ (exit' # Running => Ended(n)')
    BY <2>1, <2>2 DEF Progress, Left, Ended, exitCode
  <2>6. TypeOK'
    BY <2>1 DEF IInv, TypeOK, Entries
  <2> QED  BY <2>1, <2>2, <2>4, <2>5, <2>6 DEF IInv, Progress
<1>2. CASE Next
  BY <1>1, <1>2, SendKeeps, BreakKeeps, ServerKeeps DEF Next, Stopped
<1> QED  BY <1>1, <1>2

LEMMA Invariance == Spec => []IInv
BY InitInvariant, NextKeeps, PTL DEF Spec

\* Every variable has its type, for every set of messages, headers and caches
\* (main.go:61-64, 114-126).
THEOREM TypeCorrect == Spec => []TypeOK
<1>1. IInv => TypeOK
  BY DEF IInv
<1> QED  BY <1>1, Invariance, PTL


-----------------------------------------------------------------------------
(* The answers, and the exit code.                                         *)

\* The requests that reach the server are those among the first n messages,
\* once nothing of the rest is to be read.
LEMMA AskedAre ==
  ASSUME IInv, NEW n \in 0..Len(sent), Progress(n)
  PROVE  /\ 1..n \subseteq Reaching
         /\ {i \in 1..n : Asks(i)} \subseteq Asked
         /\ exit # Running \/ wire = <<>> => Reaching = 1..n /\ Asked = {i \in 1..n : Asks(i)}
<1>0. Len(sent) \in Nat /\ n \in Nat /\ n <= Len(sent)
  BY DEF IInv
<1>1. sent \in Seq(Sent) /\ wire \in Seq(Items) /\ DOMAIN sent = 1..Len(sent)
  BY DEF IInv, TypeOK
<1>2. 1..n \subseteq Reaching
  BY <1>0, <1>1 DEF Progress, Through, Passed, Reaching
<1>3. Asked = {i \in Reaching : Asks(i)}
  BY DEF Asked, Asks
<1>4. ASSUME exit # Running \/ wire = <<>>  PROVE Reaching \subseteq 1..n
  <2>1. n = Len(sent) \/ (n < Len(sent) /\ Stops(n + 1))
    <3>1. CASE exit # Running
      BY <3>1 DEF Progress, Ended, Stops
    <3>2. CASE exit = Running
      <4>1. PICK at : \E part \in IF closed THEN Breaks ELSE {<<>>} : Laid(wire, sent, n, at, part)
        BY <3>2 DEF Progress, Left
      <4>2. PICK part \in IF closed THEN Breaks ELSE {<<>>} : Laid(wire, sent, n, at, part)
        BY <4>1
      <4>3. part \in Seq(Items)
        <5>1. <<>> \in Seq(Items)
          OBVIOUS
        <5> QED  BY <5>1, PartOf
      <4>4. ~(n < Len(sent))
        BY <1>1, <1>4, <3>2, <4>2, <4>3, LaidFirst
      <4> QED  BY <1>0, <4>4
    <3> QED  BY <3>1, <3>2
  <2>2. ASSUME NEW i \in Reaching, i \notin 1..n  PROVE FALSE
    <3>1. i \in 1..Len(sent) /\ \A j \in 1..i : ~Stops(j)
      BY <1>1 DEF Reaching
    <3>2. n + 1 \in 1..i /\ n < Len(sent)
      BY <1>0, <2>2, <3>1
    <3>3. ~Stops(n + 1)
      BY <3>1, <3>2
    <3> QED  BY <1>0, <2>1, <3>2, <3>3
  <2> QED  BY <2>2
<1> QED  BY <1>2, <1>3, <1>4

LEMMA InvariantAnswers == IInv => AnswersInTurn
<1> SUFFICES ASSUME IInv  PROVE AnswersInTurn
  OBVIOUS
<1>1. PICK n \in 0..Len(sent) : Progress(n)
  BY DEF IInv
<1>2. PICK turn : Served(turn, n)
  BY <1>1 DEF Progress, Through
<1>3. n \in Nat
  BY <1>1 DEF IInv
<1>4. turn \in [DOMAIN replies -> Asked] /\ \A k \in DOMAIN replies : turn[k] \in 1..n
  <2>1. \A k \in DOMAIN replies : turn[k] \in 1..n /\ Asks(turn[k])
    BY <1>2 DEF Served
  <2>2. \A k \in DOMAIN replies : turn[k] \in Asked
    BY <1>1, <2>1, AskedAre
  <2> QED  BY <1>2, <2>1, <2>2 DEF Served
<1>5. ToSet(turn) = {turn[k] : k \in DOMAIN replies}
  BY <1>4 DEF ToSet
<1>6. \A i \in 1..n : Asks(i) => i \in ToSet(turn)
  BY <1>2, <1>5 DEF Served
<1>7. InTurn(turn)
  <2>1. \A k, l \in DOMAIN turn : k < l => turn[k] < turn[l]
    BY <1>2, <1>4 DEF Served
  <2>2. ASSUME NEW k \in DOMAIN turn, NEW i \in Asked, i <= turn[k]  PROVE i \in ToSet(turn)
    <3>1. i \in Nat \ {0} /\ Asks(i)
      BY DEF Asked, Reaching, Asks, IInv
    <3>2. turn[k] \in 1..n
      BY <1>4
    <3>3. i \in 1..n
      BY <1>3, <2>2, <3>1, <3>2
    <3> QED  BY <1>6, <3>1, <3>3
  <2> QED  BY <2>1, <2>2 DEF InTurn
<1>8. \A k \in DOMAIN replies : replies[k].id = Content[sent[turn[k]].message].id
  BY <1>2 DEF Served, Answer
<1>9. ASSUME exit # Running \/ wire = <<>>  PROVE ToSet(turn) = Asked
  <2>1. Asked = {i \in 1..n : Asks(i)}
    BY <1>1, <1>9, AskedAre
  <2>2. ToSet(turn) \subseteq Asked
    BY <1>4, <1>5
  <2> QED  BY <1>6, <2>1, <2>2
<1>10. turn \in Turns
  BY <1>4, <1>7 DEF Turns
<1> QED  BY <1>8, <1>9, <1>10 DEF AnswersInTurn

\* Whatever the client sends, every answer is to the next request in turn and
\* a server that has nothing left to read has answered all (main.go:69-99).
THEOREM AnsweredInTurn == Spec => []AnswersInTurn
BY Invariance, InvariantAnswers, PTL

LEMMA InvariantExits == IInv => ExitCode
<1> SUFFICES ASSUME IInv, exit # Running
             PROVE  exit = 1 <=>
                      ToldToExit /\ \A i \in Asked : Content[sent[i].message].method # "shutdown"
  BY DEF ExitCode
<1>1. PICK n \in 0..Len(sent) : Progress(n)
  BY DEF IInv
<1>0. n \in Nat /\ Len(sent) \in Nat
  BY DEF IInv
<1>2. /\ DOMAIN sent = 1..Len(sent)
      /\ Reaching = 1..n /\ Asked = {i \in 1..n : Asks(i)}
  BY <1>1, AskedAre DEF IInv
<1>3. shutdown <=> \E i \in Asked : Content[sent[i].message].method = "shutdown"
  BY <1>1, <1>2 DEF Progress, Through, AskedToShutDown
<1>4. Ended(n)
  BY <1>1 DEF Progress
<1>5. ASSUME ToldToExit
      PROVE  n < Len(sent) /\ Readable(sent[n + 1].head) /\ IsExit(sent[n + 1].message)
  <2>1. PICK i \in 1..Len(sent) :
          1..(i - 1) \subseteq 1..n /\ Readable(sent[i].head) /\ IsExit(sent[i].message)
    BY <1>2, <1>5 DEF ToldToExit
  <2>2. i \notin 1..n
    BY <1>2, <2>1 DEF Reaching, Stops
  <2>3. i - 1 <= n
    BY <1>0, <2>1
  <2>4. i = n + 1
    BY <1>0, <2>2, <2>3
  <2> QED  BY <1>0, <2>1, <2>4
<1>6. CASE n = Len(sent) \/ (n < Len(sent) /\ ~Readable(sent[n + 1].head))
  <2>1. exit = 0
    BY <1>0, <1>4, <1>6 DEF Ended
  <2>2. ~ToldToExit
    BY <1>0, <1>5, <1>6
  <2> QED  BY <2>1, <2>2
<1>7. CASE n < Len(sent) /\ Readable(sent[n + 1].head)
  <2>1. exit = exitCode /\ IsExit(sent[n + 1].message)
    BY <1>0, <1>4, <1>7 DEF Ended
  <2>2. ToldToExit
    <3>1. n + 1 \in DOMAIN sent /\ 1..(n + 1 - 1) \subseteq Reaching
      BY <1>0, <1>2, <1>7
    <3> QED  BY <1>7, <2>1, <3>1 DEF ToldToExit
  <2> QED  BY <1>3, <2>1, <2>2 DEF exitCode
<1> QED  BY <1>4, <1>6, <1>7 DEF Ended

\* The server ends with 1 exactly when exit comes before a shutdown request,
\* whatever stands in between (main.go:101-112).
THEOREM ExitsRight == Spec => []ExitCode
BY Invariance, InvariantExits, PTL


-----------------------------------------------------------------------------
(* What a hover shows.                                                     *)

LEMMA CutsOfFormed ==
  ASSUME NEW name, Formed(name)
  PROVE  /\ Len(name) \in Nat \ {0}
         /\ Cuts(name) # {} => Cuts(name) = {Len(name) - 2} /\ Len(name) >= 3
<1>1. name \in Seq(STRING) /\ name # <<>> /\ Cuts(name) \subseteq {Len(name) - 2}
  BY DEF Formed
<1>2. Len(name) \in Nat \ {0}
  BY <1>1
<1>3. ASSUME Cuts(name) # {}  PROVE Len(name) - 2 \in Cuts(name)
  BY <1>1, <1>3
<1>4. ASSUME Cuts(name) # {}  PROVE Len(name) >= 3
  <2>1. Len(name) - 2 \in 1..(Len(name) - 1)
    BY <1>3, <1>4 DEF Cuts
  <2> QED  BY <1>2, <2>1
<1> QED  BY <1>1, <1>2, <1>3, <1>4

LEMMA LastOnly ==
  ASSUME NEW T, NEW name \in Seq(T), name # <<>>
  PROVE  From(name, Len(name)) = <<Last(name)>>
<1>1. Len(name) \in Nat \ {0} /\ Len(name) \in 1..Len(name)
  OBVIOUS
<1> DEFINE k == Len(name)
           tail == SubSeq(name, k, k)
<1>2. tail \in Seq(T) /\ Len(tail) = 1
  BY <1>1
<1>3. tail[1] = name[k]
  BY <1>1
<1>4. name[k] \in T
  BY <1>1
<1> HIDE DEF tail, k
<1>5. tail = <<name[k]>>
  <2>1. <<name[k]>> \in Seq(T) /\ Len(<<name[k]>>) = 1 /\ <<name[k]>>[1] = name[k]
    BY <1>4
  <2>2. \A i \in 1..Len(tail) : tail[i] = <<name[k]>>[i]
    BY <1>2, <1>3, <2>1
  <2> QED  BY <1>2, <2>1, <2>2, SeqEqual
<1> QED  BY <1>5 DEF From, Last, tail, k

LEMMA ExtractOfFormed ==
  ASSUME NEW name, Formed(name)
  PROVE  extractFuncNames(name) =
           [ssa |-> IF Cuts(name) # {} THEN name ELSE <<>>, simple |-> <<Last(name)>>]
<1>1. name \in Seq(STRING) /\ name # <<>> /\ Len(name) \in Nat \ {0}
  BY CutsOfFormed DEF Formed
<1>2. From(name, Len(name)) = <<Last(name)>>
  BY <1>1, LastOnly
<1>3. CASE Cuts(name) # {}
  <2>1. Cuts(name) = {Len(name) - 2} /\ Len(name) >= 3
    BY <1>3, CutsOfFormed
  <2>2. Len(name) - 2 + 1 < Len(name) /\ Len(name) - 2 + 2 = Len(name) /\ Len(name) - 2 \in Nat
    BY <1>1, <2>1
  <2>3. Min(Cuts(name)) = Len(name) - 2
    BY <2>1, <2>2, MinOf
  <2>4. From(name, Min(Cuts(name)) + 2) = <<Last(name)>>
    BY <1>2, <2>2, <2>3
  <2>5. \E i \in Cuts(name) : Cuts(name) = {i} /\ i + 1 < Len(name)
    BY <2>1, <2>2
  <2> QED  BY <1>1, <1>3, <2>4, <2>5 DEF extractFuncNames
<1>4. CASE Cuts(name) = {}
  <2>1. IsIdent(Last(name)) /\ (Len(name) = 1 \/ name[Len(name) - 1] = ".")
    <3>0. Len(name) \in Nat \ {0}
      BY <1>1
    <3>1. Len(name) = 1 \/ Len(name) > 1
      <4>1. \A k \in Nat \ {0} : k = 1 \/ k > 1
        OBVIOUS
      <4> QED  BY <3>0, <4>1, Zenon
    <3>2. IsIdent(Last(name)) /\ (Len(name) > 1 => name[Len(name) - 1] = ".")
      BY DEF Formed
    <3> QED  BY <3>1, <3>2
  <2> QED  BY <1>1, <1>4, <2>1 DEF extractFuncNames
<1> QED  BY <1>3, <1>4

LEMMA SimpleOfFormed ==
  ASSUME NEW name, Formed(name)
  PROVE  simpleFuncName(name) = <<Last(name)>>
<1>1. name \in Seq(STRING) /\ name # <<>> /\ Len(name) \in Nat \ {0} /\ DOMAIN name = 1..Len(name)
  BY CutsOfFormed DEF Formed
<1>2. From(name, Len(name)) = <<Last(name)>>
  BY <1>1, LastOnly
<1>3. CASE Cuts(name) # {}
  <2>1. Cuts(name) = {Len(name) - 2} /\ Len(name) >= 3
    BY <1>3, CutsOfFormed
  <2>2. Len(name) - 2 + 1 < Len(name) /\ Len(name) - 2 + 2 = Len(name) /\ Len(name) - 2 \in Nat
    BY <1>1, <2>1
  <2>3. Max(Cuts(name)) = Len(name) - 2
    BY <2>1, <2>2, MaxOf
  <2> QED  BY <1>2, <1>3, <2>2, <2>3 DEF simpleFuncName
<1>4. name[Len(name)] # "."
  BY DEF Formed, IsIdent, Punctuation, Last
<1>5. CASE Cuts(name) = {} /\ Len(name) = 1
  <2>1. Dots(name) = {}
    BY <1>1, <1>4, <1>5 DEF Dots
  <2>2. simpleFuncName(name) = name
    BY <1>5, <2>1 DEF simpleFuncName
  <2>3. From(name, Len(name)) = name
    BY <1>1, <1>5 DEF From
  <2> QED  BY <1>2, <2>2, <2>3
<1>6. CASE Cuts(name) = {} /\ Len(name) > 1
  <2>1. Len(name) - 1 \in Dots(name)
    BY <1>1, <1>6 DEF Dots, Formed
  <2>2. Dots(name) \subseteq Nat /\ \A i \in Dots(name) : i <= Len(name) - 1
    <3>1. \A i \in Dots(name) : i \in 1..Len(name) /\ i # Len(name)
      BY <1>1, <1>4 DEF Dots
    <3> QED  BY <1>1, <3>1
  <2>3. Max(Dots(name)) = Len(name) - 1
    BY <2>1, <2>2, MaxOf
  <2>4. Len(name) - 1 < Len(name) /\ Len(name) - 1 + 1 = Len(name)
    BY <1>1
  <2> QED  BY <1>2, <1>6, <2>1, <2>3, <2>4 DEF simpleFuncName
<1> QED  BY <1>1, <1>3, <1>5, <1>6

\* What is found under a name: the entries of that very name if it is a
\* method's and there are any, or else those of its last identifier.
LEMMA Found ==
  ASSUME NEW name, Formed(name), \A e \in Entries : Formed(e.name)
  PROVE  FoundByName(extractFuncNames(name)) =
           IF Cuts(name) # {} /\ \E e \in Entries : e.name = name
           THEN {e \in Entries : e.name = name}
           ELSE {e \in Entries : SameFunction(name, e)}
<1> DEFINE exact == {e \in Entries : e.name = name}
           same  == {e \in Entries : SameFunction(name, e)}
<1>1. \A e \in Entries : simpleFuncName(e.name) = <<Last(e.name)>>
  BY SimpleOfFormed
<1>2. \A x : Last(<<x>>) = x
  BY DEF Last
<1>3. LookupByFuncName(<<Last(name)>>) = same
  <2>1. ASSUME NEW e \in Entries
        PROVE  <<Last(name)>> \in {e.name, simpleFuncName(e.name)} <=> Last(name) = Last(e.name)
    <3>1. <<Last(name)>> = <<Last(e.name)>> <=> Last(name) = Last(e.name)
      OBVIOUS
    <3>2. <<Last(name)>> = e.name => Last(name) = Last(e.name)
      BY <1>2
    <3> QED  BY <1>1, <3>1, <3>2
  <2> QED  BY <2>1 DEF LookupByFuncName, SameFunction
<1>4. ASSUME Cuts(name) # {}  PROVE LookupByFuncName(name) = exact
  <2>1. Len(name) >= 3 /\ name \in Seq(STRING) /\ Len(name) \in Nat
    BY <1>4, CutsOfFormed DEF Formed
  <2>2. ASSUME NEW e \in Entries  PROVE name # simpleFuncName(e.name)
    <3> DEFINE last == Last(e.name)
    <3>1. simpleFuncName(e.name) = <<last>>
      BY <1>1
    <3> HIDE DEF last
    <3>2. ASSUME name = <<last>>  PROVE FALSE
      <4>1. Len(name) = 1
        BY <3>2
      <4> QED  BY <2>1, <4>1
    <3> QED  BY <3>1, <3>2
  <2> QED  BY <2>2 DEF LookupByFuncName
<1>5. /\ extractFuncNames(name).ssa = IF Cuts(name) # {} THEN name ELSE <<>>
      /\ extractFuncNames(name).simple = <<Last(name)>>
  BY ExtractOfFormed
<1>6. name # <<>> /\ <<Last(name)>> # <<>>
  BY DEF Formed
<1>7. FoundByName(extractFuncNames(name)) =
        IF Cuts(name) # {} /\ exact # {} THEN exact ELSE same
  <2>1. CASE Cuts(name) # {}
    BY <1>3, <1>4, <1>5, <1>6, <2>1 DEF FoundByName
  <2>2. CASE Cuts(name) = {}
    BY <1>3, <1>5, <1>6, <2>2 DEF FoundByName
  <2> QED  BY <2>1, <2>2
<1>8. exact # {} <=> \E e \in Entries : e.name = name
  OBVIOUS
<1> QED  BY <1>7, <1>8


LEMMA LeastOf ==
  ASSUME NEW S, S \subseteq Nat, S # {}  PROVE  \E m \in S : \A x \in S : m <= x
<1> DEFINE R == OpToRel(<, Nat)
<1>1. IsWellFoundedOn(R, Nat)
  BY NatLessThanWellFounded
<1>2. R = {ss \in Nat \X Nat : ss[1] < ss[2]}
  BY DEF OpToRel
<1> HIDE DEF R
<1>3. PICK m \in S : \A x \in S : ~ (<<x, m>> \in R)
  BY <1>1, WFMin
<1>4. ASSUME NEW x \in S  PROVE m <= x
  <2>1. m \in Nat /\ x \in Nat /\ <<x, m>> \in Nat \X Nat
    BY <1>3
  <2>2. ~ (<<x, m>>[1] < <<x, m>>[2])
    BY <1>2, <1>3, <2>1
  <2> QED  BY <2>1, <2>2
<1> QED  BY <1>3, <1>4

\* There is one way for the answers to be in turn.
LEMMA OneTurn ==
  ASSUME NEW S \in SUBSET Nat, NEW N \in Nat, NEW f \in [1..N -> S], NEW g \in [1..N -> S],
         \A k, l \in 1..N : k < l => f[k] < f[l],
         \A k, l \in 1..N : k < l => g[k] < g[l],
         \A k \in 1..N : \A i \in S : i <= f[k] => \E l \in 1..N : f[l] = i,
         \A k \in 1..N : \A i \in S : i <= g[k] => \E l \in 1..N : g[l] = i
  PROVE  f = g
<1> DEFINE D == {k \in 1..N : f[k] # g[k]}
<1>1. ASSUME D # {}  PROVE FALSE
  <2>0. D \subseteq Nat
    OBVIOUS
  <2>1. PICK k \in D : \A x \in D : k <= x
    <3> HIDE DEF D
    <3> QED  BY <1>1, <2>0, LeastOf
  <2>2. k \in 1..N /\ f[k] # g[k] /\ f[k] \in S /\ g[k] \in S /\ f[k] \in Nat /\ g[k] \in Nat
    BY <2>1
  <2>3. \A l \in 1..N : l < k => f[l] = g[l]
    BY <2>1
  <2> HIDE DEF D
  <2>4. CASE f[k] < g[k]
    <3>1. PICK l \in 1..N : g[l] = f[k]
      BY <2>2, <2>4
    <3>2. l < k
      <4>1. ~(k < l)
        BY <2>2, <2>4, <3>1
      <4>2. l # k
        BY <2>2, <3>1
      <4> QED  BY <2>2, <4>1, <4>2
    <3>3. f[l] = f[k] /\ f[l] < f[k]
      BY <2>2, <2>3, <3>1, <3>2
    <3> QED  BY <2>2, <3>3
  <2>5. CASE g[k] < f[k]
    <3>1. PICK l \in 1..N : f[l] = g[k]
      BY <2>2, <2>5
    <3>2. l < k
      <4>1. ~(k < l)
        BY <2>2, <2>5, <3>1
      <4>2. l # k
        BY <2>2, <3>1
      <4> QED  BY <2>2, <4>1, <4>2
    <3>3. g[l] = g[k] /\ g[l] < g[k]
      BY <2>2, <2>3, <3>1, <3>2
    <3> QED  BY <2>2, <3>3
  <2> QED  BY <2>2, <2>4, <2>5
<1> QED  BY <1>1

\* What an answer to a hover shows.
LEMMA HoverAnswer ==
  ASSUME IInv, NamesFormed, NEW m \in Messages,
         Content[m].method = "hover", Content[m].params.valid
  PROVE  LET params == Content[m].params
             name   == NameIn(params)
             exact  == {e \in Entries : e.name = name}
             shown  == Answer(m).shown
         IN  IF params.place \in DOMAIN cache THEN shown = {cache[params.place]}
             ELSE IF ~params.context \/ name = <<>> THEN shown = {}
             ELSE /\ \A e \in shown : SameFunction(name, e)
                  /\ (\E e \in Entries : SameFunction(name, e)) => shown # {}
                  /\ exact \subseteq shown
                  /\ exact # {} /\ Cuts(name) # {} => shown = exact
<1> DEFINE params == Content[m].params
           name   == NameIn(params)
           shown  == Answer(m).shown
<1>1. shown = handleHover(m)
  BY DEF Answer, handleRequest, Result
<1>2. CASE params.place \in DOMAIN cache
  BY <1>1, <1>2 DEF handleHover
<1>3. CASE params.place \notin DOMAIN cache /\ ~params.context
  BY <1>1, <1>3 DEF handleHover
<1>4. Names[m] = extractFuncNames(name)
  BY DEF Names
<1>5. CASE params.place \notin DOMAIN cache /\ params.context /\ name = <<>>
  <2>1. shown = FoundByName(extractFuncNames(name))
    BY <1>1, <1>4, <1>5 DEF handleHover
  <2>2. extractFuncNames(name) = [ssa |-> <<>>, simple |-> <<>>]
    BY <1>5 DEF extractFuncNames
  <2>3. FoundByName([ssa |-> <<>>, simple |-> <<>>]) = {}
    BY DEF FoundByName
  <2> QED  BY <1>5, <2>1, <2>2, <2>3
<1>6. CASE params.place \notin DOMAIN cache /\ params.context /\ name # <<>>
  <2>1. shown = FoundByName(extractFuncNames(name))
    BY <1>1, <1>4, <1>6 DEF handleHover
  <2>2. Formed(name)
    BY <1>6 DEF NamesFormed
  <2>3. \A e \in Entries : Formed(e.name)
    <3>1. cache \in Caches \cup {NoCache}
      BY DEF IInv, TypeOK
    <3>2. DOMAIN NoCache = {}
      BY DEF NoCache
    <3> QED  BY <3>1, <3>2 DEF Entries, NamesFormed
  <2> HIDE DEF shown, name, params
  <2>4. shown = IF Cuts(name) # {} /\ \E e \in Entries : e.name = name
                THEN {e \in Entries : e.name = name}
                ELSE {e \in Entries : SameFunction(name, e)}
    BY <2>1, <2>2, <2>3, Found
  <2>5. \A e \in Entries : e.name = name => SameFunction(name, e)
    BY DEF SameFunction
  <2> DEFINE exact == {e \in Entries : e.name = name}
  <2>6. /\ \A e \in shown : SameFunction(name, e)
        /\ (\E e \in Entries : SameFunction(name, e)) => shown # {}
        /\ exact \subseteq shown
        /\ exact # {} /\ Cuts(name) # {} => shown = exact
    BY <2>4, <2>5
  <2> QED  BY <1>6, <2>6 DEF shown, name, params
<1> QED  BY <1>2, <1>3, <1>5, <1>6

LEMMA InvariantHovers == NamesFormed /\ IInv => HoverFinds
<1> SUFFICES ASSUME NamesFormed, IInv, NEW turn \in Turns, NEW k \in DOMAIN replies
             PROVE  LET asked  == Content[sent[turn[k]].message]
                        params == asked.params
                        name   == NameIn(params)
                        exact  == {e \in Entries : e.name = name}
                        shown  == replies[k].shown
                    IN  asked.method = "hover" /\ params.valid =>
                          IF params.place \in DOMAIN cache THEN shown = {cache[params.place]}
                          ELSE IF ~params.context \/ name = <<>> THEN shown = {}
                          ELSE /\ \A e \in shown : SameFunction(name, e)
                               /\ (\E e \in Entries : SameFunction(name, e)) => shown # {}
                               /\ exact \subseteq shown
                               /\ exact # {} /\ Cuts(name) # {} => shown = exact
  BY DEF HoverFinds
<1>1. PICK n \in 0..Len(sent) : Progress(n)
  BY DEF IInv
<1>2. PICK served : Served(served, n)
  BY <1>1 DEF Progress, Through
<1>3. n \in Nat /\ sent \in Seq(Sent) /\ Len(sent) \in Nat /\ n <= Len(sent)
  BY <1>1 DEF IInv
<1> DEFINE N == Len(replies)
<1>4. N \in Nat /\ DOMAIN replies = 1..N
  BY DEF IInv, TypeOK
<1>5. \A i \in Asked : i \in Nat \ {0} /\ Asks(i)
  BY DEF Asked, Reaching, Asks, IInv
<1> HIDE DEF N
<1>6. /\ turn \in [1..N -> Asked]
      /\ \A l, j \in 1..N : l < j => turn[l] < turn[j]
      /\ \A l \in 1..N : \A i \in Asked : i <= turn[l] => \E j \in 1..N : turn[j] = i
  <2>1. turn \in [1..N -> Asked] /\ InTurn(turn)
    BY <1>4 DEF Turns
  <2> QED  BY <2>1 DEF InTurn, ToSet
<1>7. /\ served \in [1..N -> Asked]
      /\ \A l, j \in 1..N : l < j => served[l] < served[j]
      /\ \A l \in 1..N : \A i \in Asked : i <= served[l] => \E j \in 1..N : served[j] = i
  <2>1. \A l \in 1..N : served[l] \in 1..n /\ Asks(served[l])
    BY <1>2, <1>4 DEF Served
  <2>2. \A l \in 1..N : served[l] \in Asked
    BY <1>1, <2>1, AskedAre
  <2>3. served \in [1..N -> Asked] /\ \A l, j \in 1..N : l < j => served[l] < served[j]
    BY <1>2, <1>4, <2>2 DEF Served
  <2>4. ASSUME NEW l \in 1..N, NEW i \in Asked, i <= served[l]
        PROVE  \E j \in 1..N : served[j] = i
    <3>1. i \in 1..n
      BY <1>3, <1>5, <2>1, <2>4
    <3> QED  BY <1>2, <1>4, <1>5, <3>1 DEF Served
  <2> QED  BY <2>3, <2>4
<1>8. turn = served
  <2>1. Asked \in SUBSET Nat
    BY <1>5
  <2> QED  BY <1>4, <1>6, <1>7, <2>1, OneTurn
<1> DEFINE m == sent[turn[k]].message
<1>9. m \in Messages /\ replies[k] = Answer(m)
  <2>1. served[k] \in 1..n /\ replies[k] = Answer(sent[served[k]].message)
    BY <1>2, <1>4 DEF Served
  <2>2. served[k] \in 1..Len(sent)
    BY <1>3, <2>1
  <2>3. sent[served[k]] \in Sent
    BY <1>3, <2>2
  <2> QED  BY <1>8, <2>1, <2>3 DEF Sent
<1> HIDE DEF m
<1> SUFFICES ASSUME Content[m].method = "hover", Content[m].params.valid
             PROVE  LET params == Content[m].params
                        name   == NameIn(params)
                        exact  == {e \in Entries : e.name = name}
                        shown  == Answer(m).shown
                    IN  IF params.place \in DOMAIN cache THEN shown = {cache[params.place]}
                        ELSE IF ~params.context \/ name = <<>> THEN shown = {}
                        ELSE /\ \A e \in shown : SameFunction(name, e)
                             /\ (\E e \in Entries : SameFunction(name, e)) => shown # {}
                             /\ exact \subseteq shown
                             /\ exact # {} /\ Cuts(name) # {} => shown = exact
  BY <1>9 DEF m
<1> QED  BY <1>9, HoverAnswer

\* Of names as Go forms them, whatever the messages and the cache: a hover
\* shows the entry of its place, or else entries of the function that it
\* names, of the very name if there are any (main.go:140-193, 200-218).
THEOREM HoversFind ==
  ASSUME NamesFormed  PROVE Spec => []HoverFinds
<1>1. IInv => HoverFinds
  BY InvariantHovers
<1> QED  BY <1>1, Invariance, PTL

=============================================================================
