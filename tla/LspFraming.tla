----------------------------- MODULE LspFraming -----------------------------
(***************************************************************************)
(* Content-Length frames (proxy/lsp.go).  A stream is a sequence of items: *)
(* header lines, and the bytes of bodies, which know what they belong to.  *)
(***************************************************************************)
EXTENDS Integers, Sequences, SequencesExt, FiniteSetsExt

Item(kind, n, of) == [kind |-> kind, n |-> n, of |-> of]
None == {}                                  \* no message
Length(n) == Item("length", n, None)        \* Content-Length: n
BadLength == Item("bad", 0, None)           \* a Content-Length that is no number
Header    == Item("header", 0, None)        \* any other header
Blank     == Item("blank", 0, None)

Body(m, size) == [i \in 1..size |-> Item("byte", i, {m})]

writeMessage(m, size) == <<Length(size), Blank>> \o Body(m, size)

\* The length that the header lines declare, 0 for none: the last one counts.
MutantIgnoresRest(head) ==
  IF head # <<>> /\ Head(head).kind = "length" THEN Head(head).n ELSE 0
contentLength(head) ==
  LET lengths == {i \in DOMAIN head : head[i].kind = "length"}
  IN  IF lengths = {} THEN 0 ELSE head[Max(lengths)].n

\* Where the blank line after the header is, 0 if it is not there yet.
HeaderEnd(stream) == SelectInSeq(stream, LAMBDA item : item.kind = "blank")

\* What readMessage makes of the stream, `closed` or to be continued: "wait",
\* "error", or "ok" with the body and what is left.
readMessage(stream, closed) ==
  LET blank == HeaderEnd(stream)
      head  == SubSeq(stream, 1, IF blank = 0 THEN Len(stream) ELSE blank - 1)
      last  == blank + contentLength(head)
      Stop(status) == [status |-> status, body |-> <<>>, rest |-> <<>>]
  IN  IF BadLength \in ToSet(head) THEN Stop("error")
      ELSE IF blank # 0 /\ contentLength(head) = 0 THEN Stop("error")
      ELSE IF blank = 0 \/ Len(stream) < last THEN Stop(IF closed THEN "error" ELSE "wait")
      ELSE [status |-> "ok", body |-> SubSeq(stream, blank + 1, last),
            rest |-> SubSeq(stream, last + 1, Len(stream))]
=============================================================================
