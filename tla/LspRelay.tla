------------------------------ MODULE LspRelay ------------------------------
(***************************************************************************)
(* What a transparent proxy between an editor and its language server      *)
(* promises: two streams, each delivered once and in order, in which       *)
(* nothing changes but the hover results the proxy may annotate.           *)
(***************************************************************************)
EXTENDS Sequences

CONSTANTS
  ClientMessages,       \* what the editor may send
  ServerMessages,       \* what the server may send
  Annotated(_)          \* the forms in which a server message may be shown

VARIABLES
  up,                   \* messages on the way to the server, oldest first
  down,                 \* messages on the way to the editor, oldest first
  taken, shown          \* change with each message the server takes, the editor shows

vars == <<up, down, taken, shown>>

Init == up = <<>> /\ down = <<>> /\ taken = FALSE /\ shown = FALSE

Send ==
  /\ \E m \in ClientMessages : up' = Append(up, m)
  /\ UNCHANGED <<down, taken, shown>>

Take ==
  /\ up # <<>>
  /\ up' = Tail(up) /\ taken' = ~taken
  /\ UNCHANGED <<down, shown>>

Answer ==
  /\ \E m \in ServerMessages : down' = Append(down, m)
  /\ UNCHANGED <<up, taken, shown>>

Annotate ==
  /\ \E i \in DOMAIN down : \E m \in Annotated(down[i]) : down' = [down EXCEPT ![i] = m]
  /\ UNCHANGED <<up, taken, shown>>

Show ==
  /\ down # <<>>
  /\ down' = Tail(down) /\ shown' = ~shown
  /\ UNCHANGED <<up, taken>>

Next == Send \/ Take \/ Answer \/ Annotate \/ Show

Spec == Init /\ [][Next]_vars
=============================================================================
