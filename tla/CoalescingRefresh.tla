------------------------- MODULE CoalescingRefresh -------------------------
(***************************************************************************)
(* What the cache refresher of errsweep-lsp-proxy promises, without        *)
(* channels, timers or goroutines: requests to re-analyse package          *)
(* directories are coalesced while they wait, one refresh runs at a time,  *)
(* a refresh takes every waiting request, and a request is forgotten only  *)
(* when the refresh that took it fails.                                    *)
(***************************************************************************)
CONSTANT Dirs           \* the package directories of the workspace

VARIABLES
  waiting,              \* requested and not yet taken by a refresh
  running,              \* taken by the refresh that is under way
  dropped               \* taken by a refresh that failed, and not redone

vars == <<waiting, running, dropped>>

TypeOK ==
  /\ waiting \subseteq Dirs
  /\ running \subseteq Dirs
  /\ dropped \subseteq Dirs

\* The process starts with an analysis of the whole workspace.
Init ==
  /\ waiting = {}
  /\ running = Dirs
  /\ dropped = {}

Request(S) ==
  /\ waiting' = waiting \cup S
  /\ UNCHANGED <<running, dropped>>

\* A refresh may do more than it was asked (a full analysis), never less.
Take(R) ==
  /\ running = {}
  /\ waiting \subseteq R
  /\ running' = R
  /\ waiting' = {}
  /\ UNCHANGED dropped

Complete ==
  /\ running # {}
  /\ running' = {}
  /\ dropped' = dropped \ running
  /\ UNCHANGED waiting

Fail ==
  /\ running # {}
  /\ running' = {}
  /\ dropped' = dropped \cup running
  /\ UNCHANGED waiting

Next ==
  \/ \E S \in SUBSET Dirs : Request(S) \/ Take(S)
  \/ Complete
  \/ Fail

TakeWaiting == waiting # {} /\ \E R \in SUBSET Dirs : Take(R)

Spec == Init /\ [][Next]_vars

FairSpec ==
  /\ Spec
  /\ WF_vars(TakeWaiting)
  /\ WF_vars(Complete \/ Fail)
=============================================================================
