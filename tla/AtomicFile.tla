----------------------------- MODULE AtomicFile -----------------------------
(***************************************************************************)
(* What the cache file promises its readers: it is absent or holds one     *)
(* complete cache, a save replaces it at once, and a power loss may take   *)
(* it back to what had reached the disk, never to a mixture.               *)
(***************************************************************************)
CONSTANTS
  Values,               \* complete caches with their metadata
  Absent                \* there is no file

VARIABLES
  file,                 \* what a reader that opens the file now would read
  durable               \* what has reached the disk

vars == <<file, durable>>

TypeOK == file \in Values \cup {Absent} /\ durable \in Values \cup {Absent}

Init == TypeOK /\ durable = file

Replace == \E v \in Values : file' = v /\ UNCHANGED durable
Flush == durable' = file /\ UNCHANGED file
Lose == file' = durable /\ UNCHANGED durable

Next == Replace \/ Flush \/ Lose

Spec == Init /\ [][Next]_vars
=============================================================================
