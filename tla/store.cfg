SPECIFICATION Spec
CONSTANTS
  Procs = {"p1", "p2", "q"}
  Scope <- MCScope
  Files = {"a"}
  NoHash = NoHash
  Absent = Absent
  Torn = Torn
  MaxEdits = 1
  MaxBuilds = 3
  HashMayFail = FALSE
  MayKill = TRUE
  MayLosePower = TRUE
INVARIANTS TypeOK NoLeftovers HashNotAhead ResultCurrent
PROPERTIES SavesAtomically
\* Edits and builds are bounded.
CHECK_DEADLOCK FALSE
