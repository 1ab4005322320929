SPECIFICATION Spec
CONSTANTS
  Procs = {"p1", "p2"}
  Scope <- MCScope2
  Files = {"a", "b"}
  NoHash = NoHash
  Absent = Absent
  Torn = Torn
  MaxEdits = 1
  MaxBuilds = 2
  HashMayFail = TRUE
  MayKill = FALSE
  MayLosePower = FALSE
INVARIANTS ResultCurrent
\* Edits and builds are bounded.
CHECK_DEADLOCK FALSE
