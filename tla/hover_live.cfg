SPECIFICATION FairSpec
CONSTANTS
  Hovers = {"h1", "h2"}
  Requests = {"r1"}
  Positions = {"p1", "p2"}
  Pos <- MCPos
  None = None
  Built <- MCBuilt
  MaxVersion = 2
  MaxAsks = 0
  Capacity = 1
  MayBreak = FALSE
  MayStop = FALSE
INVARIANTS TypeOK PendingExact
PROPERTIES RequestsAnswered
\* A session ends.
CHECK_DEADLOCK FALSE
