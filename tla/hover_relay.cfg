SPECIFICATION FairSpec
CONSTANTS
  Hovers = {"h1"}
  Requests = {}
  Positions = {"p1"}
  Pos <- MCPos1
  None = None
  Built <- MCBuilt1
  MaxVersion = 2
  MaxAsks = 1
  Capacity = 1
  MayBreak = TRUE
  MayStop = TRUE
INVARIANTS PendingExact LookupAtomic
PROPERTIES RelaysFaithfully Terminates
\* A session ends.
CHECK_DEADLOCK FALSE
