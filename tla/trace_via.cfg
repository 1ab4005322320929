SPECIFICATION Spec
CONSTANTS
  Values <- MCValues
  Funcs = {"f", "g", "h"}
  Sentinels = {"E1", "E2", "T"}
  NoFunc = "none"
  MaxTraceDepth = 5
  Programs <- MCPrograms
  May <- MCMay
INVARIANT ViaReturned
