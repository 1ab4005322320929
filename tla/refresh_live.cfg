SPECIFICATION FairSpec
CONSTANTS
  Dirs = {"lib", "app"}
  Root = "root"
  Mod = "mod"
  Other = "other"
  Needs <- MCNeeds2
  Messages <- MCMessages2
  MinInterval = 0
  FullInterval = 2
  Debounce = 1
  MaxSaves = 2
  Unloadable = {"lib", "app"}
  MayFail = FALSE
  HashMayFail = FALSE
PROPERTIES Converges ServesEveryRequest
CHECK_DEADLOCK FALSE
