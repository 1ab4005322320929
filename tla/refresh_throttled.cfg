SPECIFICATION FairSpec
CONSTANTS
  Dirs = {"lib", "app"}
  Root = "root"
  Mod = "mod"
  Other = "other"
  Needs <- MCNeeds2
  Messages <- MCMessages2
  MinInterval = 2
  FullInterval = 2
  Debounce = 1
  MaxSaves = 2
  Unloadable = {"app"}
  MayFail = FALSE
  HashMayFail = FALSE
PROPERTIES Converges
CHECK_DEADLOCK FALSE
