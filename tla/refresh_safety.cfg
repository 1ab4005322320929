SPECIFICATION Spec
CONSTANTS
  Dirs = {"root", "lib", "app"}
  Root = "root"
  Mod = "mod"
  Other = "other"
  Needs <- MCNeeds
  Messages <- MCMessages
  MinInterval = 2
  FullInterval = 3
  Debounce = 1
  MaxSaves = 2
  Unloadable = {"lib", "app"}
  MayFail = TRUE
  HashMayFail = TRUE
INVARIANTS TypeOK Accounted NoLostWakeup
PROPERTIES NeverRegresses EntriesKept CoalescesRequests
\* The refresher rests when the editor is silent.
CHECK_DEADLOCK FALSE
