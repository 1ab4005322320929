SPECIFICATION Spec
CONSTANTS
  Dirs = {"lib", "app", "root"}
  Root = "root"
  Keys = {"lib:1", "lib:2", "app:1", "root:1"}
  DirOf <- MCDirOf
  Variants = {"lib", "lib.test", "app", "root"}
  VariantDir <- MCVariantDir
  Names = {"Get", "(*S).Get"}
  Simple <- MCSimple
  Sentinels = {"EOF", "NoRows", "Mine"}
  Concretes = {"A", "B"}
  Direct = "-"
  Reports <- MCReports
  MaxRuns = 3
INVARIANTS NameIndexExact
