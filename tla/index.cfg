SPECIFICATION Spec
CONSTANTS
  Dirs = {"lib", "app"}
  Root = "root"
  Keys = {"lib:1", "lib:2", "app:1"}
  DirOf <- MCDirOf2
  Variants = {"lib", "lib.test", "app"}
  VariantDir <- MCVariantDir2
  Names = {"Get", "(*S).Get"}
  Simple <- MCSimple
  Sentinels = {"EOF", "NoRows", "Mine"}
  Concretes = {"A", "B"}
  Direct = "-"
  Reports <- MCReports2
  MaxRuns = 3
INVARIANTS TypeOK NameIndexExact LocationsExact NamesExact ParseComputed
PROPERTIES OnlyRequestedReplaced
