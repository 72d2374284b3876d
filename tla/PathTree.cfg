SPECIFICATION Spec
CONSTANTS
  Threads = {t1, t2, t3}
  Names = {"d", "f", "g"}
  Hidden <- MCHidden
  Ids = {1, 2, 3, 4, 5, 6}
  Loads <- MCLoads
  FailCtr = 10
  NullPathOk = FALSE
  HardRemove = FALSE
INVARIANT PathsGuarded
INVARIANT RefsExact
INVARIANT HiddenFilesKept
INVARIANT NobodyStuck
SYMMETRY Symmetry
CHECK_DEADLOCK FALSE
