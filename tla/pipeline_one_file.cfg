SPECIFICATION FairSpec
CONSTANTS
  a = a
  b = b
  x = x
  y = y
  z = z
  Absent = Absent
  None = None
  Paths = {a}
  Contents = {x, y, z}
  Unindexable = {z}
  Versions = {1, 2, 3, 4, 5}
  RequiredRoots = {}
  Changes = {"write", "replace", "delete"}
  Edits = 2
  Outages = 0
  Faults = 1
  Crashes = 1
  Budget <- MCBudget
CHECK_DEADLOCK FALSE
INVARIANTS TypeOK StoresAgree
PROPERTIES NoSearchGap ImplementsDocumentIndex RestartReconciles WatchKeepsUp
