SPECIFICATION FairSpec
CONSTANTS
  a = a
  b = b
  x = x
  y = y
  z = z
  Absent = Absent
  None = None
  Paths = {a, b}
  Contents = {x, y}
  Unindexable = {y}
  Versions = {1, 2, 3, 4, 5}
  RequiredRoots = {{a, b}}
  Changes = {"write", "replace", "delete", "rename"}
  Edits = 1
  Outages = 2
  Faults = 0
  Crashes = 0
  Budget <- MCBudget
CHECK_DEADLOCK FALSE
INVARIANT StoresInv
PROPERTIES OutageSparesDocuments WatchKeepsUp
