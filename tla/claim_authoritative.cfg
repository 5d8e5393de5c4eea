SPECIFICATION Spec
CONSTANTS
  a = a
  b = b
  x = x
  y = y
  z = z
  Absent = Absent
  None = None
  Paths = {a}
  Contents = {x, y, z}
  Unindexable = {z}
  Versions = {1, 2, 3, 4, 5}
  RequiredRoots = {}
  Changes = {"write", "replace", "delete"}
  Edits = 1
  Outages = 0
  Faults = 0
  Crashes = 0
  Budget <- MCBudget
CHECK_DEADLOCK FALSE
INVARIANT FingerprintsAreAuthoritative
