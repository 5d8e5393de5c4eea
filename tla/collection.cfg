SPECIFICATION FairSpec
CONSTANTS
  p1 = p1
  p2 = p2
  None = None
  Paths = {p1, p2}
  Roots <- MCRoots
  Filters <- MCFilters
  Commands = 3
  ChangesAllowed = 1
  Faults = 1
  Budget <- MCBudget
INVARIANTS TrackedIsSearchable PointsHavePayloadIndexes
PROPERTIES OldLayoutKept ResetRebuilds
CHECK_DEADLOCK FALSE
