SPECIFICATION FairSpec
CONSTANTS
  p = p
  q = q
  r = r
  Paths = {p, q, r}
CHECK_DEADLOCK FALSE
INVARIANT ExitLosesNothing
PROPERTY ShutdownEnds
