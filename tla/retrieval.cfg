SPECIFICATION RetrieveSpec
CONSTANTS
  x = x
  y = y
  z = z
  Empty = Empty
  Texts = {x, y, z}
  RecallK = 3
  RerankK = 2
  Limits = {1, 3}
  Grades = {0, 1}
CHECK_DEADLOCK FALSE
INVARIANTS FusedByRank AgreementWins EmptyIsNotFailure
