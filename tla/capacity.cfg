SPECIFICATION FairSpec
CONSTANTS
  c1 = c1
  c2 = c2
  s1 = s1
  r1 = r1
  Requests = {c1, s1, r1}
  Kind <- MCKind
  Limit = 2
  Workers = 2
  Slots = 1
  MaxRetries = 1
INVARIANTS PermitsConserved SlotsConserved CancelStopsPosts
PROPERTIES AbandonedStartsNothing AbandonedReturns
