SPECIFICATION Spec
CONSTANTS
  a = a
  Addresses = {a}
  MaxRequests <- MCMaxRequests
  Window = 3
  MaxTime = 7
INVARIANTS WindowBound BucketsExpire
PROPERTY ForgettingIsSafe
