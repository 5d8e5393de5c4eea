SPECIFICATION Spec
CONSTANTS
  u1 = u1
  u2 = u2
  t1 = t1
  t2 = t2
  l1 = l1
  Users = {u1, u2}
  Tokens = {t1, t2}
  Logins = {l1}
  Expiry = 2
  MaxTime = 3
  MaxHashes = 3
INVARIANTS SessionsFollowPassword
PROPERTIES TokensLiveOnce EndsForAReason
