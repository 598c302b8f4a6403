CONSTANTS
  u1 = u1
  u2 = u2
  a1 = a1
  a2 = a2
  w1 = w1
  w2 = w2
  Users = {u1, u2}
  Accounts = {a1, a2}
  Workers = {w1, w2}
  NoUPS = NoUPS
  NoRequest = NoRequest
  MaxRequests = 2
  MaxLost = 1
SPECIFICATION FairSpec
INVARIANTS
  TypeOK
  BoundIsConfirmed
  SharedOnlyIfRaced
PROPERTIES
  BindSettles
CHECK_DEADLOCK FALSE
