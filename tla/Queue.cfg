CONSTANTS
  p1 = p1
  p2 = p2
  c1 = c1
  c2 = c2
  m1 = m1
  m2 = m2
  Producers = {p1, p2}
  Consumers = {c1, c2}
  Messages = {m1, m2}
  NoMessage = NoMessage
  MaxLen = 2
SPECIFICATION FairSpec
INVARIANTS
  TypeOK
  NoLostWakeup
  TestStillHolds
PROPERTIES
  IsFifo
  Served
