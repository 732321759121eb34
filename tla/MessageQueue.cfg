CONSTANTS
  p1 = p1
  p2 = p2
  c1 = c1
  c2 = c2
  m1 = m1
  m2 = m2
  None = None
  Producers = {p1, p2}
  Consumers = {c1, c2}
  Msgs = {m1, m2}
  Limit = 2
SPECIFICATION FairSpec
INVARIANTS
  TypeOK
  TestStillHolds
  NoLostWakeup
PROPERTIES
  ImplementsChannel
  ImplementsFairChannel
