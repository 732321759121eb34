CONSTANTS
  Parent = Parent
  k1 = k1
  k2 = k2
  Clients = {k1, k2}
  MaxSignals = 2
SPECIFICATION FairSpec
INVARIANTS
  TypeOK
  SocketsHaveOneOwner
  NoChildLeftBehind
PROPERTIES
  StopsCompletely
  AnswersRequests
CHECK_DEADLOCK FALSE
