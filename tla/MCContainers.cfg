CONSTANTS
  x = x
  y = y
  z = z
  Default = Default
  NoItem = NoItem
  Items = {x, y, z}
  Capacity = 3
  Word = 16
  k1 = k1
  k2 = k2
  k3 = k3
  k4 = k4
  Absent = Absent
  LruKeys = {k1, k2, k3, k4}
  LruValues = {x, y}
  LruCapacity = 3
  Empty = Empty
  Keys = {k1, k2, k3}
  Values = {x, y}
  Long = {y}
  Priorities = {1, 2}
  Expiries = {1, 3}
  MaxItems = 2
  MaxTime = 2
  V = 4
  NoVertex = 99
  MaxEdges = 4
SPECIFICATION MCSpec
INVARIANTS
  PartsAgree
  SearchesExactly
  SortsTopologically
PROPERTIES
  ImplementsDeque
  ImplementsRecency
  EvictsInOrder
  AnswersLastSet
  CallsEnd
