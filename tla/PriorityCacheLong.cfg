CONSTANTS
  k1 = k1
  k2 = k2
  x = x
  y = y
  Empty = Empty
  Keys = {k1, k2}
  Values = {x, y}
  Long = {y}
  Priorities = {1, 2}
  Expiries = {1, 3}
  MaxItems = 2
  MaxTime = 2
SPECIFICATION Spec
PROPERTIES
  SetUpdatesEntry
