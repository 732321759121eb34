CONSTANTS
  Ids = {1, 2, 3, 4}
  Prices = {99, 100}
  Quantities = {0, 1, 2}
SPECIFICATION MCSpec
INVARIANTS
  TypeOK
  IndexExact
PROPERTIES
  TradesInPriority
  CancelExact
  MatchEnds
