CONSTANTS
  o1 = o1
  o2 = o2
  o3 = o3
  o4 = o4
  Ids = {o1, o2, o3, o4}
  Prices = {100}
  Quantities = {1}
SPECIFICATION Spec
PROPERTY CancelsOrder
