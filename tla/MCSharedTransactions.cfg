CONSTANTS
  x = x
  y = y
  a = a
  b = b
  Content = {x, y}
  Composers = {a, b}
  MaxGroupSize = 2
  MaxHeap = 4
SPECIFICATION Spec
INVARIANTS TypeOK BuiltAccepted SignedCurrent
PROPERTY OnlyBuildRegroups
CHECK_DEADLOCK FALSE
SYMMETRY Symmetry
