SPECIFICATION Spec
CONSTANTS
  Node = {a, b, c}
  NILNODE = NILNODE
  Null = Null
  Score = {1, 2, 3}
  Bound <- MCBound
SYMMETRY Symmetry
CONSTRAINT Sound
INVARIANTS
  RangeInOrder
CHECK_DEADLOCK FALSE
