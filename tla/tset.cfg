SPECIFICATION Spec
CONSTANTS
  Node = {a, b, c, d, e}
  NILNODE = NILNODE
  Null = Null
  Score = {0, 1, 2, 3, 4}
  Bound <- MCBound
SYMMETRY Symmetry
CONSTRAINT Sound
INVARIANTS
  TypeOK
  LookupsAgree
  RangeStaysInside
PROPERTIES
  BreaksOnlyAt
CHECK_DEADLOCK FALSE
