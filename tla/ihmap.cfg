SPECIFICATION Spec
CONSTANTS
  Str = {e, k}
  Empty = e
  MaxElts = 2
  Pair = {p}
  None = None
CONSTRAINT StackIsShort
INVARIANTS
  TypeOK
  FullIsNoRoom
PROPERTIES
  BreaksOnlyAt
CHECK_DEADLOCK FALSE
