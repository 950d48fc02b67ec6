SPECIFICATION Spec
CONSTANTS
  Node <- MCNode
  KeyOf <- MCKeyOf
  Foreign <- MCForeign
  NILNODE = NILNODE
  Null = Null
CONSTRAINT Within12
INVARIANTS
  TypeOK
  WalkIsInOrder
PROPERTIES
  BreaksOnlyInDelFix
CHECK_DEADLOCK FALSE
