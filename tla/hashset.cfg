SPECIFICATION Spec
CONSTANTS
  Node <- MCNode
  Key <- MCKey
  KeyOf <- MCKeyOf
  Hash <- MCHash
  Null = Null
  Endless = Endless
  InitBuckets = 4
  MaxLoad = 1
  RehashWork = 3
  SizeMod = 8
CONSTRAINT Within
INVARIANTS
  TypeOK
  AnswersAreRight
  MigrationStaysInside
PROPERTIES
  BreaksOnlyAt
  SizeCountsCalls
  EndsClean
CHECK_DEADLOCK FALSE
