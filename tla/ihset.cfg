SPECIFICATION Spec
CONSTANTS
  Node <- MCNode
  Key <- MCKey
  KeyOf <- MCKeyOf
  Hash <- MCHash
  NoNode = NoNode
  InitBuckets = 2
  Load = 1
  PrehashWork = 1
INVARIANTS
  TypeOK
  Placement
  SizesCount
  LoadKept
  FaultNeedsGrowth
  IInv
PROPERTIES
  MigrationRunsOnce
  CallsEnd
  IndexSpec
CHECK_DEADLOCK FALSE
