SPECIFICATION Spec
CONSTANTS
  Node <- TestNode
  Key <- TestKey
  KeyOf <- TestKeyOf
  Hash <- TestHash
  NoNode = NoNode
  InitBuckets = 8
  Load = 1
  PrehashWork = 64
INVARIANT NeverFaults
CHECK_DEADLOCK FALSE
