SPECIFICATION Spec
CONSTANTS
  Key = {k1, k2}
  Value = {v1, v2}
  NoValue = NoValue
  PoolSize = 4
  Base = 3
  FieldLen = 2
  MaxFrame = 7
  MaxStrs = 2
  Refused = Refused
  Behind <- MCBehind
  Sent <- MCSent
INVARIANTS
  TypeOK
  OneObjectPerKey
  HoldsWhatMadeIt
  ParseInvertsSend
  StreamIsItsRequests
PROPERTIES
  RefusalsChangeNothing
  ObjectsAreForGood
CHECK_DEADLOCK FALSE
