SPECIFICATION Spec
CONSTANTS
  c1 = c1
  c2 = c2
  c3 = c3
  Client = {c1, c2}
  NoClient = NoClient
  Fd = {0, 1}
  MaxReq <- ThreeAndOne
  Kinds = {"rq"}
  SockCap <- OneEach
  WholeFrames = TRUE
INVARIANTS
  OffsetsCountLifetime
PROPERTIES
  SessionSpec
  Answered
  DepartedAreReaped
CHECK_DEADLOCK FALSE
