SPECIFICATION Spec
CONSTANTS
  c1 = c1
  c2 = c2
  c3 = c3
  Client = {c1}
  NoClient = NoClient
  Fd = {0}
  MaxReq <- TwoEach
  Kinds = {"rq"}
  SockCap <- TwoEach
  WholeFrames = FALSE
INVARIANTS
  NeverRefused
CHECK_DEADLOCK FALSE
