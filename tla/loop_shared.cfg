SPECIFICATION Spec
CONSTANTS
  c1 = c1
  c2 = c2
  c3 = c3
  Client = {c1, c2}
  NoClient = NoClient
  Fd = {0, 1}
  MaxReq <- TwoEach
  Kinds = {"rq"}
  SockCap <- OneEach
  WholeFrames = TRUE
INVARIANTS
  RepliesInOrder
CHECK_DEADLOCK FALSE
