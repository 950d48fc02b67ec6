SPECIFICATION Spec
CONSTANTS
  c1 = c1
  c2 = c2
  c3 = c3
  Client = {c1, c2, c3}
  NoClient = NoClient
  Fd = {0, 1}
  MaxReq <- TwoOneNone
  Kinds = {"rq", "bad", "big"}
  SockCap <- OneEach
  WholeFrames = FALSE
INVARIANTS
  TypeOK
  PollsForWhatItNeeds
  AssertsHold
  TableMatchesSockets
CHECK_DEADLOCK FALSE
