SPECIFICATION NetSpec
CONSTANTS
  RXQ_MAX = 2
  TXQ_MAX = 1
  EQ_COUNT = 1
  CQ_COUNT = 3
  MTUS = {1, 2}
  LINK_POLL = TRUE
  Faults = {"create_cq", "create_ring"}
  MaxOps = 2
INVARIANTS QueuesLive UpOrClean NoStall
PROPERTY RequestsEnd
CHECK_DEADLOCK FALSE
