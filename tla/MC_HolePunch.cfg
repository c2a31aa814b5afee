SPECIFICATION FairSpec
CONSTANTS
  Peers = {"A", "B"}
  ConnectCounts = {0, 2, 3}
  SrcAddrs = {0, 2}
  own_addr <- OwnAddrs
  NATed = {"A"}
  Backlog = 1
  UINT_COUNT = 4
INVARIANTS  SocketsClosed
PROPERTY CallsEnd
CHECK_DEADLOCK FALSE
