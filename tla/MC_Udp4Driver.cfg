SPECIFICATION Spec
CONSTANTS
  Packets <- MCPackets
  Addrs <- MCAddrs
  Ids <- MCIds
  Conns = {c1}
  NULL = NULL
  MTU = 2
  MaxPushed = 3
  MaxBuffers = 2
INVARIANTS SendInBounds FirstSendIntact CalledWithPushed 
PROPERTIES SentBeforeCleared
