CONSTANTS
  Peers = {p1, p2}
  IpCount = 4
  Forwards = {f1}
  Limits <- MCLimits
SPECIFICATION Spec
INVARIANT ClosestFirst
CHECK_DEADLOCK FALSE
