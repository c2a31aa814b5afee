SPECIFICATION Spec
CONSTANTS
  SeqCount = 3
  mtu = 2
  BufferSizes = {2, 4}
  ControlSizes = {1}
  Window = 2
  MaxUsed = 5
INVARIANTS DeliveredInOrder MissingCanBeResent DeliveredWasPushed
CHECK_DEADLOCK FALSE
