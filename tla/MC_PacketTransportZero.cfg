SPECIFICATION Spec
CONSTANTS
  SeqCount = 4
  mtu = 2
  BufferSizes = {2}
  ControlSizes = {1}
  Window = 2
  MaxUsed = 4
INVARIANT SeqZeroOmitted
CHECK_DEADLOCK FALSE
