CONSTANTS
  Size = 3
  Mps = 2
  FifoDepth = 2
  MaxRx = 0
  MaxTx = 4
  ZeroPackets = TRUE
SPECIFICATION Spec
INVARIANT DataIsInBuffer
