CONSTANTS
  Size = 3
  Mps = 2
  FifoDepth = 2
  MaxRx = 4
  MaxTx = 4
  ZeroPackets = FALSE
SPECIFICATION Spec
INVARIANTS TypeOK RxInOrder RxNeverStalls TxInOrder TxNeverStalls
PROPERTY ResetEnds
