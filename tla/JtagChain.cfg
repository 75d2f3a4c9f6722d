CONSTANTS
  MaxDevices = 3
  WordBits = 3
  DpLength = 4
  IdleCycles = 1
  ByteBits = 2
  ResponseSpace = 4
  Sequences <- MCSequences
  Chains <- MCChains
  Configs <- MCConfigs
  Words = {2, 5}
SPECIFICATION Spec
INVARIANTS TypeOK EndsIdle IrIsSet TransferIsExact IdcodeIsRight ScanReadsIdentities
