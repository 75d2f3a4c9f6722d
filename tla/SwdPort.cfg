CONSTANTS
  WordBits = 8
  ResetBits = 24
  IdleCycles = 2
  Turnarounds = {1, 2}
  Words <- MCWords
  Addresses <- MCAddresses
  BitSequences <- MCBitSequences
  ItemSequences <- MCItemSequences
  PinCommands <- MCPinCommands
SPECIFICATION Spec
INVARIANTS TypeOK NoContention OnlyAsked AnswerIsTrue StaysInSync 
