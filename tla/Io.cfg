CONSTANTS
  Gpios = 2
  Functions = {"uart"}
  Wrap = 4
  RequestSpace = 6
  ResponseSpace = 4
  Packets <- MCPackets
  MaxPackets = 3
  MaxWait = 2
  Failing = TRUE
SPECIFICATION Spec
INVARIANTS TypeOK DrivenOnRequest RequestIsDone
PROPERTIES RequestEnds
