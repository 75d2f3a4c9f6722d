CONSTANTS
  Gpios = 2
  Functions = {"uart"}
  Wrap = 4
  RequestSpace = 6
  ResponseSpace = 4
  Packets <- MCPullPackets
  MaxPackets = 3
  MaxWait = 2
  Failing = FALSE
SPECIFICATION Spec
INVARIANTS PullsAgree
