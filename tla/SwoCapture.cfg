CONSTANTS
  Size = 3
  RespSpace = 2
  FifoDepth = 2
  MaxBytes = 5
  Counts = {1, 3}
  DefaultRate = 1
  Rates = {2}
SPECIFICATION Spec
INVARIANTS TypeOK CaptureOnlyOnSwo CaptureMeansArmed NoSilentGap
PROPERTIES CommandsEnd
