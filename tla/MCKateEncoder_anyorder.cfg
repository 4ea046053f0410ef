SPECIFICATION Spec
CONSTANTS
  MaxTime = 3
  MaxPackets = 3
  MaxFailures = 2
  NumHeaders = 9
  OffsetRange = 2
  BitOr <- MCBitOr
  Thresholds = {0, 1}
  Faults = {"repeat"}
  Promises = {"headers"}
INVARIANTS
  StreamNonDecreasing
  RepeatsAreLive
CHECK_DEADLOCK FALSE
