SPECIFICATION Spec
CONSTANTS
  MaxTime = 3
  MaxPackets = 3
  MaxFailures = 2
  NumHeaders = 2
  OffsetRange = 2
  BitOr <- MCBitOr
  Thresholds = {0, 2}
  Faults = {"content", "slot", "packet", "save"}
  Promises = {"headers", "order", "lifetime"}
INVARIANTS
  SeekCovers
  NoLateRejection
  PositionsAreRight
  InOrderInvariant
CHECK_DEADLOCK FALSE
