SPECIFICATION StreamSpec
CONSTANTS
  MaxTime = 3
  MaxPackets = 4
  MaxFailures = 0
  NumHeaders = 2
  OffsetRange = 2
  BitOr <- MCBitOr
  Thresholds = {0}
  Faults = {}
  Promises = {"headers", "order", "lifetime"}
  MaxSeeks = 1
  MaxLosses = 1
INVARIANT SeekRecovers
INVARIANT HeardIsDelivered
CHECK_DEADLOCK FALSE
