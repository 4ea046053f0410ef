SPECIFICATION StreamSpec
CONSTANTS
  MaxTime = 2
  MaxPackets = 4
  MaxFailures = 1
  NumHeaders = 2
  OffsetRange = 4
  BitOr <- MCBitOr
  Thresholds = {0}
  Faults = {"slot", "save"}
  Promises = {"headers", "order", "lifetime"}
  MaxSeeks = 0
  MaxLosses = 0
PROPERTY IsChannel
CHECK_DEADLOCK FALSE
