SPECIFICATION ConvertSpec
CONSTANTS
  MaxTime = 3
  MaxPackets = 14
  MaxFailures = 4
  NumHeaders = 2
  OffsetRange = 4
  BitOr <- MCBitOr
  Thresholds = {1}
  Faults = {"slot", "save", "repeat"}
  OutputFails = TRUE
  Promises = {}
  Formats = {"srt", "lrc"}
  KeepaliveThresholds = {0, 2}
  CueTimes <- MCCueTimes
  LyricTimes = {0, 1, 3}
  Lines <- MCLines
INVARIANTS
  CuesAreSent
  CadenceKept
PROPERTIES
  KeepsPromises
  Ends
CHECK_DEADLOCK FALSE
