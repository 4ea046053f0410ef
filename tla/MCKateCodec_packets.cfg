CONSTANTS
  FpBits <- MCFpBits
  RunBits <- MCRunBits
  Versions <- MCVersions
  Info0 <- MCInfo0
  Headers <- MCHeaders
  Events <- MCEvents
  Limit = 16
  Steps = 6
  Asked <- MCAsked
  Tags <- MCTags
  GranuleBits = 12
  Milli = 10
SPECIFICATION Spec
INVARIANTS
  RoundTrip
  IndicesInTables
  CutStoresNothing
  TextSound
  MotionsSound
  PositionsHold
  QueriesAnswered
CHECK_DEADLOCK FALSE
