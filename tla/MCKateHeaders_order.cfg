SPECIFICATION HeadersSpec
CONSTANTS
  KnownHeaders = 9
  Announcements <- NineOrTen
  Losable <- AllButId
  Misread <- Nothing
  MaxLosses = 3
  MaxRestarts = 2
INVARIANTS
  DataNeedsHeaders
  CleanPassOpens
