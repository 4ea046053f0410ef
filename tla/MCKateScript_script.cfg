\* Every short description of each topic, and what katedec prints of a stream.
CONSTANTS
  Topics <- MCTopics
  Definitions <- MCDefinitions
  Openings <- MCOpenings
  Directives <- MCDirectives
  Budget <- MCBudget
  Sources <- MCSources
  KeepaliveTime = 3
  Spoils <- MCSpoils
  Garbage = Garbage
SPECIFICATION Spec
INVARIANTS
  WrittenIsRead
  EventsStandAlone
  TextKept
  KaraokeOnTime
  SentIsSound
CHECK_DEADLOCK FALSE
