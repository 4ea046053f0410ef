CONSTANTS
  t1 = t1
  t2 = t2
  Trackers = {t1, t2}
  Contents <- const_Contents
  Times = {0, 1, 2}
  MaxEvents = 3
  MaxOpens = 2
  Promises <- const_Promises
SPECIFICATION Spec
INVARIANTS
  HeldIsLive
  OwnedIsAllocated
  NoStaleInfo
PROPERTY TrackerShowsNow
CHECK_DEADLOCK FALSE
