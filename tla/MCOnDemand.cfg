SPECIFICATION OnDemandSpec
CONSTANTS
  Players = {p1, p2}
  MaxFrames = 8
  GopLen = 3
  CacheCap = 2
  RingCap = 4
  Immediate = FALSE
  MaxCounts = 3
INVARIANT CacheIsCurrent
INVARIANT GivenInOrder
INVARIANT NothingMissed
CHECK_DEADLOCK FALSE
