SPECIFICATION FairSpec
CONSTANTS
  Inst = {i1}
  Key = {k1}
  Req = {r1, r2}
  Window = {1}
  Budget = 2
  MaxKeys = 1
  StaleAfter = 2
  KeyTtl = 1
  StartClock = 2
  MaxClock = 4
  MaxArrivals = 3
  PushFails = FALSE
  StaleReads = FALSE
  SlowPasses = FALSE
PROPERTY EventuallyPublished
