SPECIFICATION Spec
CONSTANTS
  Inst = {i1, i2}
  Key = {k1}
  Req = {r1, r2}
  Window = {1, 2}
  Budget = 2
  MaxKeys = 1
  StaleAfter = 2
  KeyTtl = 1
  StartClock = 3
  MaxClock = 4
  MaxArrivals = 2
  PushFails = TRUE
  StaleReads = TRUE
  SlowPasses = TRUE
INVARIANTS NeverDoublePublished EstimateOfWindow
SYMMETRY FleetSymmetry
