SPECIFICATION MCSpec
CONSTANTS
  U32Max = 15
  Bucket = {b1}
  Caller = {c1, c2}
  Limiter <- TwoTiers
  SweepIntervalMs = 2
  HwSweepMin = 1
  HighWater = 0
  MaxClock = 3
  MaxLag = 2
  Key = {k1, k2, k3}
  NoKey = NoKey
  Proc = {p1, p2}
  Task = {t1, t2}
  MaxFetches = 2
  MaxEntries = 1
  Ttl = 1
  EvictAfter = 1
  SweepInterval = 1
  MaxChanges = 1
SYMMETRY Sym
CONSTRAINT Focus
INVARIANTS RateBound VerdictTruthful SingleFlight CacheBounded
PROPERTIES SweepThrottled LimitNeverRegresses
