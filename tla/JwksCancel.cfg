SPECIFICATION Spec
CONSTANTS
  Kid = {k1}
  Proc = {p1, p2}
  NoProc = NoProc
  Never = Never
  MaxAge = 2
  MinRefresh = 2
  Timeout = 1
  MaxTtl = 1
  Outages = FALSE
  MaxClock = 8
INVARIANT RevocationBound
