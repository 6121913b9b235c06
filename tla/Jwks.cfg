SPECIFICATION FairSpec
CONSTANTS
  Kid = {k1}
  Proc = {p1, p2}
  NoProc = NoProc
  Never = Never
  MaxAge = 2
  MinRefresh = 2
  Timeout = 1
  MaxTtl = 1
  Outages = TRUE
  MaxClock = 4
INVARIANT RevokedKeyRetired
PROPERTIES RefreshSpaced NoLookupStuck
