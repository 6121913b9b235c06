SPECIFICATION MCSpec
CONSTANTS
  MaxHops = 2
  Origin = "c"
  Path <- Proxies
  Trusted <- TrustedProxies
  Policies <- AllModes
  Forged <- Lies
  MaxForged = 2
  Request = {r1, r2}
  MaxInFlight = 1
  Limit <- LimitOf
  Period <- PeriodOf
  Configs <- GuardConfigs
  Kinds <- RequestKinds
  Checks <- ServerChecks
  Decisions <- DeciderDecisions
  t1 = t1
  t2 = t2
  Token = {t1, t2}
  Proc = {p1, p2}
  Exp <- ExpOf
  Nbf <- NbfOf
  MaxEntries = 2
  MaxTtl = 1
  MaxMono = 2
  MaxUnix = 2
SYMMETRY Symmetry
CHECK_DEADLOCK FALSE
INVARIANTS OriginKept NeverForged PermitsConserved VettedInOrder HeadersGenuine TightestReported
           RefusedInGrpc SlotsAccounted
PROPERTY CachedAnswerFresh
