SPECIFICATION MCSpec
CONSTANTS
  Conn = {c1, c2, c3}
  MaxConns = 2
  MaxStreams = 2
  MaxRequests = 2
  Tls = TRUE
  IdleTimeout = TRUE
  DrainTimeout = TRUE
  Upgrades = TRUE
  Drops = TRUE
  Req = {r1, r2}
  Timeout = 2
  MaxCarried = 4
INVARIANTS SlotsConserved DrainComplete SleepUndisturbed
PROPERTIES ShutdownEnds BacklogServed EventuallyIdle
CHECK_DEADLOCK FALSE
