-------------------------------- MODULE Gcra --------------------------------
(***************************************************************************)
(* The limiter arithmetic of shield/gcra.rs.  Instants and durations are   *)
(* natural numbers of one clock unit (the code counts nanoseconds in a     *)
(* u64, which no uptime exhausts).  A limiter is the code's struct Gcra:   *)
(* [interval, tau, burst].                                                 *)
(***************************************************************************)
EXTENDS Naturals

CONSTANT U32Max  \* the largest multiplier of a Duration, a u32

ASSUME U32Assumption == U32Max \in Nat

\* The larger and the smaller of two numbers, and Duration::saturating_sub.
Larger(a, b) == IF a >= b THEN a ELSE b
Smaller(a, b) == IF a <= b THEN a ELSE b
SatSub(a, b) == IF a >= b THEN a - b ELSE 0

\* Gcra::from_profile: a limiter from `rate` requests per `window`, `burst`
\* of them back to back, each clamped to at least 1.
FromProfile(rate, window, burst) ==
  LET interval == Larger(1, Larger(window, 1) \div Larger(rate, 1))
      capacity == Larger(burst, 1)
  IN  [interval |-> interval,
       tau      |-> interval * Smaller(capacity - 1, U32Max),
       burst    |-> capacity]

\* The requests admissible at `now` from the theoretical arrival time `tat`.
Admissible(g, tat, now) ==
  IF now + g.tau >= tat
  THEN Smaller(1 + ((now + g.tau) - tat) \div g.interval, g.burst)
  ELSE 0

\* Fault: `retry_after` waits for the whole bucket to drain.
CheckLate(g, tat, now) ==
  IF Admissible(g, tat, now) = 0
  THEN [allowed |-> FALSE, new_tat |-> tat, remaining |-> 0,
        retry_after |-> SatSub(tat, now), reset_after |-> SatSub(tat, now)]
  ELSE [allowed     |-> TRUE,
        new_tat     |-> Larger(tat, now) + g.interval,
        remaining   |-> Admissible(g, tat, now) - 1,
        retry_after |-> 0,
        reset_after |-> SatSub(Larger(tat, now) + g.interval, now)]

\* Gcra::check for a stored TAT; a first-seen key starts at `now`, so its
\* check is Check(g, now, now).
Check(g, tat, now) ==
  LET n == Admissible(g, tat, now)
      after == Larger(tat, now) + g.interval
  IN  IF n = 0
      THEN [allowed     |-> FALSE,
            new_tat     |-> tat,
            remaining   |-> 0,
            retry_after |-> SatSub(SatSub(tat, g.tau), now),
            reset_after |-> SatSub(tat, now)]
      ELSE [allowed     |-> TRUE,
            new_tat     |-> after,
            remaining   |-> n - 1,
            retry_after |-> 0,
            reset_after |-> SatSub(after, now)]
=============================================================================
