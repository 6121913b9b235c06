----------------------------- MODULE GcraStore -----------------------------
(***************************************************************************)
(* The in-process rate-limit store of shield/store.rs under concurrent     *)
(* requests.  `check` is not one atomic step: it reads the clock before it *)
(* takes any lock, may run the sweep of drained keys (claimed by a         *)
(* compare-and-swap, then one key at a time under that key's lock), and    *)
(* only then updates its own key under the key's lock.                     *)
(***************************************************************************)
EXTENDS Gcra, FiniteSets

CONSTANTS
  Bucket,        \* limited identities, the keys of the map
  Caller,        \* requests being checked concurrently
  Limiter,       \* limiters a key's resolved tier can give
  SweepIntervalMs, \* SWEEP_INTERVAL_MS
  HwSweepMin,    \* HW_SWEEP_MIN_MS
  HighWater,     \* SWEEP_HIGH_WATER
  MaxClock,      \* bound: the clock stops here
  MaxLag         \* bound: how far the clock runs past an unfinished reading

ASSUME GcraStoreAssumption ==
  /\ SweepIntervalMs \in Nat \ {0} /\ HwSweepMin \in Nat \ {0} /\ HighWater \in Nat
  /\ MaxClock \in Nat /\ MaxLag \in Nat

ASSUME LimiterAssumption ==
  /\ Limiter \subseteq [interval : Nat \ {0}, tau : Nat, burst : Nat \ {0}]
  /\ \A g \in Limiter : g.tau = g.interval * (g.burst - 1)

VARIABLES
  clock,       \* the store's monotonic clock
  tats,        \* key |-> TAT, for the keys in the map
  lastSweep,   \* last_sweep_ms
  tier,        \* the limiter each key's tier resolves to
  at,          \* where each request is inside `check`
  bucket, now, \* its key and its clock reading
  last,        \* its load of last_sweep_ms
  unvisited,   \* keys its sweep has not visited yet
  \* History of each key since an arbitrary observation began:
  admitted,    \* whether a request was admitted
  first,       \* clock reading of the first request admitted
  newest,      \* clock reading of the last request admitted
  charged,     \* sum of the emission intervals of the requests admitted
  lost,        \* MaxLag for each eviction of the key
  exact        \* the TAT the key would have were nothing ever evicted

history == <<admitted, first, newest, charged, lost, exact>>
local == <<at, bucket, now, last, unvisited>>
storeVars == <<clock, tats, lastSweep, tier, local, history>>

Tracked == DOMAIN tats

\* What a map holds after `k` is stored, and after `k` is dropped.
Updated(f, k, v) == [x \in DOMAIN f \cup {k} |-> IF x = k THEN v ELSE f[x]]
Dropped(f, k) == [x \in DOMAIN f \ {k} |-> f[x]]

StoreInit ==
  /\ clock = 0 /\ lastSweep = 0
  /\ tats = [k \in {} |-> 0]
  /\ tier \in [Bucket -> Limiter]
  /\ at = [p \in Caller |-> "idle"]
  /\ bucket \in [Caller -> Bucket]
  /\ now = [p \in Caller |-> 0]
  /\ last = [p \in Caller |-> 0]
  /\ unvisited = [p \in Caller |-> {}]
  /\ admitted = [k \in Bucket |-> FALSE]
  /\ first = [k \in Bucket |-> 0]
  /\ newest = [k \in Bucket |-> 0]
  /\ charged = [k \in Bucket |-> 0]
  /\ lost = [k \in Bucket |-> 0]
  /\ exact = [k \in {} |-> 0]

\* Time passes; a request between its reading and its update holds it back
\* only at MaxLag.
ClockTick ==
  /\ clock < MaxClock
  /\ \A p \in Caller : at[p] # "idle" => clock < now[p] + MaxLag
  /\ clock' = clock + 1
  /\ UNCHANGED <<tats, lastSweep, tier, local, history>>

\* The tier a key resolves to changes; its TAT is kept (shield/mod.rs).
ChangeTier(k, g) ==
  /\ tier' = [tier EXCEPT ![k] = g]
  /\ UNCHANGED <<clock, tats, lastSweep, local, history>>

\* A new observation of a key begins, at any moment.
Observe(k) ==
  /\ admitted' = [admitted EXCEPT ![k] = FALSE]
  /\ charged' = [charged EXCEPT ![k] = 0]
  /\ lost' = [lost EXCEPT ![k] = 0]
  /\ UNCHANGED <<clock, tats, lastSweep, tier, local, first, newest, exact>>

\* `check` begins: it reads the clock, before any lock.
Read(p, k) ==
  /\ at[p] = "idle"
  /\ at' = [at EXCEPT ![p] = "load"]
  /\ bucket' = [bucket EXCEPT ![p] = k]
  /\ now' = [now EXCEPT ![p] = clock]
  /\ UNCHANGED <<clock, tats, lastSweep, tier, last, unvisited, history>>

\* maybe_sweep: whether a sweep is due at reading `t` after one at `l`.
SweepDue(t, l) ==
  \/ SatSub(t, l) >= SweepIntervalMs
  \/ SatSub(t, l) >= HwSweepMin /\ Cardinality(Tracked) > HighWater

\* maybe_sweep: load last_sweep_ms and decide.
LoadSweep(p) ==
  /\ at[p] = "load"
  /\ last' = [last EXCEPT ![p] = lastSweep]
  /\ at' = [at EXCEPT ![p] =
              IF SweepDue(now[p], lastSweep) THEN "claim" ELSE "charge"]
  /\ UNCHANGED <<clock, tats, lastSweep, tier, bucket, now, unvisited, history>>

\* Fault: a plain store, so every caller that found a sweep due runs one.
ClaimSweepStore(p) ==
  /\ at[p] = "claim"
  /\ lastSweep' = now[p]
  /\ unvisited' = [unvisited EXCEPT ![p] = Bucket]
  /\ at' = [at EXCEPT ![p] = "evict"]
  /\ UNCHANGED <<clock, tats, tier, bucket, now, last, history>>

\* maybe_sweep: the compare-and-swap; one caller wins the sweep.
ClaimSweep(p) ==
  /\ at[p] = "claim"
  /\ \/ /\ lastSweep = last[p]
        /\ lastSweep' = now[p]
        /\ unvisited' = [unvisited EXCEPT ![p] = Bucket]
        /\ at' = [at EXCEPT ![p] = "evict"]
     \/ /\ lastSweep # last[p]
        /\ at' = [at EXCEPT ![p] = "charge"]
        /\ UNCHANGED <<lastSweep, unvisited>>
  /\ UNCHANGED <<clock, tats, tier, bucket, now, last, history>>

\* evict_drained: whether the entry of `k` has drained at reading `t`.
Drained(k, t) == k \in Tracked /\ tats[k] <= t

\* evict_drained visits one key under its lock.
EvictKey(p, k) ==
  /\ at[p] = "evict" /\ k \in unvisited[p]
  /\ unvisited' = [unvisited EXCEPT ![p] = @ \ {k}]
  /\ IF Drained(k, now[p])
     THEN /\ tats' = Dropped(tats, k)
          /\ lost' = [lost EXCEPT ![k] = @ + MaxLag]
     ELSE UNCHANGED <<tats, lost>>
  /\ UNCHANGED <<clock, lastSweep, tier, at, bucket, now, last,
                 admitted, first, newest, charged, exact>>

SweepEnd(p) ==
  /\ at[p] = "evict" /\ unvisited[p] = {}
  /\ at' = [at EXCEPT ![p] = "charge"]
  /\ UNCHANGED <<clock, tats, lastSweep, tier, bucket, now, last, unvisited, history>>

\* Fault: every request is charged as its key's first.
StartNow(f, k, t) == t

\* The verdict of `check` on key `k` of map `f` at reading `t`; a first-seen
\* key starts at `t`.
Start(f, k, t) == IF k \in DOMAIN f THEN f[k] ELSE t
Verdict(f, k, t) == Check(tier[k], Start(f, k, t), t)

\* `check` updates its key under the key's lock and returns the verdict; its
\* locals are gone.
Charge(p) ==
  LET k == bucket[p]
      v == Verdict(tats, k, now[p])
      x == Verdict(exact, k, now[p])
  IN /\ at[p] = "charge"
     /\ at' = [at EXCEPT ![p] = "idle"]
     /\ now' = [now EXCEPT ![p] = 0] /\ last' = [last EXCEPT ![p] = 0]
     /\ exact' = IF x.allowed THEN Updated(exact, k, x.new_tat) ELSE exact
     /\ IF v.allowed
        THEN /\ tats' = Updated(tats, k, v.new_tat)
             /\ admitted' = [admitted EXCEPT ![k] = TRUE]
             /\ first' = [first EXCEPT ![k] = IF admitted[k] THEN @ ELSE now[p]]
             /\ newest' = [newest EXCEPT ![k] = now[p]]
             /\ charged' = [charged EXCEPT ![k] = @ + tier[k].interval]
        ELSE UNCHANGED <<tats, admitted, first, newest, charged>>
     /\ UNCHANGED <<clock, lastSweep, tier, bucket, unvisited, lost>>

StoreNext ==
  \/ ClockTick
  \/ \E k \in Bucket : Observe(k) \/ \E g \in Limiter : ChangeTier(k, g)
  \/ \E p \in Caller :
       \/ \E k \in Bucket : Read(p, k) \/ EvictKey(p, k)
       \/ LoadSweep(p) \/ ClaimSweep(p) \/ SweepEnd(p) \/ Charge(p)

StoreSpec == StoreInit /\ [][StoreNext]_storeVars

-----------------------------------------------------------------------------
\* Types: TATs, clock readings and the sweep mark are u64 and never wrap below
\* zero, and a request is at one of the steps of GcraStore::check.
StoreTypeOK ==
  /\ clock \in Nat /\ lastSweep \in Nat
  /\ Tracked \subseteq Bucket /\ tats \in [Tracked -> Nat]
  /\ tier \in [Bucket -> Limiter]
  /\ at \in [Caller -> {"idle", "load", "claim", "evict", "charge"}]
  /\ bucket \in [Caller -> Bucket] /\ now \in [Caller -> Nat] /\ last \in [Caller -> Nat]
  /\ unvisited \in [Caller -> SUBSET Bucket]
  /\ admitted \in [Bucket -> BOOLEAN]
  /\ first \in [Bucket -> Nat] /\ newest \in [Bucket -> Nat]
  /\ charged \in [Bucket -> Nat] /\ lost \in [Bucket -> Nat]
  /\ DOMAIN exact \subseteq Bucket /\ exact \in [DOMAIN exact -> Nat]

\* The limit holds over every observation, whatever the interleaving of
\* clock readings, sweeps and updates: the emission intervals of the requests
\* `check` admitted add up to no more than the time between the first and the
\* last of their readings plus one full bucket, and every eviction of the key
\* gives away at most the scheduling lag.
RateBound ==
  \A k \in Bucket : admitted[k] =>
    \E g \in Limiter :
      charged[k] + first[k] <= newest[k] + g.tau + g.interval + lost[k]

\* evict_drained drops no state that matters: a tracked key has the TAT it
\* would have had were nothing ever evicted, and an evicted one has drained.
EvictionInvisible ==
  \A k \in DOMAIN exact :
    IF k \in Tracked THEN tats[k] = exact[k] ELSE exact[k] <= clock

\* maybe_sweep is throttled: however many requests find a sweep due at once,
\* two sweeps claimed one after the other are read at least the shorter of
\* the two spacings apart, so last_sweep_ms never moves back either.
SweepThrottled ==
  [][lastSweep' # lastSweep =>
       lastSweep' >= lastSweep + Smaller(SweepIntervalMs, HwSweepMin)]_lastSweep

\* What `check` would report of a tracked key now is what would happen: a
\* rejected request is admitted after exactly `retry_after` and not one unit
\* earlier, an admitted one leaves room for exactly `remaining` more at the
\* same instant, and after `reset_after` the bucket is full again.
VerdictTruthful ==
  \A k \in Tracked :
    LET g == tier[k]
        v == Check(g, tats[k], clock)
        Later(d) == Check(g, v.new_tat, clock + d)
    IN  /\ ~v.allowed => /\ Later(v.retry_after).allowed
                         /\ ~Later(v.retry_after - 1).allowed
        /\ v.allowed => Admissible(g, v.new_tat, clock) = v.remaining
        /\ Later(v.reset_after).remaining = g.burst - 1
=============================================================================
