-------------------------- MODULE GcraStoreProofs --------------------------
(***************************************************************************)
(* Proofs about GcraStore for every set of keys and requests, every set of *)
(* limiters and every bound.                                               *)
(***************************************************************************)
EXTENDS GcraStore, TLAPS

\* A request admits iff `now + tau >= tat`, and then moves the TAT one
\* interval past the later of the TAT and the reading (Gcra::check).
LEMMA CheckVerdict ==
  ASSUME NEW g \in Limiter, NEW tat \in Nat, NEW t \in Nat
  PROVE  /\ Check(g, tat, t).allowed <=> t + g.tau >= tat
         /\ Check(g, tat, t).allowed =>
              Check(g, tat, t).new_tat = Larger(tat, t) + g.interval
         /\ Check(g, tat, t).allowed \in BOOLEAN
<1> DEFINE slack == (t + g.tau) - tat
<1>1. g.interval \in Nat \ {0} /\ g.tau \in Nat /\ g.burst \in Nat \ {0}
  BY LimiterAssumption
<1>2. t + g.tau >= tat => slack \in Nat
  BY <1>1
<1>3. t + g.tau >= tat => slack \div g.interval \in Nat
  BY <1>1, <1>2
<1>4. t + g.tau >= tat => Admissible(g, tat, t) # 0
  <2> DEFINE q == slack \div g.interval
  <2>1. Admissible(g, tat, t) = IF t + g.tau >= tat THEN Smaller(1 + q, g.burst) ELSE 0
    BY DEF Admissible
  <2>2. HAVE t + g.tau >= tat
  <2>3. q \in Nat
    BY <1>3, <2>2
  <2> HIDE DEF q
  <2>4. Smaller(1 + q, g.burst) # 0
    BY <1>1, <2>3 DEF Smaller
  <2> QED
    BY <2>1, <2>2, <2>4
<1>5. ~(t + g.tau >= tat) => Admissible(g, tat, t) = 0
  BY DEF Admissible
<1> QED
  BY <1>1, <1>4, <1>5 DEF Check

\* The verdict on a key of a map, in terms of the TAT it starts from.
LEMMA VerdictOnMap ==
  ASSUME NEW k \in Bucket, tier[k] \in Limiter, NEW t \in Nat,
         NEW f, f \in [DOMAIN f -> Nat]
  PROVE  /\ Start(f, k, t) \in Nat
         /\ Verdict(f, k, t).allowed <=> t + tier[k].tau >= Start(f, k, t)
         /\ Verdict(f, k, t).allowed =>
              Verdict(f, k, t).new_tat = Larger(Start(f, k, t), t) + tier[k].interval
         /\ Verdict(f, k, t).allowed \in BOOLEAN
<1>1. Start(f, k, t) \in Nat
  BY DEF Start
<1> QED
  BY <1>1, CheckVerdict DEF Verdict

\* What `check` does to its key and to the history of the key.
LEMMA ChargeEffect ==
  ASSUME StoreTypeOK, NEW p \in Caller, Charge(p),
         NEW k, k = bucket[p], NEW t, t = now[p],
         NEW a, a = Start(tats, k, t), NEW b, b = Start(exact, k, t),
         NEW g, g = tier[k]
  PROVE  /\ k \in Bucket /\ t \in Nat /\ a \in Nat /\ b \in Nat /\ g \in Limiter
         /\ g.interval \in Nat /\ g.tau \in Nat
         /\ \/ /\ t + g.tau >= a
               /\ tats' = Updated(tats, k, Larger(a, t) + g.interval)
               /\ admitted' = [admitted EXCEPT ![k] = TRUE]
               /\ first' = [first EXCEPT ![k] = IF admitted[k] THEN @ ELSE t]
               /\ newest' = [newest EXCEPT ![k] = t]
               /\ charged' = [charged EXCEPT ![k] = @ + g.interval]
            \/ /\ ~(t + g.tau >= a)
               /\ UNCHANGED <<tats, admitted, first, newest, charged>>
         /\ \/ /\ t + g.tau >= b
               /\ exact' = Updated(exact, k, Larger(b, t) + g.interval)
            \/ /\ ~(t + g.tau >= b)
               /\ UNCHANGED exact
<1>1. k \in Bucket /\ t \in Nat /\ g \in Limiter /\ g.interval \in Nat /\ g.tau \in Nat
  BY LimiterAssumption DEF StoreTypeOK
<1>2. /\ a \in Nat
      /\ Verdict(tats, k, t).allowed <=> t + g.tau >= a
      /\ Verdict(tats, k, t).allowed =>
           Verdict(tats, k, t).new_tat = Larger(a, t) + g.interval
  BY <1>1, VerdictOnMap DEF StoreTypeOK, Tracked
<1>3. /\ b \in Nat
      /\ Verdict(exact, k, t).allowed <=> t + g.tau >= b
      /\ Verdict(exact, k, t).allowed =>
           Verdict(exact, k, t).new_tat = Larger(b, t) + g.interval
  BY <1>1, VerdictOnMap DEF StoreTypeOK
<1>4. CASE Verdict(tats, k, t).allowed
  BY <1>1, <1>2, <1>3, <1>4 DEF Charge
<1>5. CASE ~Verdict(tats, k, t).allowed
  BY <1>1, <1>2, <1>3, <1>5 DEF Charge
<1> QED
  BY <1>4, <1>5

-----------------------------------------------------------------------------
\* A clock reading is in the past, by at most MaxLag until it is used.
LagBound ==
  \A p \in Caller : at[p] # "idle" => now[p] <= clock /\ clock <= now[p] + MaxLag

\* A tracked key's TAT has advanced by the interval of every request admitted
\* in the observation, up to the evictions; an evicted key's drained before
\* the clock, and the eviction has already been paid for.
Ledger ==
  \A k \in Bucket :
    /\ ~admitted[k] => charged[k] = 0
    /\ admitted[k] =>
         IF k \in Tracked
         THEN charged[k] + first[k] <= tats[k] + lost[k]
         ELSE charged[k] + first[k] + MaxLag <= clock + lost[k]

\* The inductive invariant behind RateBound.
RateInv == StoreTypeOK /\ LagBound /\ Ledger /\ RateBound

\* The store GcraStore::new builds is well typed.
LEMMA TypeInit == StoreInit => StoreTypeOK
  BY DEF StoreInit, StoreTypeOK, Tracked

\* Every step of a request or of the clock keeps the types.
LEMMA TypeStep == StoreTypeOK /\ [StoreNext]_storeVars => StoreTypeOK'
<1> SUFFICES ASSUME StoreTypeOK, [StoreNext]_storeVars PROVE StoreTypeOK'
  OBVIOUS
<1> USE DEF StoreTypeOK, Tracked, local, history
<1>1. CASE ClockTick
  BY <1>1 DEF ClockTick
<1>2. ASSUME NEW k \in Bucket, Observe(k) PROVE StoreTypeOK'
  BY <1>2 DEF Observe
<1>3. ASSUME NEW k \in Bucket, NEW g \in Limiter, ChangeTier(k, g) PROVE StoreTypeOK'
  BY <1>3 DEF ChangeTier
<1>4. ASSUME NEW p \in Caller, NEW k \in Bucket, Read(p, k) PROVE StoreTypeOK'
  BY <1>4 DEF Read
<1>5. ASSUME NEW p \in Caller, NEW k \in Bucket, EvictKey(p, k) PROVE StoreTypeOK'
  BY <1>5, GcraStoreAssumption DEF EvictKey, Dropped
<1>6. ASSUME NEW p \in Caller, LoadSweep(p) PROVE StoreTypeOK'
  BY <1>6 DEF LoadSweep
<1>7. ASSUME NEW p \in Caller, ClaimSweep(p) PROVE StoreTypeOK'
  BY <1>7 DEF ClaimSweep
<1>8. ASSUME NEW p \in Caller, SweepEnd(p) PROVE StoreTypeOK'
  BY <1>8 DEF SweepEnd
<1>9. ASSUME NEW p \in Caller, Charge(p) PROVE StoreTypeOK'
  <2> DEFINE k == bucket[p]  t == now[p]  g == tier[k]
             a == Start(tats, k, t)  b == Start(exact, k, t)
  <2>1. /\ k \in Bucket /\ t \in Nat /\ g.interval \in Nat
        /\ Larger(a, t) + g.interval \in Nat /\ Larger(b, t) + g.interval \in Nat
    <3>1. /\ k \in Bucket /\ t \in Nat /\ g.interval \in Nat
          /\ a \in Nat /\ b \in Nat
      BY <1>9, ChargeEffect
    <3> HIDE DEF k, t, g, a, b
    <3> QED
      BY <3>1 DEF Larger
  <2>2. /\ tats' = tats \/ tats' = Updated(tats, k, Larger(a, t) + g.interval)
        /\ exact' = exact \/ exact' = Updated(exact, k, Larger(b, t) + g.interval)
    BY <1>9, ChargeEffect
  <2>3. DOMAIN tats' \subseteq Bucket /\ tats' \in [DOMAIN tats' -> Nat]
    BY <2>1, <2>2 DEF Updated
  <2>4. DOMAIN exact' \subseteq Bucket /\ exact' \in [DOMAIN exact' -> Nat]
    BY <2>1, <2>2 DEF Updated
  <2>5. /\ admitted' \in [Bucket -> BOOLEAN] /\ first' \in [Bucket -> Nat]
        /\ newest' \in [Bucket -> Nat] /\ charged' \in [Bucket -> Nat]
    <3>1. \/ /\ admitted' = [admitted EXCEPT ![k] = TRUE]
             /\ first' = [first EXCEPT ![k] = IF admitted[k] THEN @ ELSE t]
             /\ newest' = [newest EXCEPT ![k] = t]
             /\ charged' = [charged EXCEPT ![k] = @ + g.interval]
          \/ UNCHANGED <<admitted, first, newest, charged>>
      BY <1>9, ChargeEffect
    <3> HIDE DEF k, t, g
    <3>2. admitted' \in [Bucket -> BOOLEAN]
      BY <3>1
    <3>3. first' \in [Bucket -> Nat]
      BY <2>1, <3>1
    <3>4. newest' \in [Bucket -> Nat]
      BY <2>1, <3>1
    <3>5. charged' \in [Bucket -> Nat]
      BY <2>1, <3>1
    <3> QED
      BY <3>2, <3>3, <3>4, <3>5
  <2>6. /\ at' \in [Caller -> {"idle", "load", "claim", "evict", "charge"}]
        /\ now' \in [Caller -> Nat] /\ last' \in [Caller -> Nat]
    BY <1>9 DEF Charge
  <2>7. UNCHANGED <<clock, lastSweep, tier, bucket, unvisited, lost>>
    BY <1>9 DEF Charge
  <2> QED
    BY <2>3, <2>4, <2>5, <2>6, <2>7
<1>10. CASE UNCHANGED storeVars
  BY <1>10 DEF storeVars
<1> QED
  BY <1>1, <1>2, <1>3, <1>4, <1>5, <1>6, <1>7, <1>8, <1>9, <1>10 DEF StoreNext

\* GcraStore is type-correct.
THEOREM TypeCorrect == StoreSpec => []StoreTypeOK
  BY TypeInit, TypeStep, PTL DEF StoreSpec

-----------------------------------------------------------------------------
\* The empty store satisfies the inductive invariant of the rate bound.
LEMMA RateInit == StoreInit => RateInv
<1> SUFFICES ASSUME StoreInit PROVE RateInv
  OBVIOUS
<1>1. StoreTypeOK
  BY TypeInit
<1>2. LagBound /\ Ledger /\ RateBound
  BY DEF StoreInit, LagBound, Ledger, RateBound
<1> QED
  BY <1>1, <1>2 DEF RateInv

\* Readings stay within MaxLag of the clock: ClockTick waits for them.
LEMMA LagStep == StoreTypeOK /\ LagBound /\ [StoreNext]_storeVars => LagBound'
<1> SUFFICES ASSUME StoreTypeOK, LagBound, [StoreNext]_storeVars PROVE LagBound'
  OBVIOUS
<1> USE GcraStoreAssumption DEF StoreTypeOK, LagBound, local, history
<1>1. CASE ClockTick
  BY <1>1 DEF ClockTick
<1>2. ASSUME NEW k \in Bucket, Observe(k) PROVE LagBound'
  BY <1>2 DEF Observe
<1>3. ASSUME NEW k \in Bucket, NEW g \in Limiter, ChangeTier(k, g) PROVE LagBound'
  BY <1>3 DEF ChangeTier
<1>4. ASSUME NEW p \in Caller, NEW k \in Bucket, Read(p, k) PROVE LagBound'
  BY <1>4 DEF Read
<1>5. ASSUME NEW p \in Caller, NEW k \in Bucket, EvictKey(p, k) PROVE LagBound'
  BY <1>5 DEF EvictKey
<1>6. ASSUME NEW p \in Caller, LoadSweep(p) PROVE LagBound'
  BY <1>6 DEF LoadSweep
<1>7. ASSUME NEW p \in Caller, ClaimSweep(p) PROVE LagBound'
  BY <1>7 DEF ClaimSweep
<1>8. ASSUME NEW p \in Caller, SweepEnd(p) PROVE LagBound'
  BY <1>8 DEF SweepEnd
<1>9. ASSUME NEW p \in Caller, Charge(p) PROVE LagBound'
  BY <1>9 DEF Charge
<1>10. CASE UNCHANGED storeVars
  BY <1>10 DEF storeVars
<1> QED
  BY <1>1, <1>2, <1>3, <1>4, <1>5, <1>6, <1>7, <1>8, <1>9, <1>10 DEF StoreNext

\* The ledger and the rate bound together are inductive.
LEMMA RateStep == RateInv /\ [StoreNext]_storeVars => Ledger' /\ RateBound'
<1> SUFFICES ASSUME RateInv, [StoreNext]_storeVars PROVE Ledger' /\ RateBound'
  OBVIOUS
<1> USE GcraStoreAssumption DEF RateInv, local, history
<1>1. CASE ClockTick
  <2>1. Ledger'
    BY <1>1 DEF ClockTick, Ledger, StoreTypeOK, Tracked
  <2>2. RateBound'
    BY <1>1 DEF ClockTick, RateBound
  <2> QED BY <2>1, <2>2
<1>2. ASSUME NEW k \in Bucket, Observe(k) PROVE Ledger' /\ RateBound'
  <2>1. Ledger'
    BY <1>2 DEF Observe, Ledger, StoreTypeOK, Tracked
  <2>2. RateBound'
    BY <1>2 DEF Observe, RateBound, StoreTypeOK
  <2> QED BY <2>1, <2>2
<1>3. ASSUME NEW k \in Bucket, NEW g \in Limiter, ChangeTier(k, g) PROVE Ledger' /\ RateBound'
  BY <1>3 DEF ChangeTier, Ledger, RateBound, Tracked
<1>4. ASSUME NEW p \in Caller, NEW k \in Bucket, Read(p, k) PROVE Ledger' /\ RateBound'
  BY <1>4 DEF Read, Ledger, RateBound, Tracked
<1>5. ASSUME NEW p \in Caller, NEW k \in Bucket, EvictKey(p, k) PROVE Ledger' /\ RateBound'
  <2>1. CASE Drained(k, now[p])
    <3>1. /\ tats' = Dropped(tats, k) /\ lost' = [lost EXCEPT ![k] = @ + MaxLag]
          /\ UNCHANGED <<clock, admitted, first, newest, charged>>
          /\ at[p] = "evict"
      BY <1>5, <2>1 DEF EvictKey
    <3>2. k \in Tracked /\ tats[k] <= now[p] /\ now[p] <= clock
      BY <2>1, <3>1 DEF Drained, LagBound
    <3>3. Ledger'
      BY <3>1, <3>2 DEF Ledger, StoreTypeOK, Tracked, Dropped
    <3>4. RateBound'
      <4> SUFFICES ASSUME NEW j \in Bucket, admitted[j]
                   PROVE  \E g \in Limiter :
                     charged[j] + first[j] <= newest[j] + g.tau + g.interval + lost'[j]
        BY <3>1 DEF RateBound
      <4>1. PICK g \in Limiter :
              charged[j] + first[j] <= newest[j] + g.tau + g.interval + lost[j]
        BY DEF RateBound
      <4>2. lost[j] \in Nat /\ lost'[j] \in Nat /\ lost[j] <= lost'[j]
        BY <3>1 DEF StoreTypeOK
      <4>3. g.tau \in Nat /\ g.interval \in Nat /\ newest[j] \in Nat
            /\ charged[j] + first[j] \in Nat
        BY LimiterAssumption DEF StoreTypeOK
      <4> QED
        BY <4>1, <4>2, <4>3
    <3> QED
      BY <3>3, <3>4
  <2>2. CASE ~Drained(k, now[p])
    BY <1>5, <2>2 DEF EvictKey, Ledger, RateBound, Tracked
  <2> QED
    BY <2>1, <2>2
<1>6. ASSUME NEW p \in Caller, LoadSweep(p) PROVE Ledger' /\ RateBound'
  BY <1>6 DEF LoadSweep, Ledger, RateBound, Tracked
<1>7. ASSUME NEW p \in Caller, ClaimSweep(p) PROVE Ledger' /\ RateBound'
  BY <1>7 DEF ClaimSweep, Ledger, RateBound, Tracked
<1>8. ASSUME NEW p \in Caller, SweepEnd(p) PROVE Ledger' /\ RateBound'
  BY <1>8 DEF SweepEnd, Ledger, RateBound, Tracked
<1>9. ASSUME NEW p \in Caller, Charge(p) PROVE Ledger' /\ RateBound'
  <2> DEFINE k == bucket[p]  t == now[p]  g == tier[k]  a == Start(tats, k, t)
             n == Larger(a, t) + g.interval
  <2>1. /\ k \in Bucket /\ t \in Nat /\ a \in Nat /\ g \in Limiter
        /\ g.interval \in Nat /\ g.tau \in Nat
    BY <1>9, ChargeEffect
  <2>2. UNCHANGED <<clock, lost>> /\ clock <= t + MaxLag
    BY <1>9 DEF Charge, LagBound
  <2>3. CASE ~(t + g.tau >= a)
    <3>1. UNCHANGED <<tats, admitted, first, newest, charged>>
      BY <1>9, <2>3, ChargeEffect
    <3> QED
      BY <2>2, <3>1 DEF Ledger, RateBound, Tracked
  <2>4. CASE t + g.tau >= a
    <3>1. /\ tats' = Updated(tats, k, n)
          /\ admitted' = [admitted EXCEPT ![k] = TRUE]
          /\ first' = [first EXCEPT ![k] = IF admitted[k] THEN @ ELSE t]
          /\ newest' = [newest EXCEPT ![k] = t]
          /\ charged' = [charged EXCEPT ![k] = @ + g.interval]
      BY <1>9, <2>4, ChargeEffect
    <3>2. /\ k \in Tracked => a = tats[k]
          /\ k \notin Tracked => a = t
      BY DEF Start, Tracked
    <3> HIDE DEF k, t, g, a
    <3>3. /\ n \in Nat /\ n >= a + g.interval /\ n >= t + g.interval
          /\ n <= t + g.tau + g.interval
      BY <2>1, <2>4 DEF Larger
    <3> HIDE DEF n
    <3>4. /\ charged[k] \in Nat /\ first[k] \in Nat /\ lost[k] \in Nat
          /\ clock \in Nat /\ admitted[k] \in BOOLEAN
      BY <2>1 DEF StoreTypeOK
    <3>5. /\ charged'[k] = charged[k] + g.interval
          /\ first'[k] = IF admitted[k] THEN first[k] ELSE t
          /\ newest'[k] = t /\ tats'[k] = n /\ k \in DOMAIN tats' /\ lost'[k] = lost[k]
      BY <2>1, <2>2, <3>1 DEF StoreTypeOK, Updated
    <3>6. charged'[k] + first'[k] <= n + lost[k]
      <4>1. CASE ~admitted[k]
        <5>1. charged[k] = 0
          BY <2>1, <4>1 DEF Ledger
        <5> QED
          BY <2>1, <3>3, <3>4, <3>5, <4>1, <5>1
      <4>2. CASE admitted[k] /\ k \in Tracked
        <5>1. charged[k] + first[k] <= a + lost[k]
          BY <2>1, <3>2, <4>2 DEF Ledger
        <5> QED
          BY <2>1, <3>3, <3>4, <3>5, <4>2, <5>1
      <4>3. CASE admitted[k] /\ k \notin Tracked
        <5>1. charged[k] + first[k] + MaxLag <= clock + lost[k]
          BY <2>1, <4>3 DEF Ledger
        <5>2. charged[k] + first[k] <= t + lost[k]
          BY <2>1, <2>2, <3>4, <5>1
        <5> QED
          BY <2>1, <3>3, <3>4, <3>5, <4>3, <5>2
      <4> QED
        BY <3>4, <4>1, <4>2, <4>3
    <3>7. ASSUME NEW j \in Bucket, j # k
          PROVE  /\ charged'[j] = charged[j] /\ first'[j] = first[j]
                 /\ newest'[j] = newest[j] /\ lost'[j] = lost[j]
                 /\ admitted'[j] = admitted[j]
                 /\ j \in DOMAIN tats' <=> j \in DOMAIN tats
                 /\ j \in DOMAIN tats => tats'[j] = tats[j]
      BY <2>1, <2>2, <3>1, <3>7 DEF StoreTypeOK, Updated
    <3>8. admitted'[k]
      BY <2>1, <3>1 DEF StoreTypeOK
    <3>9. Ledger'
      <4> SUFFICES ASSUME NEW j \in Bucket
                   PROVE  /\ ~admitted'[j] => charged'[j] = 0
                          /\ admitted'[j] =>
                               IF j \in DOMAIN tats'
                               THEN charged'[j] + first'[j] <= tats'[j] + lost'[j]
                               ELSE charged'[j] + first'[j] + MaxLag <= clock' + lost'[j]
        BY DEF Ledger, Tracked
      <4>1. CASE j = k
        BY <3>5, <3>6, <3>8, <4>1
      <4>2. CASE j # k
        BY <2>2, <3>7, <4>2 DEF Ledger, Tracked
      <4> QED
        BY <4>1, <4>2
    <3>10. RateBound'
      <4> SUFFICES ASSUME NEW j \in Bucket, admitted'[j]
                   PROVE  \E h \in Limiter :
                     charged'[j] + first'[j] <= newest'[j] + h.tau + h.interval + lost'[j]
        BY DEF RateBound
      <4>1. CASE j = k
        <5>1. charged'[k] + first'[k] <= newest'[k] + g.tau + g.interval + lost'[k]
          BY <2>1, <3>3, <3>4, <3>5, <3>6
        <5> QED
          BY <2>1, <4>1, <5>1
      <4>2. CASE j # k
        BY <3>7, <4>2 DEF RateBound
      <4> QED
        BY <4>1, <4>2
    <3> QED
      BY <3>9, <3>10
  <2> QED
    BY <2>3, <2>4
<1>10. CASE UNCHANGED storeVars
  BY <1>10 DEF storeVars, Ledger, RateBound, Tracked
<1> QED
  BY <1>1, <1>2, <1>3, <1>4, <1>5, <1>6, <1>7, <1>8, <1>9, <1>10 DEF StoreNext

\* The limit of shield/store.rs holds for every limiter, key set and
\* interleaving: over any observation, the requests admitted stay within the
\* elapsed time plus one bucket, plus the lag per eviction.
THEOREM RateLimited == StoreSpec => []RateBound
<1>1. RateInv /\ [StoreNext]_storeVars => RateInv'
  BY TypeStep, LagStep, RateStep DEF RateInv
<1>2. RateInv => RateBound
  BY DEF RateInv
<1> QED
  BY RateInit, <1>1, <1>2, PTL DEF StoreSpec

-----------------------------------------------------------------------------
\* The invariant behind EvictionInvisible, when readings are never stale.
EvictionInv ==
  /\ StoreTypeOK /\ LagBound /\ EvictionInvisible
  /\ Tracked \subseteq DOMAIN exact

\* With current readings every step of check, and of the sweep in it, keeps the
\* store indistinguishable from one that never evicts.
LEMMA EvictionStep ==
  ASSUME MaxLag = 0, EvictionInv, [StoreNext]_storeVars
  PROVE  EvictionInvisible' /\ (Tracked \subseteq DOMAIN exact)'
<1> DEFINE Goal == EvictionInvisible' /\ (Tracked \subseteq DOMAIN exact)'
<1> USE DEF local, history, EvictionInv, Tracked
<1>1. CASE ClockTick
  BY <1>1 DEF ClockTick, EvictionInvisible, StoreTypeOK
<1>2. ASSUME NEW k \in Bucket, Observe(k) PROVE Goal
  BY <1>2 DEF Observe, EvictionInvisible
<1>3. ASSUME NEW k \in Bucket, NEW g \in Limiter, ChangeTier(k, g) PROVE Goal
  BY <1>3 DEF ChangeTier, EvictionInvisible
<1>4. ASSUME NEW p \in Caller, NEW k \in Bucket, Read(p, k) PROVE Goal
  BY <1>4 DEF Read, EvictionInvisible
<1>5. ASSUME NEW p \in Caller, NEW k \in Bucket, EvictKey(p, k) PROVE Goal
  <2>1. /\ UNCHANGED <<exact, clock>>
        /\ \/ tats' = tats
           \/ k \in Tracked /\ tats[k] <= now[p] /\ tats' = Dropped(tats, k)
    BY <1>5 DEF EvictKey, Drained
  <2>2. now[p] <= clock /\ now[p] \in Nat /\ clock \in Nat
    BY <1>5 DEF EvictKey, LagBound, StoreTypeOK
  <2>3. k \in Tracked => tats[k] \in Nat
    BY DEF StoreTypeOK
  <2> QED
    BY <2>1, <2>2, <2>3 DEF EvictionInvisible, Dropped
<1>6. ASSUME NEW p \in Caller, LoadSweep(p) PROVE Goal
  BY <1>6 DEF LoadSweep, EvictionInvisible
<1>7. ASSUME NEW p \in Caller, ClaimSweep(p) PROVE Goal
  BY <1>7 DEF ClaimSweep, EvictionInvisible
<1>8. ASSUME NEW p \in Caller, SweepEnd(p) PROVE Goal
  BY <1>8 DEF SweepEnd, EvictionInvisible
<1>9. ASSUME NEW p \in Caller, Charge(p) PROVE Goal
  <2> DEFINE k == bucket[p]  t == now[p]  g == tier[k]
             a == Start(tats, k, t)  b == Start(exact, k, t)
  <2>1. /\ k \in Bucket /\ t \in Nat /\ a \in Nat /\ b \in Nat
        /\ g.interval \in Nat /\ g.tau \in Nat
        /\ \/ t + g.tau >= a /\ tats' = Updated(tats, k, Larger(a, t) + g.interval)
           \/ ~(t + g.tau >= a) /\ tats' = tats
        /\ \/ t + g.tau >= b /\ exact' = Updated(exact, k, Larger(b, t) + g.interval)
           \/ ~(t + g.tau >= b) /\ exact' = exact
    BY <1>9, ChargeEffect
  <2>2. t = clock /\ clock' = clock
    BY <1>9 DEF Charge, LagBound, StoreTypeOK
  <2>3. \/ a = b
        \/ k \notin Tracked /\ a = t /\ b <= t
    BY <2>1, <2>2 DEF Start, EvictionInvisible
  <2> HIDE DEF k, t, g, a, b
  <2>4. Larger(a, t) = Larger(b, t)
    BY <2>1, <2>3 DEF Larger
  <2>5. t + g.tau >= a <=> t + g.tau >= b
    BY <2>1, <2>3
  <2>6. CASE t + g.tau >= a
    <3>1. /\ tats' = Updated(tats, k, Larger(a, t) + g.interval)
          /\ exact' = Updated(exact, k, Larger(a, t) + g.interval)
      BY <2>1, <2>4, <2>5, <2>6
    <3> QED
      BY <2>2, <3>1 DEF EvictionInvisible, Updated
  <2>7. CASE ~(t + g.tau >= a)
    BY <2>1, <2>2, <2>5, <2>7 DEF EvictionInvisible
  <2> QED
    BY <2>6, <2>7
<1>10. CASE UNCHANGED storeVars
  BY <1>10 DEF storeVars, EvictionInvisible
<1> QED
  BY <1>1, <1>2, <1>3, <1>4, <1>5, <1>6, <1>7, <1>8, <1>9, <1>10 DEF StoreNext

\* When every request reads the clock and updates its key at one instant,
\* evict_drained never changes what the store would answer.
THEOREM EvictionTransparent ==
  ASSUME MaxLag = 0
  PROVE  StoreSpec => []EvictionInvisible
<1>1. StoreInit => EvictionInv
  BY TypeInit, RateInit DEF StoreInit, EvictionInv, EvictionInvisible, RateInv, Tracked
<1>2. EvictionInv /\ [StoreNext]_storeVars => EvictionInv'
  BY TypeStep, LagStep, EvictionStep DEF EvictionInv
<1>3. EvictionInv => EvictionInvisible
  BY DEF EvictionInv
<1> QED
  BY <1>1, <1>2, <1>3, PTL DEF StoreSpec

-----------------------------------------------------------------------------
\* A request about to claim a sweep found it due at its own reading.
ClaimIsDue ==
  \A p \in Caller : at[p] = "claim" =>
    now[p] >= last[p] + Smaller(SweepIntervalMs, HwSweepMin)

\* A request about to claim a sweep in maybe_sweep read a clock past the spacing.
LEMMA ClaimStep == StoreTypeOK /\ ClaimIsDue /\ [StoreNext]_storeVars => ClaimIsDue'
<1> SUFFICES ASSUME StoreTypeOK, ClaimIsDue, [StoreNext]_storeVars PROVE ClaimIsDue'
  OBVIOUS
<1> USE DEF StoreTypeOK, ClaimIsDue, local, history
<1>1. CASE ClockTick
  BY <1>1 DEF ClockTick
<1>2. ASSUME NEW k \in Bucket, Observe(k) PROVE ClaimIsDue'
  BY <1>2 DEF Observe
<1>3. ASSUME NEW k \in Bucket, NEW g \in Limiter, ChangeTier(k, g) PROVE ClaimIsDue'
  BY <1>3 DEF ChangeTier
<1>4. ASSUME NEW p \in Caller, NEW k \in Bucket, Read(p, k) PROVE ClaimIsDue'
  BY <1>4 DEF Read
<1>5. ASSUME NEW p \in Caller, NEW k \in Bucket, EvictKey(p, k) PROVE ClaimIsDue'
  BY <1>5 DEF EvictKey
<1>6. ASSUME NEW p \in Caller, LoadSweep(p) PROVE ClaimIsDue'
  <2>1. SweepDue(now[p], lastSweep) =>
          now[p] >= lastSweep + Smaller(SweepIntervalMs, HwSweepMin)
    BY GcraStoreAssumption DEF SweepDue, SatSub, Smaller
  <2> QED
    BY <1>6, <2>1 DEF LoadSweep
<1>7. ASSUME NEW p \in Caller, ClaimSweep(p) PROVE ClaimIsDue'
  BY <1>7 DEF ClaimSweep
<1>8. ASSUME NEW p \in Caller, SweepEnd(p) PROVE ClaimIsDue'
  BY <1>8 DEF SweepEnd
<1>9. ASSUME NEW p \in Caller, Charge(p) PROVE ClaimIsDue'
  BY <1>9 DEF Charge
<1>10. CASE UNCHANGED storeVars
  BY <1>10 DEF storeVars
<1> QED
  BY <1>1, <1>2, <1>3, <1>4, <1>5, <1>6, <1>7, <1>8, <1>9, <1>10 DEF StoreNext

\* However many requests find a sweep due at once, maybe_sweep lets one
\* through per spacing.
THEOREM SweepsSpaced == StoreSpec => SweepThrottled
<1> DEFINE Spaced == lastSweep' # lastSweep =>
                       lastSweep' >= lastSweep + Smaller(SweepIntervalMs, HwSweepMin)
<1>1. StoreInit => StoreTypeOK /\ ClaimIsDue
  BY TypeInit DEF StoreInit, ClaimIsDue
<1>2. StoreTypeOK /\ ClaimIsDue /\ [StoreNext]_storeVars => StoreTypeOK' /\ ClaimIsDue'
  BY TypeStep, ClaimStep
<1>3. StoreTypeOK /\ ClaimIsDue /\ [StoreNext]_storeVars => [Spaced]_lastSweep
  <2> SUFFICES ASSUME StoreTypeOK, ClaimIsDue, [StoreNext]_storeVars, lastSweep' # lastSweep
               PROVE  Spaced
    OBVIOUS
  <2>1. PICK p \in Caller : ClaimSweep(p)
    BY DEF StoreNext, ClockTick, Observe, ChangeTier, Read, EvictKey, LoadSweep, SweepEnd,
           Charge, storeVars
  <2> QED
    BY <2>1 DEF ClaimSweep, ClaimIsDue
<1> QED
  BY <1>1, <1>2, <1>3, PTL DEF StoreSpec, SweepThrottled

-----------------------------------------------------------------------------
\* Floor division: the quotient is the one that brackets the dividend.
LEMMA DivBrackets ==
  ASSUME NEW s \in Nat, NEW d \in Nat \ {0}
  PROVE  /\ s \div d \in Nat
         /\ (s \div d) * d <= s
         /\ s < (s \div d) * d + d
  BY Z3T(30)

\* The quotient check computes for `remaining` is the only one that fits.
LEMMA DivUnique ==
  ASSUME NEW s \in Nat, NEW d \in Nat \ {0}, NEW q \in Nat,
         q * d <= s, s < q * d + d
  PROVE  s \div d = q
<1> DEFINE r == s \div d
<1>1. r \in Nat /\ r * d <= s /\ s < r * d + d
  BY DivBrackets
<1> HIDE DEF r
<1>2. ASSUME r < q PROVE FALSE
  <2>1. (r + 1) * d <= q * d
    BY <1>1, <1>2
  <2>2. (r + 1) * d = r * d + d
    BY <1>1
  <2> QED
    BY <1>1, <2>1, <2>2
<1>3. ASSUME q < r PROVE FALSE
  <2>1. (q + 1) * d <= r * d
    BY <1>1, <1>3
  <2>2. (q + 1) * d = q * d + d
    OBVIOUS
  <2> QED
    BY <1>1, <2>1, <2>2
<1>4. r = q
  BY <1>1, <1>2, <1>3
<1> QED
  BY <1>4 DEF r

\* Taking one divisor off the dividend takes one off the quotient.
LEMMA DivStep ==
  ASSUME NEW s \in Nat, NEW d \in Nat \ {0}, s >= d
  PROVE  (s - d) \div d = s \div d - 1 /\ s \div d >= 1
<1> DEFINE r == s \div d
<1>1. r \in Nat /\ r * d <= s /\ s < r * d + d
  BY DivBrackets
<1> HIDE DEF r
<1>2. r # 0
  BY <1>1
<1>3. (r - 1) * d = r * d - d
  BY <1>1
<1>4. (s - d) \div d = r - 1
  BY <1>1, <1>2, <1>3, DivUnique
<1> QED
  BY <1>1, <1>2, <1>4 DEF r

\* What from_profile guarantees of every limiter.
LEMMA LimiterShape ==
  ASSUME NEW g \in Limiter
  PROVE  /\ g.interval \in Nat \ {0} /\ g.tau \in Nat /\ g.burst \in Nat \ {0}
         /\ g.tau = g.interval * (g.burst - 1)
  BY LimiterAssumption

\* A product of naturals grows with its first factor.
LEMMA ProductOrder ==
  ASSUME NEW a \in Nat, NEW b \in Nat, NEW d \in Nat \ {0}
  PROVE  a * d < b * d <=> a < b
<1>1. a < b => a * d < b * d
  <2>1. HAVE a < b
  <2>2. PICK c \in Nat \ {0} : b = a + c
    <3>1. b - a \in Nat \ {0} /\ b = a + (b - a)
      BY <2>1
    <3> QED
      BY <3>1
  <2>3. b * d = a * d + c * d /\ c * d > 0 /\ a * d \in Nat
    BY <2>2
  <2> QED
    BY <2>3
<1>2. b <= a => b * d <= a * d
  <2>1. HAVE b <= a
  <2>2. PICK c \in Nat : a = b + c
    <3>1. a - b \in Nat /\ a = b + (a - b)
      BY <2>1
    <3> QED
      BY <3>1
  <2>3. a * d = b * d + c * d /\ c * d >= 0 /\ b * d \in Nat
    BY <2>2
  <2> QED
    BY <2>3
<1>3. a * d \in Nat /\ b * d \in Nat
  OBVIOUS
<1> QED
  BY <1>1, <1>2, <1>3

\* A drained key has a full bucket.
LEMMA FullBucket ==
  ASSUME NEW g \in Limiter, NEW tat \in Nat, NEW t \in Nat, tat <= t
  PROVE  Admissible(g, tat, t) = g.burst
<1> DEFINE d == g.interval  s == (t + g.tau) - tat  q == s \div d
<1>1. d \in Nat \ {0} /\ g.tau \in Nat /\ g.burst \in Nat \ {0} /\ g.tau = d * (g.burst - 1)
  BY LimiterShape
<1>2. s \in Nat /\ s >= g.tau
  BY <1>1
<1>3. Admissible(g, tat, t) = Smaller(1 + q, g.burst)
  BY <1>1 DEF Admissible
<1> HIDE DEF s, d
<1>4. q \in Nat /\ s < q * d + d
  BY <1>1, <1>2, DivBrackets
<1> HIDE DEF q
<1>5. (g.burst - 1) * d < (q + 1) * d
  <2>1. (q + 1) * d = q * d + d /\ (g.burst - 1) * d = g.tau /\ q * d \in Nat
    BY <1>1, <1>4
  <2> QED
    BY <1>1, <1>2, <1>4, <2>1
<1>6. g.burst - 1 < q + 1
  BY <1>1, <1>4, <1>5, ProductOrder
<1> QED
  BY <1>1, <1>3, <1>4, <1>6 DEF Smaller

\* Admitting a request leaves room for exactly one fewer at that instant.
LEMMA OneFewer ==
  ASSUME NEW g \in Limiter, NEW tat \in Nat, NEW t \in Nat, t + g.tau >= tat
  PROVE  Admissible(g, Larger(tat, t) + g.interval, t) = Admissible(g, tat, t) - 1
<1> DEFINE d == g.interval
<1>1. d \in Nat \ {0} /\ g.tau \in Nat /\ g.burst \in Nat \ {0} /\ g.tau = d * (g.burst - 1)
  BY LimiterShape
<1>2. CASE tat <= t
  <2>1. Admissible(g, tat, t) = g.burst
    BY <1>2, FullBucket
  <2>2. Larger(tat, t) = t
    BY <1>2 DEF Larger
  <2>3. CASE g.burst = 1
    <3>1. g.tau = 0
      BY <1>1, <2>3
    <3>2. Admissible(g, t + d, t) = 0
      BY <1>1, <3>1 DEF Admissible
    <3> QED
      BY <2>1, <2>2, <2>3, <3>2
  <2>4. CASE g.burst # 1
    <3> DEFINE m == g.burst - 2
    <3>1. m \in Nat /\ g.tau = m * d + d /\ m * d \in Nat
      BY <1>1, <2>4
    <3>2. (t + g.tau) - (t + d) = m * d /\ t + g.tau >= t + d
      BY <1>1, <3>1
    <3>3. (m * d) \div d = m
      BY <1>1, <3>1, DivUnique
    <3>4. Admissible(g, t + d, t) = Smaller(1 + m, g.burst)
      BY <3>2, <3>3 DEF Admissible
    <3> QED
      BY <1>1, <2>1, <2>2, <3>4 DEF Smaller
  <2> QED
    BY <2>3, <2>4
<1>3. CASE tat > t
  <2> DEFINE s == (t + g.tau) - tat  q == s \div d
  <2>1. s \in Nat /\ s < g.tau
    BY <1>1, <1>3
  <2>2. Larger(tat, t) = tat
    BY <1>3 DEF Larger
  <2>3. Admissible(g, tat, t) = Smaller(1 + q, g.burst)
    BY DEF Admissible
  <2>4. (t + g.tau) - (tat + d) = s - d /\ (t + g.tau >= tat + d <=> s >= d)
    BY <1>1
  <2>5. Admissible(g, tat + d, t) =
          IF s >= d THEN Smaller(1 + (s - d) \div d, g.burst) ELSE 0
    BY <2>4 DEF Admissible
  <2> HIDE DEF s, d
  <2>6. q \in Nat /\ q * d <= s /\ s < q * d + d
    BY <1>1, <2>1, DivBrackets
  <2>7. CASE s >= d
    <3>1. (s - d) \div d = q - 1 /\ q >= 1
      BY <1>1, <2>1, <2>7, DivStep
    <3> HIDE DEF q
    <3>2. q * d < (g.burst - 1) * d
      <4>1. (g.burst - 1) * d = g.tau /\ q * d \in Nat
        BY <1>1, <2>6
      <4> QED
        BY <1>1, <2>1, <2>6, <4>1
    <3>3. q < g.burst - 1
      BY <1>1, <2>6, <3>2, ProductOrder
    <3>4. Admissible(g, tat + d, t) = Smaller(1 + (q - 1), g.burst)
      BY <2>5, <2>7, <3>1
    <3> QED
      BY <1>1, <2>2, <2>3, <2>6, <3>1, <3>3, <3>4 DEF Smaller, d
  <2>8. CASE ~(s >= d)
    <3>1. q = 0
      BY <1>1, <2>1, <2>8, DivUnique
    <3> QED
      BY <1>1, <2>2, <2>3, <2>5, <2>8, <3>1 DEF Smaller, d
  <2> QED
    BY <2>7, <2>8
<1> QED
  BY <1>2, <1>3

\* What the headers report of a key is what the next checks of it find: the
\* retry delay is exact, `remaining` counts down by one per admitted request
\* and `reset_after` is when the bucket is full again (Gcra::check).
THEOREM VerdictsTruthful == StoreSpec => []VerdictTruthful
<1>1. StoreTypeOK => VerdictTruthful
  <2> SUFFICES ASSUME StoreTypeOK, NEW k \in Tracked
               PROVE  LET g == tier[k]
                          v == Check(g, tats[k], clock)
                          Later(e) == Check(g, v.new_tat, clock + e)
                      IN  /\ ~v.allowed => /\ Later(v.retry_after).allowed
                                           /\ ~Later(v.retry_after - 1).allowed
                          /\ v.allowed => Admissible(g, v.new_tat, clock) = v.remaining
                          /\ Later(v.reset_after).remaining = g.burst - 1
    BY DEF VerdictTruthful
  <2> DEFINE g == tier[k]  a == tats[k]  t == clock  v == Check(g, a, t)
             Later(e) == Check(g, v.new_tat, t + e)
  <2>1. g \in Limiter /\ a \in Nat /\ t \in Nat
    BY DEF StoreTypeOK, Tracked
  <2> HIDE DEF g, a, t
  <2>2. g.interval \in Nat \ {0} /\ g.tau \in Nat /\ g.burst \in Nat \ {0}
    BY <2>1, LimiterShape
  <2>3. CASE t + g.tau >= a
    <3>1. v.allowed /\ v.new_tat = Larger(a, t) + g.interval
      BY <2>1, <2>3, CheckVerdict
    <3>2. v.remaining = Admissible(g, a, t) - 1 /\ v.reset_after = SatSub(v.new_tat, t)
      BY <3>1 DEF Check
    <3>3. Admissible(g, v.new_tat, t) = v.remaining
      BY <2>1, <2>3, <3>1, <3>2, OneFewer
    <3>4. v.new_tat \in Nat /\ t + v.reset_after = v.new_tat
      BY <2>1, <2>2, <3>1, <3>2 DEF SatSub, Larger
    <3>5. Admissible(g, v.new_tat, v.new_tat) = g.burst
      BY <2>1, <3>4, FullBucket
    <3>6. Later(v.reset_after).remaining = g.burst - 1
      BY <2>2, <3>4, <3>5 DEF Check
    <3> QED
      BY <3>1, <3>3, <3>6 DEF g, a, t
  <2>4. CASE ~(t + g.tau >= a)
    <3>1. ~v.allowed
      BY <2>1, <2>4, CheckVerdict
    <3>2. /\ v.new_tat = a /\ v.retry_after = SatSub(SatSub(a, g.tau), t)
          /\ v.reset_after = SatSub(a, t)
      BY <3>1 DEF Check
    <3>3. /\ v.retry_after \in Nat \ {0} /\ t + v.retry_after + g.tau = a
          /\ t + v.reset_after = a
      BY <2>1, <2>2, <2>4, <3>2 DEF SatSub
    <3> HIDE DEF v
    <3>4. Later(v.retry_after).allowed
      BY <2>1, <2>2, <3>2, <3>3, CheckVerdict
    <3>5. ~Later(v.retry_after - 1).allowed
      <4>1. t + (v.retry_after - 1) \in Nat /\ ~(t + (v.retry_after - 1) + g.tau >= a)
        BY <2>1, <2>2, <3>3
      <4> QED
        BY <2>1, <3>2, <4>1, CheckVerdict
    <3>6. Admissible(g, a, a) = g.burst
      BY <2>1, FullBucket
    <3>7. Later(v.reset_after).remaining = g.burst - 1
      BY <2>2, <3>2, <3>3, <3>6 DEF Check
    <3> QED
      BY <3>1, <3>4, <3>5, <3>7 DEF g, a, t, v
  <2> QED
    BY <2>3, <2>4 DEF g, a, t
<1> QED
  BY <1>1, TypeCorrect, PTL
=============================================================================
