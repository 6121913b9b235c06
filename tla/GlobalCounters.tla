--------------------------- MODULE GlobalCounters ---------------------------
(***************************************************************************)
(* The fleet-wide rate-limit view of shield/global.rs: several instances   *)
(* count their admits per key and per window epoch, a background pass of   *)
(* each instance claims the counts, pushes them to a shared store and      *)
(* reads the fleet's totals back.  Requests gate and record under the      *)
(* key's lock, but read the clock before it; a pass holds no lock across   *)
(* its calls to the store, which may fail or commit without an answer.     *)
(***************************************************************************)
EXTENDS Naturals, FiniteSets

CONSTANTS
  Inst,         \* proxy instances
  Key,          \* limited identities
  Req,          \* requests under way at once
  Window,       \* window lengths, in seconds, a resolved tier can have
  Budget,       \* the sustained rate, fleet-wide
  MaxKeys,      \* MAX_KEYS
  StaleAfter,   \* age at which an estimate is ignored
  KeyTtl,       \* KEY_TTL
  StartClock,   \* wall clock when the fleet starts
  MaxClock,     \* bound: the wall clock stops here
  MaxArrivals,  \* bound: requests that arrive
  PushFails,    \* may a push fail or go unanswered
  StaleReads,   \* may a window boundary pass between a request's clock
                \* reading and its update
  SlowPasses    \* may a boundary pass while carried-over admits wait

ASSUME GlobalAssumption ==
  /\ Window \subseteq Nat \ {0}
  /\ Budget \in Nat /\ MaxKeys \in Nat /\ StaleAfter \in Nat /\ KeyTtl \in Nat
  /\ StartClock \in Nat /\ MaxClock \in Nat /\ StartClock <= MaxClock
  /\ MaxArrivals \in Nat
  /\ PushFails \in BOOLEAN /\ StaleReads \in BOOLEAN /\ SlowPasses \in BOOLEAN

Epoch == 0..MaxClock

\* window::epoch, window::elapsed_in_window.
EpochAt(t, w) == t \div w
ElapsedInWindow(t, w) == t % w

\* window::sliding_estimate, rounded up as apply_estimates does.
SlidingEstimate(cur, prev, elapsed, w) ==
  cur + (prev * (w - elapsed) + w - 1) \div w

VARIABLES
  clock,      \* wall clock, seconds, shared by the fleet
  arrivals,   \* requests that have arrived
  states,     \* states[i][k]: the KeyState of k at instance i
  req,        \* the requests under way
  pass,       \* the reconcile pass of each instance
  plans,      \* plans[i][k]: what the pass of i claimed of k
  reads,      \* reads[i][k]: <<current, previous>> counts the pass read
  store,      \* store[k][e]: the shared counter of k in epoch e
  expires,    \* when that counter expires
  recorded,   \* history: admits instance i recorded for k in epoch e
  published   \* history: admits instance i added to the store

vars == <<clock, arrivals, states, req, pass, plans, reads, store, expires,
          recorded, published>>

NoState ==
  [tracked |-> FALSE, epoch |-> 0, window |-> 1, local_count |-> 0, carryover |-> 0,
   carryover_epoch |-> 0, remote_estimate |-> 0, estimate_at |-> 0, last_seen |-> 0,
   seen_since_tick |-> FALSE]

\* KeyState::new.
NewState(ep, w) ==
  [NoState EXCEPT !.tracked = TRUE, !.epoch = ep, !.window = w,
                  !.estimate_at = clock, !.last_seen = clock,
                  !.seen_since_tick = TRUE]

\* KeyState::roll_to.
RollTo(s, ep) ==
  LET replaced == s.carryover > 0 /\ s.carryover_epoch # s.epoch
      owed == IF replaced THEN s.local_count ELSE s.carryover + s.local_count
  IN  IF s.epoch = ep THEN s
      ELSE IF s.local_count = 0 THEN [s EXCEPT !.epoch = ep]
      ELSE [s EXCEPT !.epoch = ep, !.local_count = 0,
                     !.carryover = owed, !.carryover_epoch = s.epoch]

\* state_for: the entry it returns for an entry `s`, window `w` and a clock
\* reading `t`: created, reset on a window change, rolled and stamped.
StateFor(s, w, t) ==
  LET ep == EpochAt(t, w)
      entry == IF s.tracked /\ s.window = w THEN s ELSE NewState(ep, w)
  IN  [RollTo(entry, ep) EXCEPT !.last_seen = clock, !.seen_since_tick = TRUE]

\* state_for reads the clock and the map's size before it takes the lock.
OverCap(i) == Cardinality({k \in Key : states[i][k].tracked}) >= MaxKeys
NoReq == [pc |-> "idle"]
Reading(pc, i, k, w) ==
  [pc |-> pc, inst |-> i, key |-> k, window |-> w, now |-> clock, over |-> OverCap(i)]

\* A new key past the cap is not tracked.
Tracks(q) == states[q.inst][q.key].tracked \/ ~q.over

NoPlan ==
  [active |-> FALSE, push_epoch |-> 0, delta |-> 0, carry_epoch |-> 0, carry |-> 0,
   read_epoch |-> 0, window |-> 1]
IdlePass == [pc |-> "idle", now |-> 0, todo |-> {}]

Init ==
  /\ clock = StartClock /\ arrivals = 0
  /\ states = [i \in Inst |-> [k \in Key |-> NoState]]
  /\ req = [r \in Req |-> NoReq]
  /\ pass = [i \in Inst |-> IdlePass]
  /\ plans = [i \in Inst |-> [k \in Key |-> NoPlan]]
  /\ reads = [i \in Inst |-> [k \in Key |-> <<0, 0>>]]
  /\ store = [k \in Key |-> [e \in Epoch |-> 0]]
  /\ expires = [k \in Key |-> [e \in Epoch |-> 0]]
  /\ recorded = [i \in Inst |-> [k \in Key |-> [e \in Epoch |-> 0]]]
  /\ published = [i \in Inst |-> [k \in Key |-> [e \in Epoch |-> 0]]]

\* Time passes.  A counter of the store is gone once its TTL is over.
Tick ==
  /\ clock < MaxClock
  /\ clock' = clock + 1
  /\ StaleReads \/ \A r \in Req : req[r].pc \in {"idle", "local"}
  /\ SlowPasses \/ \A i \in Inst, k \in Key : states[i][k].carryover = 0
  /\ store' = [k \in Key |-> [e \in Epoch |->
                 IF expires[k][e] <= clock' THEN 0 ELSE store[k][e]]]
  /\ UNCHANGED <<arrivals, states, req, pass, plans, reads, expires, recorded, published>>

-----------------------------------------------------------------------------
\* The request path: Shield::charge.

\* A request for `k` under a tier of window `w` reaches the gate of `i`.
Arrive(r, i, k, w) ==
  /\ req[r].pc = "idle" /\ arrivals < MaxArrivals
  /\ arrivals' = arrivals + 1
  /\ req' = [req EXCEPT ![r] = Reading("gate", i, k, w)]
  /\ UNCHANGED <<clock, states, pass, plans, reads, store, expires, recorded, published>>

\* fleet_remaining: what is left of the budget for an entry.
FleetRemaining(s) ==
  LET remote == IF clock - s.estimate_at < StaleAfter THEN s.remote_estimate ELSE 0
      used == remote + s.local_count + s.carryover
  IN  IF Budget >= used THEN Budget - used ELSE 0

\* The fleet gate, under the key's lock.
Gate(r) ==
  LET q == req[r]
      s == StateFor(states[q.inst][q.key], q.window, q.now)
      left == IF Tracks(q) THEN FleetRemaining(s) ELSE Budget
  IN /\ q.pc = "gate"
     /\ states' = IF Tracks(q) THEN [states EXCEPT ![q.inst][q.key] = s] ELSE states
     /\ req' = [req EXCEPT ![r] = IF left = 0 THEN NoReq ELSE [q EXCEPT !.pc = "local"]]
     /\ UNCHANGED <<clock, arrivals, pass, plans, reads, store, expires, recorded, published>>

\* GcraStore::check turns the request away, or admits it; `record` then reads
\* the clock again.
LocalReject(r) ==
  /\ req[r].pc = "local"
  /\ req' = [req EXCEPT ![r] = NoReq]
  /\ UNCHANGED <<clock, arrivals, states, pass, plans, reads, store, expires, recorded, published>>

LocalAdmit(r) ==
  LET q == req[r]
  IN /\ q.pc = "local"
     /\ req' = [req EXCEPT ![r] = Reading("record", q.inst, q.key, q.window)]
     /\ UNCHANGED <<clock, arrivals, states, pass, plans, reads, store, expires,
                    recorded, published>>

\* record, under the key's lock.
Record(r) ==
  LET q == req[r]
      s == StateFor(states[q.inst][q.key], q.window, q.now)
  IN /\ q.pc = "record"
     /\ req' = [req EXCEPT ![r] = NoReq]
     /\ IF Tracks(q)
        THEN /\ states' = [states EXCEPT ![q.inst][q.key] = [s EXCEPT !.local_count = @ + 1]]
             /\ recorded' = [recorded EXCEPT ![q.inst][q.key][s.epoch] = @ + 1]
        ELSE UNCHANGED <<states, recorded>>
     /\ UNCHANGED <<clock, arrivals, pass, plans, reads, store, expires, published>>

-----------------------------------------------------------------------------
\* The reconcile pass of an instance.

\* evict_stale: an idle entry with nothing unpublished.
Evictable(s) ==
  /\ s.local_count = 0 /\ s.carryover = 0
  /\ clock - s.last_seen >= (IF KeyTtl >= 2 * s.window THEN KeyTtl ELSE 2 * s.window)

\* reconcile: the pass reads the clock, evicts, and lists the keys to claim.
StartPass(i) ==
  LET kept == [k \in Key |-> IF Evictable(states[i][k]) THEN NoState ELSE states[i][k]]
  IN /\ pass[i].pc = "idle"
     /\ states' = [states EXCEPT ![i] = kept]
     /\ pass' = [pass EXCEPT ![i] = [pc |-> "claim", now |-> clock,
                                     todo |-> {k \in Key : kept[k].tracked}]]
     /\ UNCHANGED <<clock, arrivals, req, plans, reads, store, expires, recorded, published>>

\* Fault: only the current epoch's count is claimed.
ClaimKeyDelta(i, k) ==
  LET s == states[i][k]
  IN /\ pass[i].pc = "claim" /\ k \in pass[i].todo
     /\ pass' = [pass EXCEPT ![i].todo = @ \ {k}]
     /\ states' = [states EXCEPT ![i][k].seen_since_tick = FALSE, ![i][k].local_count = 0]
     /\ plans' = [plans EXCEPT ![i][k] =
          [NoPlan EXCEPT !.active = TRUE, !.push_epoch = s.epoch, !.delta = s.local_count,
                         !.read_epoch = EpochAt(pass[i].now, s.window), !.window = s.window]]
     /\ UNCHANGED <<clock, arrivals, req, reads, store, expires, recorded, published>>

\* claim_plans, for one key under its lock.
ClaimKey(i, k) ==
  LET s == states[i][k]
      active == s.local_count > 0 \/ s.carryover > 0 \/ s.seen_since_tick
  IN /\ pass[i].pc = "claim" /\ k \in pass[i].todo
     /\ pass' = [pass EXCEPT ![i].todo = @ \ {k}]
     /\ states' = [states EXCEPT ![i][k].seen_since_tick = FALSE,
                                 ![i][k].local_count = 0, ![i][k].carryover = 0]
     /\ plans' = [plans EXCEPT ![i][k] =
          IF active
          THEN [active |-> TRUE, push_epoch |-> s.epoch, delta |-> s.local_count,
                carry_epoch |-> s.carryover_epoch, carry |-> s.carryover,
                read_epoch |-> EpochAt(pass[i].now, s.window), window |-> s.window]
          ELSE NoPlan]
     /\ UNCHANGED <<clock, arrivals, req, reads, store, expires, recorded, published>>

Planned(i) == {k \in Key : plans[i][k].active}

\* With nothing planned the pass is over.
ClaimsDone(i) ==
  /\ pass[i].pc = "claim" /\ pass[i].todo = {}
  /\ pass' = [pass EXCEPT ![i] = IF Planned(i) = {} THEN IdlePass ELSE [@ EXCEPT !.pc = "push"]]
  /\ UNCHANGED <<clock, arrivals, states, req, plans, reads, store, expires, recorded, published>>

\* What a plan owes to epoch `e`.
Owed(p, e) ==
  (IF p.push_epoch = e THEN p.delta ELSE 0) + (IF p.carry_epoch = e THEN p.carry ELSE 0)
Pushed(p) == [p EXCEPT !.delta = 0, !.carry = 0]

\* push_deltas commits: one transaction adds every claimed delta and re-arms
\* the counters' TTL; nothing of the plans is left to push.
Commit(i) ==
  LET owed == [k \in Key |-> [e \in Epoch |-> Owed(plans[i][k], e)]]
  IN /\ store' = [k \in Key |-> [e \in Epoch |-> store[k][e] + owed[k][e]]]
     /\ expires' = [k \in Key |-> [e \in Epoch |->
                      IF owed[k][e] > 0 THEN clock + 2 * plans[i][k].window ELSE expires[k][e]]]
     /\ published' = [published EXCEPT ![i] =
                        [k \in Key |-> [e \in Epoch |-> @[k][e] + owed[k][e]]]]

\* The push is answered; the pass reads the totals next.
Push(i) ==
  /\ pass[i].pc = "push"
  /\ Commit(i)
  /\ plans' = [plans EXCEPT ![i] = [k \in Key |-> Pushed(plans[i][k])]]
  /\ pass' = [pass EXCEPT ![i].pc = "read"]
  /\ UNCHANGED <<clock, arrivals, states, req, reads, recorded>>

\* Fault: a push without an answer restores its claims for the next pass.
PushFailRestores(i) ==
  /\ PushFails /\ pass[i].pc = "push"
  /\ Commit(i) \/ UNCHANGED <<store, expires, published>>
  /\ states' = [states EXCEPT ![i] = [k \in Key |->
                  [@[k] EXCEPT !.local_count = @ + plans[i][k].delta]]]
  /\ plans' = [plans EXCEPT ![i] = [k \in Key |-> NoPlan]]
  /\ pass' = [pass EXCEPT ![i] = IdlePass]
  /\ UNCHANGED <<clock, arrivals, req, reads, recorded>>

\* No connection, a failed transaction, or one that committed and was never
\* answered: the pass ends and the claims are not restored.
PushFail(i) ==
  /\ PushFails /\ pass[i].pc = "push"
  /\ Commit(i) \/ UNCHANGED <<store, expires, published>>
  /\ plans' = [plans EXCEPT ![i] = [k \in Key |-> NoPlan]]
  /\ pass' = [pass EXCEPT ![i] = IdlePass]
  /\ UNCHANGED <<clock, arrivals, states, req, reads, recorded>>

\* read_epochs: one MGET of the current and previous counts, or its failure.
ReadTotals(i) ==
  /\ pass[i].pc = "read"
  /\ reads' = [reads EXCEPT ![i] = [k \in Key |->
                 LET e == plans[i][k].read_epoch
                 IN <<store[k][e], store[k][IF e > 0 THEN e - 1 ELSE 0]>>]]
  /\ pass' = [pass EXCEPT ![i].pc = "apply", ![i].todo = Planned(i)]
  /\ UNCHANGED <<clock, arrivals, states, req, plans, store, expires, recorded, published>>

ReadFail(i) ==
  /\ PushFails /\ pass[i].pc = "read"
  /\ pass' = [pass EXCEPT ![i] = IdlePass]
  /\ plans' = [plans EXCEPT ![i] = [k \in Key |-> NoPlan]]
  /\ UNCHANGED <<clock, arrivals, states, req, reads, store, expires, recorded, published>>

\* Fault: the window the totals were read for is not looked at again.
ApplyKeyAnyWindow(i, k) ==
  LET s == states[i][k]
      p == plans[i][k]
      est == SlidingEstimate(reads[i][k][1], reads[i][k][2],
                             ElapsedInWindow(pass[i].now, p.window), p.window)
  IN /\ pass[i].pc = "apply" /\ k \in pass[i].todo
     /\ pass' = [pass EXCEPT ![i].todo = @ \ {k}]
     /\ states' = IF s.tracked /\ s.epoch <= p.read_epoch
                  THEN [states EXCEPT ![i][k].remote_estimate = est,
                                      ![i][k].estimate_at = clock]
                  ELSE states
     /\ UNCHANGED <<clock, arrivals, req, plans, reads, store, expires, recorded, published>>

\* apply_estimates, for one key under its lock: an entry that has gone, was
\* reset to another window or rolled past the read epoch keeps its estimate.
ApplyKey(i, k) ==
  LET s == states[i][k]
      p == plans[i][k]
      est == SlidingEstimate(reads[i][k][1], reads[i][k][2],
                             ElapsedInWindow(pass[i].now, p.window), p.window)
      current == s.tracked /\ s.window = p.window /\ s.epoch <= p.read_epoch
  IN /\ pass[i].pc = "apply" /\ k \in pass[i].todo
     /\ pass' = [pass EXCEPT ![i].todo = @ \ {k}]
     /\ states' = IF current
                  THEN [states EXCEPT ![i][k].remote_estimate = est,
                                      ![i][k].estimate_at = clock]
                  ELSE states
     /\ UNCHANGED <<clock, arrivals, req, plans, reads, store, expires, recorded, published>>

EndPass(i) ==
  /\ pass[i].pc = "apply" /\ pass[i].todo = {}
  /\ pass' = [pass EXCEPT ![i] = IdlePass]
  /\ plans' = [plans EXCEPT ![i] = [k \in Key |-> NoPlan]]
  /\ reads' = [reads EXCEPT ![i] = [k \in Key |-> <<0, 0>>]]
  /\ UNCHANGED <<clock, arrivals, states, req, store, expires, recorded, published>>

Next ==
  \/ Tick
  \/ \E r \in Req :
       \/ \E i \in Inst, k \in Key, w \in Window : Arrive(r, i, k, w)
       \/ Gate(r) \/ LocalReject(r) \/ LocalAdmit(r) \/ Record(r)
  \/ \E i \in Inst :
       \/ StartPass(i) \/ ClaimsDone(i) \/ Push(i) \/ PushFail(i)
       \/ ReadTotals(i) \/ ReadFail(i) \/ EndPass(i)
       \/ \E k \in Key : ClaimKey(i, k) \/ ApplyKey(i, k)

Spec == Init /\ [][Next]_vars

\* The background loop of `spawn` runs for ever: a pass starts on each tick of
\* its interval and takes its steps; the store answers or fails.
PassStep(i) ==
  \/ StartPass(i) \/ ClaimsDone(i) \/ Push(i) \/ ReadTotals(i) \/ EndPass(i)
  \/ \E k \in Key : ClaimKey(i, k) \/ ApplyKey(i, k)
FairSpec == Spec /\ \A i \in Inst : WF_vars(PassStep(i))

-----------------------------------------------------------------------------
KeyStates ==
  [tracked : BOOLEAN, epoch : Epoch, window : Nat \ {0}, local_count : Nat,
   carryover : Nat, carryover_epoch : Epoch, remote_estimate : Nat,
   estimate_at : Nat, last_seen : Nat, seen_since_tick : BOOLEAN]
Requests ==
  {NoReq} \cup
  [pc : {"gate", "local", "record"}, inst : Inst, key : Key, window : Window,
   now : 0..MaxClock, over : BOOLEAN]
Plans ==
  [active : BOOLEAN, push_epoch : Epoch, delta : Nat, carry_epoch : Epoch,
   carry : Nat, read_epoch : Epoch, window : Nat \ {0}]

\* Types: counts never wrap below zero, epochs stay those of a window of the
\* clock, and requests and passes are at one of their steps.
TypeOK ==
  /\ clock \in 0..MaxClock /\ arrivals \in Nat
  /\ states \in [Inst -> [Key -> KeyStates]]
  /\ req \in [Req -> Requests]
  /\ pass \in [Inst -> [pc : {"idle", "claim", "push", "read", "apply"},
                       now : 0..MaxClock, todo : SUBSET Key]]
  /\ plans \in [Inst -> [Key -> Plans]]
  /\ reads \in [Inst -> [Key -> Nat \X Nat]]
  /\ store \in [Key -> [Epoch -> Nat]] /\ expires \in [Key -> [Epoch -> Nat]]
  /\ recorded \in [Inst -> [Key -> [Epoch -> Nat]]]
  /\ published \in [Inst -> [Key -> [Epoch -> Nat]]]

\* Admits of epoch `e` an entry holds unclaimed, and all an instance has yet
\* to publish: unclaimed, or claimed by the pass under way.
Unclaimed(s, e) ==
  (IF s.epoch = e THEN s.local_count ELSE 0)
  + (IF s.carryover_epoch = e THEN s.carryover ELSE 0)
Pending(i, k, e) == Unclaimed(states[i][k], e) + Owed(plans[i][k], e)

\* The fleet layer's "never-double contract": whatever fails, rolls or races,
\* what an instance published of an epoch and may still publish never exceeds
\* what it admitted in that epoch.
NeverDoublePublished ==
  \A i \in Inst, k \in Key, e \in Epoch :
    published[i][k][e] + Pending(i, k, e) <= recorded[i][k][e]

\* Every admit reaches the store in the end, in the epoch it was recorded in:
\* none waits for ever, and none is lost between the entry, the plan and a push.
EventuallyPublished ==
  \A i \in Inst, k \in Key, e \in Epoch :
    (published[i][k][e] < recorded[i][k][e]) ~> (published[i][k][e] = recorded[i][k][e])

\* The overshoot comes from the other instances' traffic: an instance on its
\* own, serving one request at a time, stays within the budget.
LoneInstanceWithinBudget ==
  \A i \in Inst, k \in Key, e \in Epoch :
    Inst = {i} => recorded[i][k][e] <= Budget
=============================================================================
