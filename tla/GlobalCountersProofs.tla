------------------------ MODULE GlobalCountersProofs ------------------------
(***************************************************************************)
(* The fleet counters never publish an admit twice, for any fleet, any     *)
(* interleaving of requests and passes, and any failure of the store.      *)
(***************************************************************************)
EXTENDS GlobalCounters, TLAPS

\* An epoch index is never past the clock it was computed from.
LEMMA EpochTyped ==
  ASSUME NEW t \in 0..MaxClock, NEW w \in Nat \ {0}
  PROVE  EpochAt(t, w) \in Epoch
<1>1. t \in Nat /\ t <= MaxClock /\ MaxClock \in Nat
  BY GlobalAssumption
<1>2. t \div w \in Nat /\ t \div w <= t
  BY <1>1, Z3T(30)
<1> QED
  BY <1>1, <1>2 DEF EpochAt, Epoch

\* Zero is an epoch and a clock reading.
LEMMA ZeroEpoch == 0 \in Epoch /\ 0 \in 0..MaxClock
  BY GlobalAssumption DEF Epoch

\* An untracked key is well typed.
LEMMA NoStateTyped == NoState \in KeyStates
  BY ZeroEpoch DEF NoState, KeyStates

\* KeyState::new is well typed.
LEMMA NewStateTyped ==
  ASSUME NEW ep \in Epoch, NEW w \in Nat \ {0}, clock \in Nat
  PROVE  NewState(ep, w) \in KeyStates
  BY ZeroEpoch DEF NewState, NoState, KeyStates

\* Rolling an entry to another epoch keeps its unclaimed admits attributed to
\* the epoch they were admitted in, or drops them; it never adds any.
LEMMA RollToUnclaimed ==
  ASSUME NEW s \in KeyStates, NEW ep \in Epoch
  PROVE  /\ RollTo(s, ep) \in KeyStates /\ RollTo(s, ep).epoch = ep
         /\ \A e \in Epoch : Unclaimed(RollTo(s, ep), e) <= Unclaimed(s, e)
<1>1. /\ s.epoch \in Epoch /\ s.local_count \in Nat /\ s.carryover \in Nat
      /\ s.carryover_epoch \in Epoch
  BY DEF KeyStates
<1>2. CASE s.epoch = ep
  BY <1>1, <1>2 DEF RollTo, Unclaimed
<1>3. CASE s.epoch # ep /\ s.local_count = 0
  <2>1. RollTo(s, ep) = [s EXCEPT !.epoch = ep]
    BY <1>3 DEF RollTo
  <2>2. /\ RollTo(s, ep) \in KeyStates /\ RollTo(s, ep).epoch = ep
        /\ RollTo(s, ep).local_count = 0 /\ RollTo(s, ep).carryover = s.carryover
        /\ RollTo(s, ep).carryover_epoch = s.carryover_epoch
    BY <1>3, <2>1 DEF KeyStates
  <2> QED
    BY <1>1, <1>3, <2>2 DEF Unclaimed
<1>4. CASE s.epoch # ep /\ s.local_count # 0
  <2> DEFINE owed == IF s.carryover > 0 /\ s.carryover_epoch # s.epoch
                     THEN s.local_count ELSE s.carryover + s.local_count
  <2>1. RollTo(s, ep) = [s EXCEPT !.epoch = ep, !.local_count = 0,
                                  !.carryover = owed, !.carryover_epoch = s.epoch]
    BY <1>4 DEF RollTo
  <2>2. owed \in Nat
    BY <1>1
  <2> HIDE DEF owed
  <2>3. RollTo(s, ep) \in KeyStates
    <3> DEFINE a == [s EXCEPT !.epoch = ep]
               b == [a EXCEPT !.local_count = 0]
               c == [b EXCEPT !.carryover = owed]
               d == [c EXCEPT !.carryover_epoch = s.epoch]
    <3>1. a \in KeyStates
      BY DEF KeyStates
    <3> HIDE DEF a
    <3>2. b \in KeyStates
      BY <3>1 DEF KeyStates
    <3> HIDE DEF b
    <3>3. c \in KeyStates
      BY <2>2, <3>2 DEF KeyStates
    <3> HIDE DEF c
    <3>4. d \in KeyStates
      BY <1>1, <3>3 DEF KeyStates
    <3> QED
      BY <2>1, <3>4 DEF a, b, c
  <2>4. /\ RollTo(s, ep).epoch = ep /\ RollTo(s, ep).local_count = 0
         /\ RollTo(s, ep).carryover = owed
         /\ RollTo(s, ep).carryover_epoch = s.epoch
    BY <2>1 DEF KeyStates
  <2>5. ASSUME NEW e \in Epoch
        PROVE  Unclaimed(RollTo(s, ep), e) <= Unclaimed(s, e)
    BY <1>1, <2>4 DEF Unclaimed, owed
  <2> QED
    BY <2>3, <2>4, <2>5
<1> QED
  BY <1>2, <1>3, <1>4

\* The admits an entry holds for an epoch are a number.
LEMMA UnclaimedTyped ==
  ASSUME NEW s \in KeyStates, NEW e \in Epoch
  PROVE  Unclaimed(s, e) \in Nat
  BY DEF KeyStates, Unclaimed

\* The admits a push plan holds for an epoch are a number.
LEMMA OwedTyped ==
  ASSUME NEW p \in Plans, NEW e \in Epoch
  PROVE  Owed(p, e) \in Nat
  BY DEF Plans, Owed

\* A committed push leaves nothing owed.
LEMMA PushedTyped ==
  ASSUME NEW p \in Plans
  PROVE  Pushed(p) \in Plans /\ \A e \in Epoch : Owed(Pushed(p), e) = 0
<1> DEFINE a == [p EXCEPT !.delta = 0]
<1>1. a \in Plans /\ a.delta = 0
  BY DEF Plans
<1> HIDE DEF a
<1>2. [a EXCEPT !.carry = 0] \in Plans
  BY <1>1 DEF Plans
<1>3. Pushed(p) = [a EXCEPT !.carry = 0]
  BY DEF Pushed, a
<1>4. Pushed(p).delta = 0 /\ Pushed(p).carry = 0
  BY <1>1, <1>3 DEF Plans
<1> QED
  BY <1>2, <1>3, <1>4 DEF Owed

\* state_for never adds unclaimed admits: it creates, resets or rolls.
LEMMA StateForUnclaimed ==
  ASSUME NEW s \in KeyStates, NEW w \in Nat \ {0}, NEW t \in 0..MaxClock,
         clock \in Nat
  PROVE  /\ StateFor(s, w, t) \in KeyStates
         /\ \A e \in Epoch : Unclaimed(StateFor(s, w, t), e) <= Unclaimed(s, e)
<1> DEFINE ep == EpochAt(t, w)
           entry == IF s.tracked /\ s.window = w THEN s ELSE NewState(ep, w)
           z == RollTo(entry, ep)
<1>1. ep \in Epoch
  BY EpochTyped
<1>2. entry \in KeyStates
  BY <1>1, NewStateTyped
<1>3. \A e \in Epoch : Unclaimed(entry, e) <= Unclaimed(s, e)
  <2>1. CASE s.tracked /\ s.window = w
    BY <2>1, UnclaimedTyped
  <2>2. CASE ~(s.tracked /\ s.window = w)
    <3>1. entry.local_count = 0 /\ entry.carryover = 0
      BY <2>2 DEF NewState, NoState
    <3>2. \A e \in Epoch : Unclaimed(entry, e) = 0
      BY <3>1 DEF Unclaimed
    <3> QED
      BY <3>2, UnclaimedTyped
  <2> QED
    BY <2>1, <2>2
<1> HIDE DEF entry, ep
<1>4. z \in KeyStates /\ \A e \in Epoch : Unclaimed(z, e) <= Unclaimed(entry, e)
  BY <1>1, <1>2, RollToUnclaimed
<1> HIDE DEF z
<1>5. StateFor(s, w, t) = [z EXCEPT !.last_seen = clock, !.seen_since_tick = TRUE]
  BY DEF StateFor, z, entry, ep
<1>6. /\ StateFor(s, w, t) \in KeyStates
      /\ \A e \in Epoch : Unclaimed(StateFor(s, w, t), e) = Unclaimed(z, e)
  BY <1>4, <1>5 DEF KeyStates, Unclaimed
<1>7. ASSUME NEW e \in Epoch
      PROVE  Unclaimed(StateFor(s, w, t), e) <= Unclaimed(s, e)
  BY <1>2, <1>3, <1>4, <1>6, UnclaimedTyped
<1> QED
  BY <1>6, <1>7

-----------------------------------------------------------------------------
\* The fleet GlobalCounters::build starts with is well typed.
LEMMA TypeInit == Init => TypeOK
<1> SUFFICES ASSUME Init PROVE TypeOK
  OBVIOUS
<1>1. NoState \in KeyStates
  BY NoStateTyped
<1>2. NoPlan \in Plans /\ NoReq \in Requests
  BY ZeroEpoch DEF NoPlan, Plans, Requests
<1>3. StartClock \in 0..MaxClock
  BY GlobalAssumption
<1>4. IdlePass \in [pc : {"idle", "claim", "push", "read", "apply"},
                    now : 0..MaxClock, todo : SUBSET Key]
  BY ZeroEpoch DEF IdlePass
<1> QED
  BY <1>1, <1>2, <1>3, <1>4 DEF Init, TypeOK

\* The requests of the request path are well-formed, and the entry state_for
\* would return to one is typed and holds no more than the entry it found.
LEMMA RequestFacts ==
  ASSUME TypeOK, NEW r \in Req, req[r].pc # "idle"
  PROVE  /\ req[r].inst \in Inst /\ req[r].key \in Key /\ req[r].window \in Window
         /\ req[r].window \in Nat \ {0} /\ req[r].now \in 0..MaxClock
         /\ req[r] \in [pc : {"gate", "local", "record"}, inst : Inst, key : Key,
                        window : Window, now : 0..MaxClock, over : BOOLEAN]
         /\ states[req[r].inst][req[r].key] \in KeyStates
         /\ clock \in Nat
<1>1. req[r] \in Requests /\ req[r] # NoReq
  BY DEF TypeOK, NoReq
<1>2. req[r] \in [pc : {"gate", "local", "record"}, inst : Inst, key : Key,
                  window : Window, now : 0..MaxClock, over : BOOLEAN]
  BY <1>1 DEF Requests
<1>3. /\ req[r].inst \in Inst /\ req[r].key \in Key /\ req[r].window \in Window
      /\ req[r].now \in 0..MaxClock
  BY <1>2
<1>4. req[r].window \in Nat \ {0}
  BY <1>3, GlobalAssumption
<1>5. states[req[r].inst][req[r].key] \in KeyStates /\ clock \in Nat
  BY <1>3, GlobalAssumption DEF TypeOK
<1> QED
  BY <1>2, <1>3, <1>4, <1>5

\* What a request carries away from state_for is well typed.
LEMMA ReadingTyped ==
  ASSUME TypeOK, NEW i \in Inst, NEW k \in Key, NEW w \in Window,
         NEW pc \in {"gate", "local", "record"}
  PROVE  Reading(pc, i, k, w) \in Requests
<1>1. OverCap(i) \in BOOLEAN
  BY DEF OverCap
<1> QED
  BY <1>1 DEF Reading, Requests, TypeOK

\* Updates of one entry of a table, and of one counter of a ledger.
LEMMA EntryUpdate ==
  ASSUME NEW A, NEW B, NEW C, NEW f \in [A -> [B -> C]], NEW a \in A, NEW b \in B,
         NEW c \in C
  PROVE  [f EXCEPT ![a][b] = c] \in [A -> [B -> C]]
  OBVIOUS

\* Counting one more in a table of counters gives such a table.
LEMMA CounterUpdate ==
  ASSUME NEW A, NEW B, NEW D, NEW f \in [A -> [B -> [D -> Nat]]], NEW a \in A,
         NEW b \in B, NEW d \in D
  PROVE  [f EXCEPT ![a][b][d] = @ + 1] \in [A -> [B -> [D -> Nat]]]
<1>1. f[a][b][d] + 1 \in Nat
  OBVIOUS
<1>2. [f[a][b] EXCEPT ![d] = f[a][b][d] + 1] \in [D -> Nat]
  BY <1>1
<1> DEFINE g == [f[a][b] EXCEPT ![d] = f[a][b][d] + 1]
<1> HIDE DEF g
<1>3. [f EXCEPT ![a][b] = g] \in [A -> [B -> [D -> Nat]]]
  BY <1>2, EntryUpdate DEF g
<1> QED
  BY <1>3 DEF g

\* apply_estimates stores a reading and its time in one entry, or nothing.
LEMMA ApplyEffect ==
  ASSUME TypeOK, NEW i \in Inst, NEW k \in Key, ApplyKey(i, k)
  PROVE  LET p == plans[i][k]
             est == SlidingEstimate(reads[i][k][1], reads[i][k][2],
                                    ElapsedInWindow(pass[i].now, p.window), p.window)
             z == [states[i][k] EXCEPT !.remote_estimate = est, !.estimate_at = clock]
         IN  states' = states \/ states' = [states EXCEPT ![i][k] = z]
<1> DEFINE p == plans[i][k]
           est == SlidingEstimate(reads[i][k][1], reads[i][k][2],
                                  ElapsedInWindow(pass[i].now, p.window), p.window)
           z == [states[i][k] EXCEPT !.remote_estimate = est, !.estimate_at = clock]
<1> HIDE DEF est
<1>1. states' = states \/ states' = [states EXCEPT ![i][k] = z]
  BY DEF ApplyKey, TypeOK, est
<1> QED
  BY <1>1 DEF est

\* Every step of a request, of a reconcile pass or of the clock keeps the types.
LEMMA TypeStep == TypeOK /\ [Next]_vars => TypeOK'
<1> SUFFICES ASSUME TypeOK, [Next]_vars PROVE TypeOK'
  OBVIOUS
<1> DEFINE Passes == [pc : {"idle", "claim", "push", "read", "apply"},
                      now : 0..MaxClock, todo : SUBSET Key]
<1>a. IdlePass \in Passes /\ NoPlan \in Plans /\ NoReq \in Requests
  BY ZeroEpoch DEF IdlePass, NoPlan, Plans, Requests
<1>b. /\ clock \in Nat /\ MaxClock \in Nat /\ clock <= MaxClock
      /\ \A w \in Window : w \in Nat \ {0}
  BY GlobalAssumption DEF TypeOK
<1>1. CASE Tick
  BY <1>1, <1>b DEF Tick, TypeOK
<1>2. ASSUME NEW r \in Req, NEW i \in Inst, NEW k \in Key, NEW w \in Window,
             Arrive(r, i, k, w)
      PROVE  TypeOK'
  <2>1. Reading("gate", i, k, w) \in Requests
    BY ReadingTyped
  <2> QED
    BY <1>2, <2>1 DEF Arrive, TypeOK
<1>3. ASSUME NEW r \in Req, Gate(r) PROVE TypeOK'
  <2> DEFINE q == req[r]
             s == StateFor(states[q.inst][q.key], q.window, q.now)
  <2>1. q.pc = "gate"
    BY <1>3 DEF Gate
  <2>2. s \in KeyStates /\ q.inst \in Inst /\ q.key \in Key
    BY <2>1, RequestFacts, StateForUnclaimed
  <2>3. [q EXCEPT !.pc = "local"] \in Requests
    <3>1. q \in [pc : {"gate", "local", "record"}, inst : Inst, key : Key,
                 window : Window, now : 0..MaxClock, over : BOOLEAN]
      BY <2>1, RequestFacts
    <3> HIDE DEF q
    <3> QED
      BY <3>1 DEF Requests
  <2>4. states' \in [Inst -> [Key -> KeyStates]]
    <3>1. states' = states \/ states' = [states EXCEPT ![q.inst][q.key] = s]
      BY <1>3 DEF Gate
    <3> HIDE DEF q, s
    <3>2. states \in [Inst -> [Key -> KeyStates]]
      BY DEF TypeOK
    <3>3. [states EXCEPT ![q.inst][q.key] = s] \in [Inst -> [Key -> KeyStates]]
      BY <2>2, <3>2, EntryUpdate
    <3> QED
      BY <3>1, <3>2, <3>3
  <2>5. req' \in [Req -> Requests]
    <3>1. \/ req' = [req EXCEPT ![r] = NoReq]
          \/ req' = [req EXCEPT ![r] = [q EXCEPT !.pc = "local"]]
      BY <1>3 DEF Gate
    <3> HIDE DEF q
    <3> QED
      BY <1>a, <2>3, <3>1 DEF TypeOK
  <2> QED
    BY <1>3, <2>4, <2>5 DEF Gate, TypeOK
<1>4. ASSUME NEW r \in Req, LocalReject(r) PROVE TypeOK'
  BY <1>4, <1>a DEF LocalReject, TypeOK
<1>5. ASSUME NEW r \in Req, LocalAdmit(r) PROVE TypeOK'
  <2> DEFINE q == req[r]
  <2>1. q.inst \in Inst /\ q.key \in Key /\ q.window \in Window
    BY <1>5, RequestFacts DEF LocalAdmit
  <2>2. Reading("record", q.inst, q.key, q.window) \in Requests
    BY <2>1, ReadingTyped
  <2> QED
    BY <1>5, <2>2 DEF LocalAdmit, TypeOK
<1>6. ASSUME NEW r \in Req, Record(r) PROVE TypeOK'
  <2> DEFINE q == req[r]
             s == StateFor(states[q.inst][q.key], q.window, q.now)
             z == [s EXCEPT !.local_count = @ + 1]
  <2>1. q.pc = "record"
    BY <1>6 DEF Record
  <2>2. s \in KeyStates /\ q.inst \in Inst /\ q.key \in Key
    BY <2>1, RequestFacts, StateForUnclaimed
  <2>3. z \in KeyStates /\ s.epoch \in Epoch
    <3> HIDE DEF s
    <3> QED
      BY <2>2 DEF KeyStates
  <2>4. \/ UNCHANGED <<states, recorded>>
        \/ /\ states' = [states EXCEPT ![q.inst][q.key] = z]
           /\ recorded' = [recorded EXCEPT ![q.inst][q.key][s.epoch] = @ + 1]
    BY <1>6 DEF Record
  <2>5. states' \in [Inst -> [Key -> KeyStates]]
    <3> HIDE DEF q, s, z
    <3>1. states \in [Inst -> [Key -> KeyStates]]
      BY DEF TypeOK
    <3>2. [states EXCEPT ![q.inst][q.key] = z] \in [Inst -> [Key -> KeyStates]]
      BY <2>2, <2>3, <3>1, EntryUpdate
    <3>3. states' = states \/ states' = [states EXCEPT ![q.inst][q.key] = z]
      BY <2>4
    <3> QED
      BY <3>1, <3>2, <3>3
  <2>6. recorded' \in [Inst -> [Key -> [Epoch -> Nat]]]
    <3> DEFINE ep == s.epoch
    <3>1. ep \in Epoch
      BY <2>3
    <3>2. recorded' = recorded \/ recorded' = [recorded EXCEPT ![q.inst][q.key][ep] = @ + 1]
      BY <2>4
    <3> HIDE DEF q, s, ep
    <3>3. recorded \in [Inst -> [Key -> [Epoch -> Nat]]]
      BY DEF TypeOK
    <3>4. [recorded EXCEPT ![q.inst][q.key][ep] = @ + 1] \in [Inst -> [Key -> [Epoch -> Nat]]]
      BY <2>2, <3>1, <3>3, CounterUpdate
    <3> QED
      BY <3>2, <3>3, <3>4
  <2>7. req' \in [Req -> Requests]
    BY <1>6, <1>a DEF Record, TypeOK
  <2> QED
    BY <1>6, <2>5, <2>6, <2>7 DEF Record, TypeOK
<1>7. ASSUME NEW i \in Inst, StartPass(i) PROVE TypeOK'
  <2> DEFINE kept == [k \in Key |-> IF Evictable(states[i][k]) THEN NoState ELSE states[i][k]]
  <2>1. kept \in [Key -> KeyStates]
    BY NoStateTyped DEF TypeOK
  <2>2. [pc |-> "claim", now |-> clock, todo |-> {k \in Key : kept[k].tracked}] \in Passes
    BY DEF TypeOK
  <2> HIDE DEF kept
  <2>3. states' = [states EXCEPT ![i] = kept]
    BY <1>7 DEF StartPass, kept
  <2>4. pass' = [pass EXCEPT ![i] = [pc |-> "claim", now |-> clock,
                                     todo |-> {k \in Key : kept[k].tracked}]]
    BY <1>7 DEF StartPass, kept
  <2>5. states' \in [Inst -> [Key -> KeyStates]] /\ pass' \in [Inst -> Passes]
    BY <2>1, <2>2, <2>3, <2>4 DEF TypeOK
  <2> QED
    BY <1>7, <2>5 DEF StartPass, TypeOK
<1>8. ASSUME NEW i \in Inst, NEW k \in Key, ClaimKey(i, k) PROVE TypeOK'
  <2> DEFINE s == states[i][k]
             z == [s EXCEPT !.seen_since_tick = FALSE, !.local_count = 0, !.carryover = 0]
             p == [active |-> TRUE, push_epoch |-> s.epoch, delta |-> s.local_count,
                   carry_epoch |-> s.carryover_epoch, carry |-> s.carryover,
                   read_epoch |-> EpochAt(pass[i].now, s.window), window |-> s.window]
  <2>1. s \in KeyStates /\ pass[i] \in Passes
    BY DEF TypeOK
  <2>2. z \in KeyStates
    <3> HIDE DEF s
    <3> QED
      BY <2>1 DEF KeyStates
  <2>3. p \in Plans
    <3> HIDE DEF s
    <3>1. /\ s.epoch \in Epoch /\ s.local_count \in Nat /\ s.carryover_epoch \in Epoch
          /\ s.carryover \in Nat /\ s.window \in Nat \ {0} /\ pass[i].now \in 0..MaxClock
      BY <2>1 DEF KeyStates
    <3>2. EpochAt(pass[i].now, s.window) \in Epoch
      BY <3>1, EpochTyped
    <3> QED
      BY <3>1, <3>2 DEF Plans
  <2>4. states' = [states EXCEPT ![i][k] = z]
    BY <1>8, <2>1 DEF ClaimKey, TypeOK, KeyStates
  <2>5. plans' = [plans EXCEPT ![i][k] = p] \/ plans' = [plans EXCEPT ![i][k] = NoPlan]
    BY <1>8 DEF ClaimKey
  <2>6. states' \in [Inst -> [Key -> KeyStates]]
    <3> HIDE DEF z
    <3>1. states \in [Inst -> [Key -> KeyStates]]
      BY DEF TypeOK
    <3> QED
      BY <2>2, <2>4, <3>1, EntryUpdate
  <2>7. plans' \in [Inst -> [Key -> Plans]]
    <3> HIDE DEF p
    <3>1. plans \in [Inst -> [Key -> Plans]]
      BY DEF TypeOK
    <3>2. /\ [plans EXCEPT ![i][k] = p] \in [Inst -> [Key -> Plans]]
          /\ [plans EXCEPT ![i][k] = NoPlan] \in [Inst -> [Key -> Plans]]
      BY <1>a, <2>3, <3>1, EntryUpdate
    <3> QED
      BY <2>5, <3>2
  <2>8. pass' \in [Inst -> Passes]
    BY <1>8, <2>1 DEF ClaimKey, TypeOK
  <2> QED
    BY <1>8, <2>6, <2>7, <2>8 DEF ClaimKey, TypeOK
<1>9. ASSUME NEW i \in Inst, ClaimsDone(i) PROVE TypeOK'
  BY <1>9, <1>a DEF ClaimsDone, TypeOK
<1>c. ASSUME NEW i \in Inst, Commit(i)
      PROVE  /\ store' \in [Key -> [Epoch -> Nat]] /\ expires' \in [Key -> [Epoch -> Nat]]
             /\ published' \in [Inst -> [Key -> [Epoch -> Nat]]]
  <2>1. \A k \in Key, e \in Epoch : Owed(plans[i][k], e) \in Nat
    BY OwedTyped DEF TypeOK
  <2>2. \A k \in Key : plans[i][k].window \in Nat
    BY DEF TypeOK, Plans
  <2> DEFINE owed == [k \in Key |-> [e \in Epoch |-> Owed(plans[i][k], e)]]
  <2>3. \A k \in Key, e \in Epoch : owed[k][e] \in Nat
    BY <2>1
  <2> HIDE DEF owed
  <2>4. store' = [k \in Key |-> [e \in Epoch |-> store[k][e] + owed[k][e]]]
    BY <1>c DEF Commit, owed
  <2>5. expires' = [k \in Key |-> [e \in Epoch |->
                      IF owed[k][e] > 0 THEN clock + 2 * plans[i][k].window ELSE expires[k][e]]]
    BY <1>c DEF Commit, owed
  <2>6. published' = [published EXCEPT ![i] =
                        [k \in Key |-> [e \in Epoch |-> published[i][k][e] + owed[k][e]]]]
    BY <1>c DEF Commit, owed
  <2>7. store' \in [Key -> [Epoch -> Nat]]
    BY <2>3, <2>4 DEF TypeOK
  <2>8. expires' \in [Key -> [Epoch -> Nat]]
    <3>1. \A k \in Key : clock + 2 * plans[i][k].window \in Nat
      BY <1>b, <2>2
    <3> QED
      BY <3>1, <2>5 DEF TypeOK
  <2>9. published' \in [Inst -> [Key -> [Epoch -> Nat]]]
    <3>1. [k \in Key |-> [e \in Epoch |-> published[i][k][e] + owed[k][e]]]
            \in [Key -> [Epoch -> Nat]]
      BY <2>3 DEF TypeOK
    <3> QED
      BY <3>1, <2>6 DEF TypeOK
  <2> QED
    BY <2>7, <2>8, <2>9
<1>10. ASSUME NEW i \in Inst, Push(i) PROVE TypeOK'
  <2>1. \A k \in Key : Pushed(plans[i][k]) \in Plans
    BY PushedTyped DEF TypeOK
  <2>2. Commit(i)
    BY <1>10 DEF Push
  <2>3. /\ store' \in [Key -> [Epoch -> Nat]] /\ expires' \in [Key -> [Epoch -> Nat]]
        /\ published' \in [Inst -> [Key -> [Epoch -> Nat]]]
    BY <1>c, <2>2
  <2>4. plans' \in [Inst -> [Key -> Plans]]
    BY <1>10, <2>1 DEF Push, TypeOK
  <2>5. pass' \in [Inst -> Passes]
    <3>1. pass' = [pass EXCEPT ![i] = [pass[i] EXCEPT !.pc = "read"]]
      BY <1>10 DEF Push
    <3>2. pass[i] \in Passes
      BY DEF TypeOK
    <3>3. [pass[i] EXCEPT !.pc = "read"] \in Passes
      BY <3>2
    <3> QED
      BY <3>1, <3>3 DEF TypeOK
  <2> QED
    BY <1>10, <2>3, <2>4, <2>5 DEF Push, TypeOK
<1>11. ASSUME NEW i \in Inst, PushFail(i) PROVE TypeOK'
  <2>1. /\ store' \in [Key -> [Epoch -> Nat]] /\ expires' \in [Key -> [Epoch -> Nat]]
        /\ published' \in [Inst -> [Key -> [Epoch -> Nat]]]
    <3>1. Commit(i) \/ UNCHANGED <<store, expires, published>>
      BY <1>11 DEF PushFail
    <3> QED
      BY <3>1, <1>c DEF TypeOK
  <2> QED
    BY <1>11, <1>a, <2>1 DEF PushFail, TypeOK
<1>12. ASSUME NEW i \in Inst, ReadTotals(i) PROVE TypeOK'
  <2>1. ASSUME NEW k \in Key
        PROVE  LET e == plans[i][k].read_epoch
               IN <<store[k][e], store[k][IF e > 0 THEN e - 1 ELSE 0]>> \in Nat \X Nat
    <3>1. plans[i][k].read_epoch \in Epoch
      BY DEF TypeOK, Plans
    <3> DEFINE e == plans[i][k].read_epoch
               d == IF e > 0 THEN e - 1 ELSE 0
    <3>2. e \in Epoch /\ d \in Epoch
      BY <3>1, <1>b DEF Epoch
    <3> HIDE DEF e, d
    <3>3. <<store[k][e], store[k][d]>> \in Nat \X Nat
      BY <3>2 DEF TypeOK
    <3> QED
      BY <3>3 DEF e, d
  <2>2. Planned(i) \in SUBSET Key
    BY DEF Planned
  <2>3. reads' \in [Inst -> [Key -> Nat \X Nat]]
    <3> DEFINE pair(k) == LET e == plans[i][k].read_epoch
                          IN <<store[k][e], store[k][IF e > 0 THEN e - 1 ELSE 0]>>
    <3>1. reads' = [reads EXCEPT ![i] = [k \in Key |-> pair(k)]]
      BY <1>12 DEF ReadTotals
    <3>2. \A k \in Key : pair(k) \in Nat \X Nat
      BY <2>1
    <3> HIDE DEF pair
    <3> QED
      BY <3>1, <3>2 DEF TypeOK
  <2>4. pass' \in [Inst -> Passes]
    <3>1. pass' = [pass EXCEPT ![i] = [pass[i] EXCEPT !.pc = "apply", !.todo = Planned(i)]]
      BY <1>12 DEF ReadTotals, TypeOK
    <3>2. [pass[i] EXCEPT !.pc = "apply", !.todo = Planned(i)] \in Passes
      <4> DEFINE a == [pass[i] EXCEPT !.pc = "apply"]
      <4>1. pass[i] \in Passes
        BY DEF TypeOK
      <4>2. a \in Passes
        BY <4>1
      <4> HIDE DEF a
      <4>3. [a EXCEPT !.todo = Planned(i)] \in Passes
        BY <2>2, <4>2
      <4> QED
        BY <4>3 DEF a
    <3> QED
      BY <3>1, <3>2 DEF TypeOK
  <2> QED
    BY <1>12, <2>3, <2>4 DEF ReadTotals, TypeOK
<1>13. ASSUME NEW i \in Inst, ReadFail(i) PROVE TypeOK'
  BY <1>13, <1>a DEF ReadFail, TypeOK
<1>14. ASSUME NEW i \in Inst, NEW k \in Key, ApplyKey(i, k) PROVE TypeOK'
  <2> DEFINE p == plans[i][k]
             est == SlidingEstimate(reads[i][k][1], reads[i][k][2],
                                    ElapsedInWindow(pass[i].now, p.window), p.window)
             z == [states[i][k] EXCEPT !.remote_estimate = est, !.estimate_at = clock]
  <2>1. est \in Nat
    <3> DEFINE w == p.window  x == reads[i][k][1]  y == reads[i][k][2]  t == pass[i].now
    <3>1. w \in Nat \ {0} /\ x \in Nat /\ y \in Nat /\ t \in Nat
      BY DEF TypeOK, Plans
    <3> HIDE DEF w, x, y, t
    <3>2. t % w \in Nat /\ t % w < w
      BY <3>1
    <3>3. w - (t % w) \in Nat
      BY <3>1, <3>2
    <3>4. y * (w - (t % w)) \in Nat
      BY <3>1, <3>3
    <3>5. (y * (w - (t % w)) + w - 1) \in Nat
      BY <3>1, <3>4
    <3>6. (y * (w - (t % w)) + w - 1) \div w \in Nat
      BY <3>1, <3>5
    <3> QED
      BY <3>1, <3>6 DEF SlidingEstimate, ElapsedInWindow, w, x, y, t
  <2> HIDE DEF est
  <2>2. z \in KeyStates
    <3> DEFINE s == states[i][k]
               b == [s EXCEPT !.remote_estimate = est]
    <3>1. s \in KeyStates
      BY DEF TypeOK
    <3> HIDE DEF s
    <3>2. b \in KeyStates
      BY <2>1, <3>1 DEF KeyStates
    <3> HIDE DEF b
    <3>3. [b EXCEPT !.estimate_at = clock] \in KeyStates
      BY <1>b, <3>2 DEF KeyStates
    <3> QED
      BY <3>3 DEF s, b
  <2>3. states' = states \/ states' = [states EXCEPT ![i][k] = z]
    BY <1>14, ApplyEffect DEF est
  <2>4. states' \in [Inst -> [Key -> KeyStates]]
    <3> HIDE DEF z
    <3>1. states \in [Inst -> [Key -> KeyStates]]
      BY DEF TypeOK
    <3>2. [states EXCEPT ![i][k] = z] \in [Inst -> [Key -> KeyStates]]
      BY <2>2, <3>1, EntryUpdate
    <3> QED
      BY <2>3, <3>1, <3>2
  <2>5. pass' \in [Inst -> Passes]
    <3>1. pass' = [pass EXCEPT ![i] = [pass[i] EXCEPT !.todo = pass[i].todo \ {k}]]
      BY <1>14 DEF ApplyKey
    <3>2. pass[i] \in Passes
      BY DEF TypeOK
    <3>3. [pass[i] EXCEPT !.todo = pass[i].todo \ {k}] \in Passes
      BY <3>2
    <3> QED
      BY <3>1, <3>3 DEF TypeOK
  <2> QED
    BY <1>14, <2>4, <2>5 DEF ApplyKey, TypeOK
<1>15. ASSUME NEW i \in Inst, EndPass(i) PROVE TypeOK'
  BY <1>15, <1>a DEF EndPass, TypeOK
<1>16. CASE UNCHANGED vars
  BY <1>16 DEF vars, TypeOK
<1> QED
  BY <1>1, <1>2, <1>3, <1>4, <1>5, <1>6, <1>7, <1>8, <1>9, <1>10, <1>11, <1>12,
     <1>13, <1>14, <1>15, <1>16 DEF Next

-----------------------------------------------------------------------------
\* The counters of one key of one instance, in one epoch, are naturals, before
\* a step and after it.
LEMMA LedgerTyped ==
  ASSUME TypeOK, TypeOK', NEW i \in Inst, NEW k \in Key, NEW e \in Epoch
  PROVE  /\ states[i][k] \in KeyStates /\ plans[i][k] \in Plans
         /\ published[i][k][e] \in Nat /\ recorded[i][k][e] \in Nat
         /\ Unclaimed(states[i][k], e) \in Nat /\ Owed(plans[i][k], e) \in Nat
         /\ Unclaimed(states'[i][k], e) \in Nat /\ Owed(plans'[i][k], e) \in Nat
<1>1. /\ states[i][k] \in KeyStates /\ plans[i][k] \in Plans
      /\ states'[i][k] \in KeyStates /\ plans'[i][k] \in Plans
  BY DEF TypeOK
<1>2. published[i][k][e] \in Nat /\ recorded[i][k][e] \in Nat
  BY DEF TypeOK
<1> QED
  BY <1>1, <1>2, UnclaimedTyped, OwedTyped

\* A plan that was dropped owes nothing.
LEMMA NoPlanOwes == \A e \in Epoch : Owed(NoPlan, e) = 0
  BY DEF Owed, NoPlan

\* A step that leaves the ledgers alone, and adds neither to an entry's
\* unclaimed admits nor to what its plan owes, keeps the contract.
LEMMA QuietStep ==
  ASSUME TypeOK, TypeOK', NeverDoublePublished,
         UNCHANGED <<published, recorded>>,
         \A i \in Inst, k \in Key, e \in Epoch :
           /\ Unclaimed(states'[i][k], e) <= Unclaimed(states[i][k], e)
           /\ Owed(plans'[i][k], e) <= Owed(plans[i][k], e)
  PROVE  NeverDoublePublished'
<1> SUFFICES ASSUME NEW i \in Inst, NEW k \in Key, NEW e \in Epoch
             PROVE  published'[i][k][e] + Pending(i, k, e)' <= recorded'[i][k][e]
  BY DEF NeverDoublePublished
<1>1. published[i][k][e] + (Unclaimed(states[i][k], e) + Owed(plans[i][k], e))
        <= recorded[i][k][e]
  BY DEF NeverDoublePublished, Pending
<1> QED
  BY <1>1, LedgerTyped DEF Pending

\* Every step keeps the contract: one case per action that touches a counter.
LEMMA NeverDoubleStep ==
  TypeOK /\ TypeOK' /\ NeverDoublePublished /\ [Next]_vars => NeverDoublePublished'
<1> SUFFICES ASSUME TypeOK, TypeOK', NeverDoublePublished, [Next]_vars
             PROVE  NeverDoublePublished'
  OBVIOUS
<1>a. \A i \in Inst, k \in Key, e \in Epoch :
        Unclaimed(states[i][k], e) \in Nat /\ Owed(plans[i][k], e) \in Nat
  BY LedgerTyped
<1>1. CASE UNCHANGED <<states, plans, published, recorded>>
  BY <1>1, <1>a, QuietStep
<1>2. ASSUME NEW r \in Req, Gate(r) PROVE NeverDoublePublished'
  <2> DEFINE q == req[r]
             old == states[q.inst][q.key]
             s == StateFor(old, q.window, q.now)
  <2>1. q.pc = "gate"
    BY <1>2 DEF Gate
  <2>2. /\ s \in KeyStates /\ q.inst \in Inst /\ q.key \in Key
        /\ \A e \in Epoch : Unclaimed(s, e) <= Unclaimed(old, e)
    BY <2>1, RequestFacts, StateForUnclaimed
  <2>3. states' = states \/ states' = [states EXCEPT ![q.inst][q.key] = s]
    BY <1>2 DEF Gate
  <2>4. UNCHANGED <<plans, published, recorded>>
    BY <1>2 DEF Gate
  <2> HIDE DEF q, s
  <2>5. ASSUME NEW i \in Inst, NEW k \in Key, NEW e \in Epoch
        PROVE  Unclaimed(states'[i][k], e) <= Unclaimed(states[i][k], e)
    <3>1. CASE states' = states
      BY <3>1, <1>a
    <3>2. CASE states' = [states EXCEPT ![q.inst][q.key] = s]
      <4>1. states \in [Inst -> [Key -> KeyStates]]
        BY DEF TypeOK
      <4>2. states'[i][k] = IF i = q.inst /\ k = q.key THEN s ELSE states[i][k]
        BY <2>2, <3>2, <4>1
      <4> QED
        BY <1>a, <2>2, <4>2
    <3> QED
      BY <2>3, <3>1, <3>2
  <2> QED
    BY <1>a, <2>4, <2>5, QuietStep
<1>3. ASSUME NEW r \in Req, Record(r) PROVE NeverDoublePublished'
  <2> DEFINE q == req[r]
             old == states[q.inst][q.key]
             s == StateFor(old, q.window, q.now)
             ep == s.epoch
             z == [s EXCEPT !.local_count = @ + 1]
  <2>1. q.pc = "record"
    BY <1>3 DEF Record
  <2>2. /\ s \in KeyStates /\ q.inst \in Inst /\ q.key \in Key
        /\ \A e \in Epoch : Unclaimed(s, e) <= Unclaimed(old, e)
    BY <2>1, RequestFacts, StateForUnclaimed
  <2>3. \/ UNCHANGED <<states, recorded>>
        \/ /\ states' = [states EXCEPT ![q.inst][q.key] = z]
           /\ recorded' = [recorded EXCEPT ![q.inst][q.key][ep] = @ + 1]
    BY <1>3 DEF Record
  <2>4. UNCHANGED <<plans, published>>
    BY <1>3 DEF Record
  <2> HIDE DEF q, s
  <2>5. /\ ep \in Epoch
        /\ \A e \in Epoch : Unclaimed(z, e) = Unclaimed(s, e) + (IF e = ep THEN 1 ELSE 0)
    <3>1. /\ s.epoch \in Epoch /\ s.local_count \in Nat /\ s.carryover \in Nat
          /\ z.epoch = s.epoch /\ z.local_count = s.local_count + 1
          /\ z.carryover = s.carryover /\ z.carryover_epoch = s.carryover_epoch
      BY <2>2 DEF KeyStates
    <3> HIDE DEF z
    <3> QED
      BY <3>1 DEF Unclaimed
  <2> HIDE DEF z, ep
  <2>6. CASE UNCHANGED <<states, recorded>>
    BY <2>4, <2>6, <1>1
  <2>7. CASE /\ states' = [states EXCEPT ![q.inst][q.key] = z]
             /\ recorded' = [recorded EXCEPT ![q.inst][q.key][ep] = @ + 1]
    <3> SUFFICES ASSUME NEW i \in Inst, NEW k \in Key, NEW e \in Epoch
                 PROVE  published'[i][k][e] + Pending(i, k, e)' <= recorded'[i][k][e]
      BY DEF NeverDoublePublished
    <3> DEFINE here == i = q.inst /\ k = q.key
               u == Unclaimed(states[i][k], e)
               v == Unclaimed(states'[i][k], e)
               o == Owed(plans[i][k], e)
               pub == published[i][k][e]
               rec == recorded[i][k][e]
    <3>1. pub + (u + o) <= rec
      BY DEF NeverDoublePublished, Pending
    <3>2. pub \in Nat /\ u \in Nat /\ v \in Nat /\ o \in Nat /\ rec \in Nat
      BY LedgerTyped
    <3>3. states'[i][k] = IF here THEN z ELSE states[i][k]
      <4>1. states \in [Inst -> [Key -> KeyStates]]
        BY DEF TypeOK
      <4> QED
        BY <2>2, <2>7, <4>1
    <3>4. recorded'[i][k][e] = IF here /\ e = ep THEN rec + 1 ELSE rec
      <4>1. recorded \in [Inst -> [Key -> [Epoch -> Nat]]]
        BY DEF TypeOK
      <4> QED
        BY <2>2, <2>5, <2>7, <4>1
    <3>5. v <= u + (IF here /\ e = ep THEN 1 ELSE 0)
      <4>1. Unclaimed(s, e) \in Nat
        BY <2>2, UnclaimedTyped
      <4> QED
        BY <2>2, <2>5, <3>2, <3>3, <4>1
    <3> HIDE DEF u, v, o, pub, rec, here
    <3>6. pub + (v + o) <= recorded'[i][k][e]
      BY <3>1, <3>2, <3>4, <3>5
    <3> QED
      BY <2>4, <3>6 DEF Pending, v, o, pub
  <2> QED
    BY <2>3, <2>6, <2>7
<1>4. ASSUME NEW i \in Inst, StartPass(i) PROVE NeverDoublePublished'
  <2> DEFINE kept == [k \in Key |-> IF Evictable(states[i][k]) THEN NoState ELSE states[i][k]]
  <2>1. states' = [states EXCEPT ![i] = kept] /\ UNCHANGED <<plans, published, recorded>>
    BY <1>4 DEF StartPass
  <2>2. ASSUME NEW j \in Inst, NEW k \in Key, NEW e \in Epoch
        PROVE  Unclaimed(states'[j][k], e) <= Unclaimed(states[j][k], e)
    <3>1. states'[j][k] = states[j][k] \/ (Evictable(states[j][k]) /\ states'[j][k] = NoState)
      BY <2>1 DEF TypeOK
    <3>2. Unclaimed(NoState, e) = 0
      BY DEF Unclaimed, NoState
    <3> QED
      BY <1>a, <3>1, <3>2
  <2> QED
    BY <1>a, <2>1, <2>2, QuietStep
<1>5. ASSUME NEW i \in Inst, NEW k \in Key, ClaimKey(i, k) PROVE NeverDoublePublished'
  <2> DEFINE s == states[i][k]
             p == [active |-> TRUE, push_epoch |-> s.epoch, delta |-> s.local_count,
                   carry_epoch |-> s.carryover_epoch, carry |-> s.carryover,
                   read_epoch |-> EpochAt(pass[i].now, s.window), window |-> s.window]
  <2>1. UNCHANGED <<published, recorded>>
    BY <1>5 DEF ClaimKey
  <2>2. ASSUME NEW j \in Inst, NEW l \in Key, j # i \/ l # k
        PROVE  states'[j][l] = states[j][l] /\ plans'[j][l] = plans[j][l]
    BY <1>5, <2>2 DEF ClaimKey, TypeOK
  <2>3. \A e \in Epoch : Unclaimed(states'[i][k], e) = 0
    <3>1. states[i][k] \in KeyStates
      BY DEF TypeOK
    <3>2. states'[i][k].local_count = 0 /\ states'[i][k].carryover = 0
      BY <1>5, <3>1 DEF ClaimKey, TypeOK, KeyStates
    <3> QED
      BY <3>2 DEF Unclaimed
  <2>4. \A e \in Epoch : Owed(plans'[i][k], e) <= Unclaimed(s, e)
    <3>1. plans'[i][k] = p \/ plans'[i][k] = NoPlan
      BY <1>5 DEF ClaimKey, TypeOK
    <3>2. \A e \in Epoch : Owed(p, e) = Unclaimed(s, e)
      BY DEF Owed, Unclaimed
    <3> HIDE DEF p
    <3> QED
      BY <1>a, <3>1, <3>2, NoPlanOwes
  <2> HIDE DEF p
  <2> SUFFICES ASSUME NEW j \in Inst, NEW l \in Key, NEW e \in Epoch
               PROVE  published'[j][l][e] + Pending(j, l, e)' <= recorded'[j][l][e]
    BY DEF NeverDoublePublished
  <2>5. published[j][l][e] + (Unclaimed(states[j][l], e) + Owed(plans[j][l], e))
          <= recorded[j][l][e]
    BY DEF NeverDoublePublished, Pending
  <2>6. CASE j # i \/ l # k
    BY <2>1, <2>2, <2>5, <2>6 DEF Pending
  <2>7. CASE j = i /\ l = k
    <3>1. /\ Unclaimed(states'[j][l], e) = 0
          /\ Owed(plans'[j][l], e) <= Unclaimed(states[j][l], e)
      BY <2>3, <2>4, <2>7
    <3> QED
      BY <2>1, <2>5, <3>1, LedgerTyped DEF Pending
  <2> QED
    BY <2>6, <2>7
<1>6. ASSUME NEW i \in Inst, Commit(i), UNCHANGED <<states, recorded>>,
             \A j \in Inst, k \in Key, e \in Epoch :
               Owed(plans'[j][k], e) = IF j = i THEN 0 ELSE Owed(plans[j][k], e)
      PROVE  NeverDoublePublished'
  <2> SUFFICES ASSUME NEW j \in Inst, NEW k \in Key, NEW e \in Epoch
               PROVE  published'[j][k][e] + Pending(j, k, e)' <= recorded'[j][k][e]
    BY DEF NeverDoublePublished
  <2>1. published[j][k][e] + (Unclaimed(states[j][k], e) + Owed(plans[j][k], e))
          <= recorded[j][k][e]
    BY DEF NeverDoublePublished, Pending
  <2>2. published'[j][k][e] = IF j = i THEN published[j][k][e] + Owed(plans[j][k], e)
                              ELSE published[j][k][e]
    BY <1>6 DEF Commit, TypeOK
  <2> QED
    BY <1>6, <2>1, <2>2, LedgerTyped DEF Pending
<1>7. ASSUME NEW i \in Inst, Push(i) PROVE NeverDoublePublished'
  <2>1. Commit(i) /\ UNCHANGED <<states, recorded>>
    BY <1>7 DEF Push
  <2>2. ASSUME NEW j \in Inst, NEW k \in Key
        PROVE  plans'[j][k] = IF j = i THEN Pushed(plans[j][k]) ELSE plans[j][k]
    BY <1>7 DEF Push, TypeOK
  <2>3. ASSUME NEW j \in Inst, NEW k \in Key, NEW e \in Epoch
        PROVE  Owed(plans'[j][k], e) = IF j = i THEN 0 ELSE Owed(plans[j][k], e)
    <3>1. plans[j][k] \in Plans
      BY DEF TypeOK
    <3> QED
      BY <2>2, <3>1, PushedTyped
  <2> QED
    BY <1>6, <2>1, <2>3
<1>8. ASSUME NEW i \in Inst, plans' = [plans EXCEPT ![i] = [k \in Key |-> NoPlan]]
      PROVE  \A j \in Inst, k \in Key, e \in Epoch :
               Owed(plans'[j][k], e) = IF j = i THEN 0 ELSE Owed(plans[j][k], e)
  <2> SUFFICES ASSUME NEW j \in Inst, NEW k \in Key, NEW e \in Epoch
               PROVE  Owed(plans'[j][k], e) = IF j = i THEN 0 ELSE Owed(plans[j][k], e)
    OBVIOUS
  <2>1. plans'[j][k] = IF j = i THEN NoPlan ELSE plans[j][k]
    BY <1>8 DEF TypeOK
  <2> QED
    BY <2>1, NoPlanOwes
<1>9. ASSUME NEW i \in Inst, plans' = [plans EXCEPT ![i] = [k \in Key |-> NoPlan]],
             UNCHANGED <<states, published, recorded>>
      PROVE  NeverDoublePublished'
  <2>1. \A j \in Inst, k \in Key, e \in Epoch :
          /\ Unclaimed(states'[j][k], e) <= Unclaimed(states[j][k], e)
          /\ Owed(plans'[j][k], e) <= Owed(plans[j][k], e)
    <3>1. \A j \in Inst, k \in Key, e \in Epoch :
            Owed(plans'[j][k], e) = IF j = i THEN 0 ELSE Owed(plans[j][k], e)
      BY <1>8, <1>9
    <3> QED
      BY <1>9, <1>a, <3>1
  <2> QED
    BY <1>9, <2>1, QuietStep
<1>10. ASSUME NEW i \in Inst, PushFail(i) PROVE NeverDoublePublished'
  <2>1. /\ plans' = [plans EXCEPT ![i] = [k \in Key |-> NoPlan]]
        /\ UNCHANGED <<states, recorded>>
        /\ Commit(i) \/ UNCHANGED <<store, expires, published>>
    BY <1>10 DEF PushFail
  <2>2. CASE Commit(i)
    BY <1>6, <1>8, <2>1, <2>2
  <2>3. CASE UNCHANGED <<store, expires, published>>
    BY <1>9, <2>1, <2>3
  <2> QED
    BY <2>1, <2>2, <2>3
<1>11. ASSUME NEW i \in Inst, ReadFail(i) \/ EndPass(i) PROVE NeverDoublePublished'
  BY <1>9, <1>11 DEF ReadFail, EndPass
<1>12. ASSUME NEW i \in Inst, NEW k \in Key, ApplyKey(i, k) PROVE NeverDoublePublished'
  <2>1. UNCHANGED <<plans, published, recorded>>
    BY <1>12 DEF ApplyKey
  <2> DEFINE p == plans[i][k]
             est == SlidingEstimate(reads[i][k][1], reads[i][k][2],
                                    ElapsedInWindow(pass[i].now, p.window), p.window)
             z == [states[i][k] EXCEPT !.remote_estimate = est, !.estimate_at = clock]
  <2> HIDE DEF est
  <2>3. states' = states \/ states' = [states EXCEPT ![i][k] = z]
    BY <1>12, ApplyEffect DEF est
  <2>2. ASSUME NEW j \in Inst, NEW l \in Key, NEW e \in Epoch
        PROVE  Unclaimed(states'[j][l], e) <= Unclaimed(states[j][l], e)
    <3>1. states[j][l] \in KeyStates
      BY DEF TypeOK
    <3>2. /\ states'[j][l].epoch = states[j][l].epoch
          /\ states'[j][l].local_count = states[j][l].local_count
          /\ states'[j][l].carryover = states[j][l].carryover
          /\ states'[j][l].carryover_epoch = states[j][l].carryover_epoch
      <4>2. states[i][k] \in KeyStates
        BY DEF TypeOK
      <4>3. /\ z.epoch = states[i][k].epoch /\ z.local_count = states[i][k].local_count
            /\ z.carryover = states[i][k].carryover
            /\ z.carryover_epoch = states[i][k].carryover_epoch
        BY <4>2 DEF KeyStates
      <4> HIDE DEF z
      <4>4. states'[j][l] = states[j][l] \/ (j = i /\ l = k /\ states'[j][l] = z)
        BY <2>3 DEF TypeOK
      <4> QED
        BY <4>3, <4>4
    <3>3. Unclaimed(states'[j][l], e) = Unclaimed(states[j][l], e)
      BY <3>2 DEF Unclaimed
    <3> QED
      BY <1>a, <3>3
  <2> QED
    BY <1>a, <2>1, <2>2, QuietStep
<1>13. ASSUME \/ Tick \/ UNCHANGED vars
              \/ \E r \in Req : \/ \E i \in Inst, k \in Key, w \in Window : Arrive(r, i, k, w)
                                \/ LocalReject(r) \/ LocalAdmit(r)
              \/ \E i \in Inst : ClaimsDone(i) \/ ReadTotals(i)
       PROVE  NeverDoublePublished'
  <2>1. UNCHANGED <<states, plans, published, recorded>>
    BY <1>13 DEF Tick, vars, Arrive, LocalReject, LocalAdmit, ClaimsDone, ReadTotals
  <2> QED
    BY <1>1, <2>1
<1> QED
  BY <1>2, <1>3, <1>4, <1>5, <1>7, <1>10, <1>11, <1>12, <1>13 DEF Next

\* The tables of the fleet layer keep their types in every behaviour of
\* GlobalCounters::{fleet_remaining, record, reconcile}.
THEOREM TypeCorrect == Spec => []TypeOK
  BY TypeInit, TypeStep, PTL DEF Spec

\* The never-double contract of global.rs, for every fleet, every number of
\* keys, requests and windows, and whatever the store answers.
THEOREM NeverDouble == Spec => []NeverDoublePublished
<1>1. Init => NeverDoublePublished
  <2> SUFFICES ASSUME Init, NEW i \in Inst, NEW k \in Key, NEW e \in Epoch
               PROVE  published[i][k][e] + Pending(i, k, e) <= recorded[i][k][e]
    BY DEF NeverDoublePublished
  <2>1. Unclaimed(NoState, e) = 0 /\ Owed(NoPlan, e) = 0
    BY NoPlanOwes DEF Unclaimed, NoState
  <2>2. /\ states[i][k] = NoState /\ plans[i][k] = NoPlan
        /\ published[i][k][e] = 0 /\ recorded[i][k][e] = 0
    BY DEF Init
  <2> QED
    BY <2>1, <2>2 DEF Pending
<1> QED
  BY <1>1, TypeInit, TypeStep, NeverDoubleStep, PTL DEF Spec
=============================================================================
