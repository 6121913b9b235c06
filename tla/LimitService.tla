---------------------------- MODULE LimitService ----------------------------
(***************************************************************************)
(* The cache in front of the limit service (shield/resolve.rs): requests   *)
(* resolve a key's limit without ever waiting, serve an aged one while a   *)
(* background task fetches, and sweep the cache in passing.  Fetches are   *)
(* kept to one per key by the `inflight` marks and to a number of slots.   *)
(*                                                                         *)
(* Times are ages that stop counting where the code no longer tells them   *)
(* apart.  What an answer of the service maps to (a tier, numbers or no    *)
(* limit) is one value, numbered in the order the service changes it; 0 is *)
(* the negative entry a failure leaves.                                    *)
(***************************************************************************)
EXTENDS Naturals, FiniteSets, FiniteSetsExt

CONSTANTS
  Key, NoKey,     \* limited identities, and none
  Proc,           \* requests resolving at once
  Task,           \* background fetches at once
  MaxFetches,     \* MAX_CONCURRENT_FETCHES
  MaxEntries,     \* MAX_CACHE_ENTRIES
  Ttl,            \* ttl
  EvictAfter,     \* evict_after
  SweepInterval,  \* SWEEP_INTERVAL
  MaxChanges      \* bound: changes of limits at the service

ASSUME LimitAssumption ==
  /\ NoKey \notin Key /\ IsFiniteSet(Key) /\ IsFiniteSet(Task) /\ Cardinality(Task) >= MaxFetches
  /\ MaxFetches \in Nat \ {0} /\ MaxEntries \in Nat \ {0} /\ MaxChanges \in Nat
  /\ Ttl \in Nat \ {0} /\ EvictAfter \in Nat /\ EvictAfter >= Ttl
  /\ SweepInterval \in Nat \ {0}

VARIABLES
  limit,      \* the service's limit of each key
  cache,      \* key |-> profile, age (since `at`) and idle (since last_access)
  inflight,   \* keys with a refresh under way
  slots,      \* free permits of fetch_slots
  sinceSweep, \* age of last_sweep_ms
  loaded,     \* requests whose load of last_sweep_ms is still current
  pc, key,    \* where each request is, and the key it resolves
  todo,       \* keys its sweep has yet to visit or to drop
  task        \* the background fetches

requests == <<pc, key, todo>>
vars == <<limit, cache, inflight, slots, sinceSweep, loaded, requests, task>>

Cached == DOMAIN cache
NoTask == [pc |-> "free"]
Known(profile) == [profile |-> profile, age |-> 0, idle |-> 0]
Put(k, entry) == [x \in Cached \cup {k} |-> IF x = k THEN entry ELSE cache[x]]
Without(k) == [x \in Cached \ {k} |-> cache[x]]
Older(age, bound) == IF age < bound THEN age + 1 ELSE age
Aged(e) == [profile |-> e.profile, age |-> Older(e.age, Ttl), idle |-> Older(e.idle, EvictAfter)]
Goto(p, label) == pc' = [pc EXCEPT ![p] = label] /\ key' = key
Done(p) == pc' = [pc EXCEPT ![p] = "idle"] /\ key' = [key EXCEPT ![p] = NoKey]
Becomes(t, label, profile, over) ==
  task' = [task EXCEPT ![t] = [pc |-> label, key |-> @.key, profile |-> profile, over |-> over]]
Step(t, label) == Becomes(t, label, task[t].profile, task[t].over)

\* A fetch that stored its answer forgets it.
Stored(t) == Becomes(t, "unmark", 0, FALSE)

Init ==
  /\ limit = [k \in Key |-> 1]
  /\ cache = [k \in {} |-> Known(0)] /\ inflight = {} /\ slots = MaxFetches
  /\ sinceSweep = 0 /\ loaded = {}
  /\ pc = [p \in Proc |-> "idle"] /\ key = [p \in Proc |-> NoKey]
  /\ todo = [p \in Proc |-> {}] /\ task = [t \in Task |-> NoTask]

-----------------------------------------------------------------------------
\* Time and the service (external).

\* A sweep is over well within SWEEP_INTERVAL.
Tick ==
  /\ \A p \in Proc : pc[p] \notin {"claim", "retain", "trim"}
  /\ cache' = [k \in Cached |-> Aged(cache[k])]
  /\ sinceSweep' = Older(sinceSweep, SweepInterval)
  /\ UNCHANGED <<limit, inflight, slots, loaded, requests, task>>

Change(k) ==
  /\ MapThenSumSet(LAMBDA x : limit[x], Key) < Cardinality(Key) + MaxChanges
  /\ limit' = [limit EXCEPT ![k] = @ + 1]
  /\ UNCHANGED <<cache, inflight, slots, sinceSweep, loaded, requests, task>>

-----------------------------------------------------------------------------
\* A request: resolve, with the sweep first.

\* maybe_sweep loads last_sweep_ms.
Ask(p, k) ==
  /\ pc[p] = "idle" /\ key' = [key EXCEPT ![p] = k]
  /\ IF sinceSweep < SweepInterval
     THEN pc' = [pc EXCEPT ![p] = "lookup"] /\ loaded' = loaded
     ELSE pc' = [pc EXCEPT ![p] = "claim"] /\ loaded' = loaded \cup {p}
  /\ UNCHANGED <<limit, cache, inflight, slots, sinceSweep, todo, task>>

\* The compare-and-swap: only one request that loaded the value wins.
Claim(p) ==
  /\ pc[p] = "claim"
  /\ IF p \in loaded
     THEN /\ Goto(p, "retain") /\ todo' = [todo EXCEPT ![p] = Cached]
          /\ sinceSweep' = 0 /\ loaded' = {}
     ELSE Goto(p, "lookup") /\ UNCHANGED <<todo, sinceSweep, loaded>>
  /\ UNCHANGED <<limit, cache, inflight, slots, task>>

\* retain, one key at a time under its lock; what is inserted meanwhile is
\* fresh and would stay.
Retain(p, k) ==
  /\ pc[p] = "retain" /\ k \in todo[p] /\ todo' = [todo EXCEPT ![p] = @ \ {k}]
  /\ cache' = IF k \in Cached /\ cache[k].idle >= EvictAfter THEN Without(k) ELSE cache
  /\ UNCHANGED <<limit, inflight, slots, sinceSweep, loaded, pc, key, task>>

\* The backstop: the least recently read entries past the cap.  They are picked
\* and counted together, so that an insert in between is left for the next
\* sweep; their removal is key by key.
Pick(p) ==
  LET excess == Cardinality(Cached) - MaxEntries
      Oldest(S) == \A k \in S, x \in Cached \ S : cache[k].idle >= cache[x].idle
  IN /\ pc[p] = "retain" /\ todo[p] = {}
     /\ IF Cardinality(Cached) > MaxEntries
        THEN /\ \E S \in SUBSET Cached :
                  Cardinality(S) = excess /\ Oldest(S) /\ todo' = [todo EXCEPT ![p] = S]
             /\ Goto(p, "trim")
        ELSE Goto(p, "lookup") /\ todo' = todo
     /\ UNCHANGED <<limit, cache, inflight, slots, sinceSweep, loaded, task>>

Trim(p, k) ==
  /\ pc[p] = "trim" /\ k \in todo[p] /\ todo' = [todo EXCEPT ![p] = @ \ {k}]
  /\ cache' = Without(k) /\ Goto(p, IF todo[p] = {k} THEN "lookup" ELSE "trim")
  /\ UNCHANGED <<limit, inflight, slots, sinceSweep, loaded, task>>

\* The cached value, read with its access time; an aged or missing one is
\* refreshed after the lock is let go.
Lookup(p) ==
  LET k == key[p]
  IN /\ pc[p] = "lookup"
     /\ cache' = IF k \in Cached THEN [cache EXCEPT ![k].idle = 0] ELSE cache
     /\ IF k \in Cached /\ cache[k].age < Ttl THEN Done(p) ELSE Goto(p, "mark")
     /\ UNCHANGED <<limit, inflight, slots, sinceSweep, loaded, todo, task>>

\* Fault: the mark is set and not looked at.
MarkAnyway(p) ==
  /\ pc[p] = "mark" /\ inflight' = inflight \cup {key[p]} /\ Goto(p, "acquire")
  /\ UNCHANGED <<limit, cache, slots, sinceSweep, loaded, todo, task>>

\* trigger_refresh: one refresh per key.
Mark(p) ==
  /\ pc[p] = "mark"
  /\ IF key[p] \in inflight THEN inflight' = inflight /\ Done(p)
     ELSE inflight' = inflight \cup {key[p]} /\ Goto(p, "acquire")
  /\ UNCHANGED <<limit, cache, slots, sinceSweep, loaded, todo, task>>

Spawn(p, t) ==
  /\ pc[p] = "acquire" /\ slots > 0 /\ task[t] = NoTask
  /\ slots' = slots - 1 /\ Done(p)
  /\ task' = [task EXCEPT ![t] = [pc |-> "fetch", key |-> key[p], profile |-> 0, over |-> FALSE]]
  /\ UNCHANGED <<limit, cache, inflight, sinceSweep, loaded, todo>>

\* No slot is free: the refresh is skipped.
NoSlot(p) ==
  /\ pc[p] = "acquire" /\ slots = 0
  /\ inflight' = inflight \ {key[p]} /\ Done(p)
  /\ UNCHANGED <<limit, cache, slots, sinceSweep, loaded, todo, task>>

-----------------------------------------------------------------------------
\* The background task.

\* The service answers with its limit of the moment.
Respond(t) ==
  /\ task[t].pc = "fetch"
  /\ Becomes(t, "count", limit[task[t].key], FALSE)
  /\ UNCHANGED <<limit, cache, inflight, slots, sinceSweep, loaded, requests>>

\* Fault: a failure forgets the limit.
FailedForgets(t) ==
  /\ task[t].pc = "fetch" /\ Step(t, "count")
  /\ UNCHANGED <<limit, cache, inflight, slots, sinceSweep, loaded, requests>>

\* The fetch fails or times out: a known limit counts as fetched now, a new key
\* is to get a negative entry.
Failed(t) ==
  LET k == task[t].key
  IN /\ task[t].pc = "fetch"
     /\ IF k \in Cached THEN cache' = [cache EXCEPT ![k].age = 0] /\ Step(t, "unmark")
        ELSE cache' = cache /\ Step(t, "count")
     /\ UNCHANGED <<limit, inflight, slots, sinceSweep, loaded, requests>>

\* insert_capped reads the size before it locks the entry.
Count(t) ==
  /\ task[t].pc = "count"
  /\ Becomes(t, "insert", task[t].profile, Cardinality(Cached) >= MaxEntries)
  /\ UNCHANGED <<limit, cache, inflight, slots, sinceSweep, loaded, requests>>

\* Fault: a full cache takes new keys.
InsertAnyway(t) ==
  /\ task[t].pc = "insert" /\ Stored(t)
  /\ cache' = Put(task[t].key, Known(task[t].profile))
  /\ UNCHANGED <<limit, inflight, slots, sinceSweep, loaded, requests>>

Insert(t) ==
  LET k == task[t].key
  IN /\ task[t].pc = "insert" /\ Stored(t)
     /\ cache' = IF k \in Cached \/ ~task[t].over THEN Put(k, Known(task[t].profile)) ELSE cache
     /\ UNCHANGED <<limit, inflight, slots, sinceSweep, loaded, requests>>

Unmark(t) ==
  /\ task[t].pc = "unmark" /\ Step(t, "end") /\ inflight' = inflight \ {task[t].key}
  /\ UNCHANGED <<limit, cache, slots, sinceSweep, loaded, requests>>

\* The task ends, and its permit with it.
Release(t) ==
  /\ task[t].pc = "end" /\ task' = [task EXCEPT ![t] = NoTask] /\ slots' = slots + 1
  /\ UNCHANGED <<limit, cache, inflight, sinceSweep, loaded, requests>>

Resolving(p) ==
  \/ Claim(p) \/ Pick(p) \/ Lookup(p) \/ Mark(p) \/ NoSlot(p)
  \/ \E k \in Key : Retain(p, k) \/ Trim(p, k)
  \/ \E t \in Task : Spawn(p, t)
Fetching(t) == Respond(t) \/ Failed(t) \/ Count(t) \/ Insert(t) \/ Unmark(t) \/ Release(t)

Next ==
  \/ Tick \/ \E k \in Key : Change(k)
  \/ \E p \in Proc : Resolving(p) \/ \E k \in Key : Ask(p, k)
  \/ \E t \in Task : Fetching(t)

Spec == Init /\ [][Next]_vars

-----------------------------------------------------------------------------
Busy == {t \in Task : task[t] # NoTask}
Marked == {t \in Busy : task[t].pc # "end"}

Entry == [profile : Nat, age : 0..Ttl, idle : 0..EvictAfter]
TaskRecord ==
  [pc : {"fetch", "count", "insert", "unmark", "end"}, key : Key, profile : Nat, over : BOOLEAN]
\* Types: no more permits are free than MAX_CONCURRENT_FETCHES.
TypeOK ==
  /\ limit \in [Key -> Nat \ {0}]
  /\ Cached \subseteq Key
  /\ cache \in [Cached -> Entry]
  /\ inflight \subseteq Key /\ slots \in 0..MaxFetches /\ sinceSweep \in 0..SweepInterval
  /\ loaded \subseteq Proc /\ key \in [Proc -> Key \cup {NoKey}] /\ todo \in [Proc -> SUBSET Key]
  /\ pc \in [Proc -> {"idle", "claim", "retain", "trim", "lookup", "mark", "acquire"}]
  /\ task \in [Task -> {NoTask} \cup TaskRecord]

\* "Spawn a single background fetch for `key`": a mark has one owner, a request
\* about to take a slot or the task that will take the mark away.  No two tasks
\* work on one key, and no key is left marked and never refreshed again.
SingleFlight ==
  /\ \A t, u \in Marked : task[t].key = task[u].key => t = u
  /\ inflight = {key[p] : p \in {p \in Proc : pc[p] = "acquire"}} \cup {task[t].key : t \in Marked}

\* The soft cap: however inserts race with the reading of the size, the cache
\* never passes MAX_CACHE_ENTRIES by as many as MAX_CONCURRENT_FETCHES.
CacheBounded == Cardinality(Cached) < MaxEntries + MaxFetches

\* A limit the cache knows is replaced only by one the service gave later: no
\* late answer overwrites a newer one, and no failure a known limit
\* ("fail-static").
LimitNeverRegresses ==
  [][\A k \in Cached \cap Cached' : cache'[k].profile >= cache[k].profile]_cache
=============================================================================
