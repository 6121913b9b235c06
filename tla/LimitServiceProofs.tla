------------------------- MODULE LimitServiceProofs -------------------------
(***************************************************************************)
(* One fetch per key, a bounded cache and limits that never go back, for   *)
(* any number of keys, requests and fetches and any bound on the cache.    *)
(***************************************************************************)
EXTENDS LimitService, FiniteSetTheorems, TLAPS

\* A request has its key from Ask to Done.
KeysAsked == \A p \in Proc : pc[p] # "idle" => key[p] \in Key

\* The owners of the marks: requests about to take a slot, and marked tasks.
\* No two of them have the same key.
OwnersApart ==
  /\ \A p, q \in Proc : pc[p] = "acquire" /\ pc[q] = "acquire" /\ key[p] = key[q] => p = q
  /\ \A p \in Proc, t \in Marked : pc[p] = "acquire" => key[p] # task[t].key

\* Tasks that have seen room for their key and are about to take it.
Pending == {t \in Task : task[t].pc = "insert" /\ ~task[t].over}

\* A task runs on a permit, and the entries past the cap are those of tasks
\* that counted before: together with the pending ones they fit the permits.
SlotsHeld == slots + Cardinality(Busy) = MaxFetches
RoomLeft == Cardinality(Cached) + Cardinality(Pending) < MaxEntries + MaxFetches

\* No limit in the cache or on its way there is newer than the service's, and
\* an answer on its way is no older than what the cache knows of its key.
AnswersInOrder ==
  /\ \A k \in Cached : cache[k].profile <= limit[k]
  /\ \A t \in Busy :
       /\ task[t].profile <= limit[task[t].key]
       /\ task[t].pc = "fetch" => task[t].profile = 0
       /\ task[t].pc \in {"count", "insert"} /\ task[t].key \in Cached =>
            cache[task[t].key].profile <= task[t].profile

\* The inductive invariant.
LimitInv ==
  /\ TypeOK /\ KeysAsked /\ OwnersApart /\ SingleFlight
  /\ SlotsHeld /\ RoomLeft /\ AnswersInOrder

-----------------------------------------------------------------------------
\* Facts about tasks and sizes.

\* A task that is not free is a full record, and its label says so.
LEMMA TaskShape ==
  ASSUME NEW r \in {NoTask} \cup TaskRecord
  PROVE  /\ r.pc = "free" <=> r = NoTask
         /\ r # NoTask => r \in TaskRecord
         /\ r # NoTask => r.pc \in {"fetch", "count", "insert", "unmark", "end"}
<1>1. NoTask.pc = "free"
  BY DEF NoTask
<1>2. ASSUME r \in TaskRecord
      PROVE  r.pc \in {"fetch", "count", "insert", "unmark", "end"}
  BY <1>2 DEF TaskRecord
<1> QED
  BY <1>1, <1>2

\* The tasks that hold a slot, and those that hold the mark of their key.
LEMMA TaskSets ==
  ASSUME TypeOK
  PROVE  /\ Busy = {t \in Task : task[t].pc # "free"}
         /\ Marked = {t \in Task : task[t].pc \in {"fetch", "count", "insert", "unmark"}}
         /\ \A t \in Busy : task[t] \in TaskRecord
<1>1. \A t \in Task : task[t] \in {NoTask} \cup TaskRecord
  BY DEF TypeOK
<1> QED
  BY <1>1, TaskShape DEF Busy, Marked

\* The sets that are counted are finite.
LEMMA Sizes ==
  ASSUME TypeOK
  PROVE  /\ IsFiniteSet(Cached) /\ Cardinality(Cached) \in Nat
         /\ IsFiniteSet(Busy) /\ Cardinality(Busy) \in Nat
         /\ IsFiniteSet(Pending) /\ Cardinality(Pending) \in Nat
         /\ Cardinality(Pending) <= Cardinality(Busy)
<1>1. IsFiniteSet(Key) /\ IsFiniteSet(Task)
  BY LimitAssumption
<1>2. Cached \in SUBSET Key /\ Busy \in SUBSET Task
  BY DEF TypeOK, Busy
<1>3. Pending \in SUBSET Busy
  BY TaskSets DEF Pending
<1>4. IsFiniteSet(Cached) /\ IsFiniteSet(Busy)
  BY <1>1, <1>2, FS_Subset
<1>5. IsFiniteSet(Pending) /\ Cardinality(Pending) <= Cardinality(Busy)
  BY <1>3, <1>4, FS_Subset
<1> QED
  BY <1>4, <1>5, FS_CardinalityType

\* One task moves: it alone can enter or leave the counted sets.
LEMMA OneTaskMoves ==
  ASSUME TypeOK, NEW t \in Task, NEW r \in {NoTask} \cup TaskRecord, task' = [task EXCEPT ![t] = r]
  PROVE  /\ task' \in [Task -> {NoTask} \cup TaskRecord]
         /\ \A u \in Task : task'[u] = IF u = t THEN r ELSE task[u]
         /\ Busy' = IF r.pc # "free" THEN Busy \cup {t} ELSE Busy \ {t}
         /\ Marked' = IF r.pc \in {"fetch", "count", "insert", "unmark"}
                      THEN Marked \cup {t} ELSE Marked \ {t}
         /\ Pending' = IF r.pc = "insert" /\ ~r.over THEN Pending \cup {t} ELSE Pending \ {t}
<1>1. /\ r.pc = "free" <=> r = NoTask
      /\ r.pc \in {"free", "fetch", "count", "insert", "unmark", "end"}
  BY TaskShape
<1>2. /\ task' \in [Task -> {NoTask} \cup TaskRecord]
      /\ \A u \in Task : task'[u] = IF u = t THEN r ELSE task[u]
  BY DEF TypeOK
<1> QED
  BY <1>1, <1>2 DEF Busy, Marked, Pending

\* The same for a task that stays on its key.
LEMMA TaskBecomes ==
  ASSUME TypeOK, NEW t \in Busy, NEW l \in {"fetch", "count", "insert", "unmark", "end"},
         NEW n \in Nat, NEW b \in BOOLEAN, Becomes(t, l, n, b)
  PROVE  /\ t \in Task /\ task[t] \in TaskRecord
         /\ task' \in [Task -> {NoTask} \cup TaskRecord]
         /\ task'[t] = [pc |-> l, key |-> task[t].key, profile |-> n, over |-> b]
         /\ \A u \in Task \ {t} : task'[u] = task[u]
         /\ Busy' = Busy
         /\ Marked' = IF l # "end" THEN Marked \cup {t} ELSE Marked \ {t}
         /\ Pending' = IF l = "insert" /\ ~b THEN Pending \cup {t} ELSE Pending \ {t}
<1>1. t \in Task /\ task[t] \in TaskRecord
  BY TaskSets DEF Busy
<1> DEFINE r == [pc |-> l, key |-> task[t].key, profile |-> n, over |-> b]
<1>2. r \in TaskRecord /\ r.pc = l /\ r.over = b
  BY <1>1 DEF TaskRecord
<1>3. task' = [task EXCEPT ![t] = r]
  BY <1>1 DEF Becomes, TypeOK
<1> HIDE DEF r
<1>4. /\ task' \in [Task -> {NoTask} \cup TaskRecord]
      /\ \A u \in Task : task'[u] = IF u = t THEN r ELSE task[u]
      /\ Busy' = IF r.pc # "free" THEN Busy \cup {t} ELSE Busy \ {t}
      /\ Marked' = IF r.pc \in {"fetch", "count", "insert", "unmark"}
                   THEN Marked \cup {t} ELSE Marked \ {t}
      /\ Pending' = IF r.pc = "insert" /\ ~r.over THEN Pending \cup {t} ELSE Pending \ {t}
  BY <1>1, <1>2, <1>3, OneTaskMoves
<1> QED
  BY <1>1, <1>2, <1>4 DEF r

-----------------------------------------------------------------------------
\* What a step that leaves the tasks alone keeps.

\* Requests come and go, and none takes or gives a mark.
LEMMA OwnersKept ==
  ASSUME LimitInv, UNCHANGED <<inflight, slots, task>>,
         \A p \in Proc : /\ pc'[p] = "acquire" <=> pc[p] = "acquire"
                         /\ pc[p] = "acquire" => key'[p] = key[p]
  PROVE  OwnersApart' /\ SingleFlight' /\ SlotsHeld'
<1>1. Busy' = Busy /\ Marked' = Marked
  BY DEF Busy, Marked
<1>2. OwnersApart'
  BY <1>1 DEF LimitInv, OwnersApart
<1>3. SingleFlight'
  BY <1>1 DEF LimitInv, SingleFlight
<1> QED
  BY <1>1, <1>2, <1>3 DEF LimitInv, SlotsHeld

\* Entries are dropped or touched, and limits grow.
LEMMA EntriesKept ==
  ASSUME LimitInv, UNCHANGED task, limit' \in [Key -> Nat], \A k \in Key : limit[k] <= limit'[k],
         Cached' \subseteq Cached, \A k \in Cached' : cache'[k].profile = cache[k].profile
  PROVE  RoomLeft' /\ AnswersInOrder'
<1>1. Busy' = Busy /\ Pending' = Pending
  BY DEF Busy, Pending
<1>2. Cardinality(Cached') <= Cardinality(Cached) /\ Cardinality(Cached') \in Nat
  BY Sizes, FS_Subset, FS_CardinalityType DEF LimitInv
<1>3. RoomLeft'
  BY <1>1, <1>2, Sizes, LimitAssumption DEF LimitInv, RoomLeft
<1>4. \A t \in Busy : task[t] \in TaskRecord
  BY TaskSets DEF LimitInv
<1>5. AnswersInOrder'
  <2>1. ASSUME NEW k \in Cached' PROVE cache'[k].profile <= limit'[k]
    <3>1. k \in Cached /\ k \in Key /\ cache[k] \in Entry
      BY <2>1 DEF LimitInv, TypeOK
    <3>2. cache[k].profile \in Nat /\ limit[k] \in Nat /\ limit'[k] \in Nat
      BY <3>1 DEF LimitInv, TypeOK, Entry
    <3> QED
      BY <2>1, <3>1, <3>2 DEF LimitInv, AnswersInOrder
  <2>2. ASSUME NEW t \in Busy PROVE task[t].profile <= limit'[task[t].key]
    <3>1. task[t].key \in Key /\ task[t].profile \in Nat
      BY <1>4, <2>2 DEF TaskRecord
    <3> QED
      BY <2>2, <3>1 DEF LimitInv, AnswersInOrder, TypeOK
  <2> QED
    BY <1>1, <2>1, <2>2 DEF LimitInv, AnswersInOrder
<1> QED
  BY <1>3, <1>5

-----------------------------------------------------------------------------
\* Time, the service, and the requests that sweep and look up.

\* Time passes: entries age, and none changes hands.
LEMMA TickStep ==
  ASSUME LimitInv, Tick
  PROVE  LimitInv'
<1> USE LimitAssumption DEF LimitInv
<1>1. Cached' = Cached /\ cache' = [k \in Cached |-> Aged(cache[k])]
  BY DEF Tick, Cached
<1>2. ASSUME NEW k \in Cached
      PROVE  Aged(cache[k]) \in Entry /\ Aged(cache[k]).profile = cache[k].profile
  <2>1. cache[k] \in Entry
    BY <1>2 DEF TypeOK
  <2> QED
    BY <2>1 DEF Aged, Older, Entry
<1>3. TypeOK'
  BY <1>1, <1>2 DEF Tick, TypeOK, Older, requests
<1>4. OwnersApart' /\ SingleFlight' /\ SlotsHeld'
  BY OwnersKept DEF Tick, requests
<1>5. RoomLeft' /\ AnswersInOrder'
  BY <1>1, <1>2, EntriesKept DEF Tick, TypeOK
<1>6. KeysAsked'
  BY DEF KeysAsked, Tick, requests
<1> QED
  BY <1>3, <1>4, <1>5, <1>6

\* The service changes a key's limit.
LEMMA ChangeStep ==
  ASSUME LimitInv, NEW k \in Key, Change(k)
  PROVE  LimitInv'
<1> USE LimitAssumption DEF LimitInv
<1>1. limit' = [limit EXCEPT ![k] = @ + 1] /\ cache' = cache
      /\ UNCHANGED <<inflight, slots, sinceSweep, loaded, pc, key, todo, task>>
  BY DEF Change, requests
<1>2. limit' \in [Key -> Nat \ {0}] /\ \A x \in Key : limit[x] <= limit'[x]
  BY <1>1 DEF TypeOK
<1>3. TypeOK' /\ KeysAsked'
  BY <1>1, <1>2 DEF TypeOK, KeysAsked, Cached
<1>4. OwnersApart' /\ SingleFlight' /\ SlotsHeld'
  BY <1>1, OwnersKept
<1>5. RoomLeft' /\ AnswersInOrder'
  BY <1>1, <1>2, EntriesKept DEF Cached
<1> QED
  BY <1>3, <1>4, <1>5

\* Requests that ask, claim the sweep or pick what to trim change no entry.
LEMMA SweepStep ==
  ASSUME LimitInv, NEW p \in Proc,
         (\E k \in Key : Ask(p, k)) \/ Claim(p) \/ Pick(p)
  PROVE  LimitInv'
<1> USE LimitAssumption DEF LimitInv
<1>1. UNCHANGED <<limit, cache, inflight, slots, task>>
  BY DEF Ask, Claim, Pick
<1> DEFINE Quiet == /\ TypeOK' /\ KeysAsked' /\ pc[p] # "acquire" /\ pc'[p] # "acquire"
                    /\ \A q \in Proc \ {p} : pc'[q] = pc[q] /\ key'[q] = key[q]
<1>2. Quiet
  <2>1. ASSUME NEW k \in Key, Ask(p, k) PROVE Quiet
    BY <1>1, <2>1 DEF Ask, TypeOK, KeysAsked, Cached
  <2>2. CASE Claim(p)
    BY <1>1, <2>2 DEF Claim, Goto, TypeOK, KeysAsked, Cached
  <2>3. CASE Pick(p)
    BY <1>1, <2>3 DEF Pick, Goto, TypeOK, KeysAsked, Cached
  <2> QED
    BY <2>1, <2>2, <2>3
<1>3. OwnersApart' /\ SingleFlight' /\ SlotsHeld'
  BY <1>1, <1>2, OwnersKept
<1>4. RoomLeft' /\ AnswersInOrder'
  BY <1>1, EntriesKept DEF TypeOK, Cached
<1> QED
  BY <1>2, <1>3, <1>4

\* A sweep drops entries.
LEMMA DropStep ==
  ASSUME LimitInv, NEW p \in Proc, NEW k \in Key, Retain(p, k) \/ Trim(p, k)
  PROVE  LimitInv'
<1> USE LimitAssumption DEF LimitInv
<1>1. UNCHANGED <<limit, inflight, slots, sinceSweep, loaded, key, task>>
  BY DEF Retain, Trim, Goto
<1>2. cache' = cache \/ cache' = Without(k)
  BY DEF Retain, Trim
<1>3. Cached' \subseteq Cached /\ cache' \in [Cached' -> Entry]
      /\ \A x \in Cached' : cache'[x] = cache[x]
  BY <1>2 DEF Without, Cached, TypeOK
<1>4. todo' \in [Proc -> SUBSET Key]
  BY DEF Retain, Trim, TypeOK
<1>5. /\ pc' \in [Proc -> {"idle", "claim", "retain", "trim", "lookup", "mark", "acquire"}]
      /\ \A q \in Proc : /\ pc'[q] = "acquire" <=> pc[q] = "acquire"
                         /\ pc'[q] # "idle" <=> pc[q] # "idle"
  BY DEF Retain, Trim, Goto, TypeOK
<1>6. TypeOK' /\ KeysAsked'
  BY <1>1, <1>3, <1>4, <1>5 DEF TypeOK, KeysAsked
<1>7. OwnersApart' /\ SingleFlight' /\ SlotsHeld'
  BY <1>1, <1>5, OwnersKept
<1>8. RoomLeft' /\ AnswersInOrder'
  BY <1>1, <1>3, EntriesKept DEF TypeOK
<1> QED
  BY <1>6, <1>7, <1>8

\* A lookup touches its entry.
LEMMA LookupStep ==
  ASSUME LimitInv, NEW p \in Proc, Lookup(p)
  PROVE  LimitInv'
<1> USE LimitAssumption DEF LimitInv
<1>1. UNCHANGED <<limit, inflight, slots, sinceSweep, loaded, todo, task>>
  BY DEF Lookup
<1>2. key[p] \in Key
  BY DEF Lookup, KeysAsked
<1>3. Cached' = Cached /\ cache' \in [Cached -> Entry]
      /\ \A k \in Cached : cache'[k].profile = cache[k].profile
  <2>1. CASE key[p] \in Cached
    <3>1. cache[key[p]] \in Entry /\ cache' = [cache EXCEPT ![key[p]].idle = 0]
      BY <2>1 DEF Lookup, TypeOK
    <3> QED
      BY <2>1, <3>1 DEF Entry, Cached, TypeOK
  <2>2. CASE key[p] \notin Cached
    BY <2>2 DEF Lookup, TypeOK, Cached
  <2> QED
    BY <2>1, <2>2
<1>4. /\ pc' \in [Proc -> {"idle", "claim", "retain", "trim", "lookup", "mark", "acquire"}]
      /\ key' \in [Proc -> Key \cup {NoKey}]
      /\ pc[p] # "acquire" /\ pc'[p] # "acquire" /\ (pc'[p] # "idle" => key'[p] = key[p])
      /\ \A q \in Proc \ {p} : pc'[q] = pc[q] /\ key'[q] = key[q]
  BY DEF Lookup, Goto, Done, TypeOK
<1>5. TypeOK' /\ KeysAsked'
  BY <1>1, <1>2, <1>3, <1>4 DEF TypeOK, KeysAsked
<1>6. OwnersApart' /\ SingleFlight' /\ SlotsHeld'
  BY <1>1, <1>4, OwnersKept
<1>7. RoomLeft' /\ AnswersInOrder'
  BY <1>1, <1>3, EntriesKept DEF TypeOK
<1> QED
  BY <1>5, <1>6, <1>7

-----------------------------------------------------------------------------
\* The marks and who owns them.

\* A request sets the mark only where there is none, so it is its only owner.
LEMMA MarkStep ==
  ASSUME LimitInv, NEW p \in Proc, Mark(p)
  PROVE  LimitInv'
<1> USE LimitAssumption DEF LimitInv
<1>1. UNCHANGED <<limit, cache, slots, sinceSweep, loaded, todo, task>> /\ pc[p] = "mark"
  BY DEF Mark
<1>2. key[p] \in Key
  BY <1>1 DEF KeysAsked
<1>3. RoomLeft' /\ AnswersInOrder'
  BY <1>1, EntriesKept DEF TypeOK, Cached
<1>4. CASE key[p] \in inflight
  <2>1. inflight' = inflight /\ Done(p)
    BY <1>4 DEF Mark
  <2>2. TypeOK' /\ KeysAsked'
    BY <1>1, <2>1 DEF Done, TypeOK, KeysAsked, Cached
  <2>3. OwnersApart' /\ SingleFlight' /\ SlotsHeld'
    BY <1>1, <2>1, OwnersKept DEF Done, TypeOK
  <2> QED
    BY <1>3, <2>2, <2>3
<1>5. CASE key[p] \notin inflight
  <2>1. inflight' = inflight \cup {key[p]} /\ Goto(p, "acquire")
    BY <1>5 DEF Mark
  <2>2. TypeOK' /\ KeysAsked'
    BY <1>1, <1>2, <2>1 DEF Goto, TypeOK, KeysAsked, Cached
  <2>3. key' = key /\ \A q \in Proc : pc'[q] = IF q = p THEN "acquire" ELSE pc[q]
    BY <2>1 DEF Goto, TypeOK
  <2>4. Busy' = Busy /\ Marked' = Marked
    BY <1>1 DEF Busy, Marked
  <2>5. /\ \A q \in Proc : pc[q] = "acquire" => key[q] # key[p]
        /\ \A t \in Marked : task[t].key # key[p]
    BY <1>5 DEF SingleFlight
  <2>6. OwnersApart'
    BY <1>1, <2>3, <2>4, <2>5 DEF OwnersApart
  <2>7. SingleFlight'
    BY <1>1, <2>1, <2>3, <2>4 DEF SingleFlight
  <2> QED
    BY <1>1, <1>3, <2>2, <2>4, <2>6, <2>7 DEF SlotsHeld
<1> QED
  BY <1>4, <1>5

\* Without a slot the request takes its mark back: it was the only owner.
LEMMA NoSlotStep ==
  ASSUME LimitInv, NEW p \in Proc, NoSlot(p)
  PROVE  LimitInv'
<1> USE LimitAssumption DEF LimitInv
<1>1. /\ UNCHANGED <<limit, cache, slots, sinceSweep, loaded, todo, task>> /\ pc[p] = "acquire"
      /\ inflight' = inflight \ {key[p]} /\ Done(p)
  BY DEF NoSlot
<1>2. RoomLeft' /\ AnswersInOrder'
  BY <1>1, EntriesKept DEF TypeOK, Cached
<1>3. TypeOK' /\ KeysAsked'
  BY <1>1 DEF Done, TypeOK, KeysAsked, Cached
<1>4. \A q \in Proc : /\ pc'[q] = IF q = p THEN "idle" ELSE pc[q]
                      /\ key'[q] = IF q = p THEN NoKey ELSE key[q]
  BY <1>1 DEF Done, TypeOK
<1>5. Busy' = Busy /\ Marked' = Marked
  BY <1>1 DEF Busy, Marked
<1>6. OwnersApart'
  BY <1>1, <1>4, <1>5 DEF OwnersApart
<1>7. SingleFlight'
  BY <1>1, <1>4, <1>5 DEF SingleFlight, OwnersApart
<1> QED
  BY <1>1, <1>2, <1>3, <1>5, <1>6, <1>7 DEF SlotsHeld

\* The mark passes from the request to its task, with a permit.
LEMMA SpawnStep ==
  ASSUME LimitInv, NEW p \in Proc, NEW t \in Task, Spawn(p, t)
  PROVE  LimitInv'
<1> USE LimitAssumption DEF LimitInv
<1> DEFINE r == [pc |-> "fetch", key |-> key[p], profile |-> 0, over |-> FALSE]
<1>1. /\ UNCHANGED <<limit, cache, inflight, sinceSweep, loaded, todo>> /\ pc[p] = "acquire"
      /\ slots > 0 /\ slots' = slots - 1 /\ task[t] = NoTask /\ Done(p)
      /\ task' = [task EXCEPT ![t] = r]
  BY DEF Spawn
<1>2. key[p] \in Key
  BY <1>1 DEF KeysAsked
<1>3. r \in TaskRecord /\ r.pc = "fetch" /\ r.key = key[p] /\ r.profile = 0
  BY <1>2 DEF TaskRecord
<1> HIDE DEF r
<1>4. t \notin Busy /\ t \notin Marked /\ t \notin Pending
  BY <1>1 DEF Busy, Marked, Pending, NoTask
<1>5. /\ task' \in [Task -> {NoTask} \cup TaskRecord]
      /\ \A u \in Task : task'[u] = IF u = t THEN r ELSE task[u]
      /\ Busy' = Busy \cup {t} /\ Marked' = Marked \cup {t} /\ Pending' = Pending
  <2>1. TypeOK /\ r \in {NoTask} \cup TaskRecord
    BY <1>3
  <2>2. /\ task' \in [Task -> {NoTask} \cup TaskRecord]
        /\ \A u \in Task : task'[u] = IF u = t THEN r ELSE task[u]
        /\ Busy' = IF r.pc # "free" THEN Busy \cup {t} ELSE Busy \ {t}
        /\ Marked' = IF r.pc \in {"fetch", "count", "insert", "unmark"}
                     THEN Marked \cup {t} ELSE Marked \ {t}
        /\ Pending' = IF r.pc = "insert" /\ ~r.over THEN Pending \cup {t} ELSE Pending \ {t}
    BY <1>1, <2>1, OneTaskMoves
  <2> QED
    BY <1>3, <1>4, <2>2
<1>6. \A q \in Proc : /\ pc'[q] = IF q = p THEN "idle" ELSE pc[q]
                      /\ key'[q] = IF q = p THEN NoKey ELSE key[q]
  BY <1>1 DEF Done, TypeOK
<1>7. TypeOK' /\ KeysAsked'
  BY <1>1, <1>5 DEF Done, TypeOK, KeysAsked, Cached
<1>8. OwnersApart'
  BY <1>1, <1>3, <1>4, <1>5, <1>6 DEF OwnersApart, Marked, Busy
<1>9. SingleFlight'
  <2>1. \A u, v \in Marked' : task'[u].key = task'[v].key => u = v
    BY <1>1, <1>3, <1>5 DEF SingleFlight, OwnersApart, Marked, Busy
  <2>2. inflight' = {key'[q] : q \in {q \in Proc : pc'[q] = "acquire"}}
                      \cup {task'[u].key : u \in Marked'}
    BY <1>1, <1>3, <1>4, <1>5, <1>6 DEF SingleFlight, OwnersApart, Marked, Busy
  <2> QED
    BY <2>1, <2>2 DEF SingleFlight
<1>10. SlotsHeld'
  <2>1. Cardinality(Busy') = Cardinality(Busy) + 1 /\ Cardinality(Busy) \in Nat
    BY <1>4, <1>5, Sizes, FS_AddElement
  <2> QED
    BY <1>1, <2>1 DEF SlotsHeld, TypeOK
<1>11. RoomLeft' /\ AnswersInOrder'
  <2>1. RoomLeft'
    BY <1>1, <1>5 DEF RoomLeft, Cached
  <2>2. AnswersInOrder'
    BY <1>1, <1>2, <1>3, <1>5 DEF AnswersInOrder, Cached, Busy, TypeOK
  <2> QED
    BY <2>1, <2>2
<1> QED
  BY <1>7, <1>8, <1>9, <1>10, <1>11

-----------------------------------------------------------------------------
\* The background task.

\* A task that goes on keeps its mark and its permit.
LEMMA TaskGoesOn ==
  ASSUME LimitInv, NEW t \in Marked, UNCHANGED <<inflight, slots, pc, key>>,
         NEW l \in {"count", "insert", "unmark"}, NEW n \in Nat, NEW b \in BOOLEAN,
         Becomes(t, l, n, b)
  PROVE  KeysAsked' /\ OwnersApart' /\ SingleFlight' /\ SlotsHeld'
<1>1. TypeOK /\ t \in Busy
  BY DEF LimitInv, Marked
<1>2. /\ task'[t] = [pc |-> l, key |-> task[t].key, profile |-> n, over |-> b]
      /\ \A u \in Task \ {t} : task'[u] = task[u]
      /\ Busy' = Busy /\ Marked' = Marked
  BY <1>1, TaskBecomes
<1>3. Marked \subseteq Task /\ \A u \in Marked : task'[u].key = task[u].key
  BY <1>2 DEF Marked, Busy
<1>4. KeysAsked'
  BY DEF LimitInv, KeysAsked
<1>5. OwnersApart'
  BY <1>2, <1>3 DEF LimitInv, OwnersApart
<1>6. SingleFlight'
  BY <1>2, <1>3 DEF LimitInv, SingleFlight
<1> QED
  BY <1>2, <1>4, <1>5, <1>6 DEF LimitInv, SlotsHeld

\* The facts of one task that the order of answers rests on.
LEMMA TaskFacts ==
  ASSUME LimitInv, NEW t \in Busy
  PROVE  /\ t \in Task /\ task[t] \in TaskRecord
         /\ task[t].key \in Key /\ task[t].profile \in Nat /\ task[t].over \in BOOLEAN
         /\ limit[task[t].key] \in Nat /\ task[t].profile <= limit[task[t].key]
         /\ task[t].pc # "end" => t \in Marked
<1>1. t \in Task /\ task[t] \in TaskRecord
  BY TaskSets DEF LimitInv, Busy
<1>2. task[t].key \in Key /\ task[t].profile \in Nat /\ task[t].over \in BOOLEAN
  BY <1>1 DEF TaskRecord
<1> QED
  BY <1>1, <1>2 DEF LimitInv, TypeOK, AnswersInOrder, Marked

\* An answer is the service's limit of the moment: no cached one is newer.
LEMMA RespondStep ==
  ASSUME LimitInv, NEW t \in Task, Respond(t)
  PROVE  LimitInv'
<1>1. /\ UNCHANGED <<limit, cache, inflight, slots, sinceSweep, loaded, pc, key, todo>>
      /\ task[t].pc = "fetch" /\ Becomes(t, "count", limit[task[t].key], FALSE)
  BY DEF Respond, requests
<1>2. t \in Busy
  BY <1>1, TaskSets DEF LimitInv
<1>3. t \in Marked /\ task[t].key \in Key /\ limit[task[t].key] \in Nat
  BY <1>1, <1>2, TaskFacts
<1>4. /\ task' \in [Task -> {NoTask} \cup TaskRecord]
      /\ task'[t] = [pc |-> "count", key |-> task[t].key, profile |-> limit[task[t].key],
                     over |-> FALSE]
      /\ \A u \in Task \ {t} : task'[u] = task[u]
      /\ Busy' = Busy /\ Pending' = Pending \ {t}
  BY <1>1, <1>2, <1>3, TaskBecomes DEF LimitInv
<1>5. t \notin Pending /\ Pending' = Pending
  BY <1>1, <1>4 DEF Pending
<1>6. TypeOK'
  BY <1>1, <1>4 DEF LimitInv, TypeOK, Cached
<1>7. KeysAsked' /\ OwnersApart' /\ SingleFlight' /\ SlotsHeld'
  BY <1>1, <1>3, TaskGoesOn
<1>8. RoomLeft'
  BY <1>1, <1>5 DEF LimitInv, RoomLeft, Cached
<1>9. AnswersInOrder'
  BY <1>1, <1>3, <1>4 DEF LimitInv, AnswersInOrder, Cached, Busy
<1> QED
  BY <1>6, <1>7, <1>8, <1>9 DEF LimitInv

\* A failure touches a known entry, or goes on with nothing for a new key.
LEMMA FailedStep ==
  ASSUME LimitInv, NEW t \in Task, Failed(t)
  PROVE  LimitInv'
<1>1. /\ UNCHANGED <<limit, inflight, slots, sinceSweep, loaded, pc, key, todo>>
      /\ task[t].pc = "fetch"
  BY DEF Failed, requests
<1>2. t \in Busy
  BY <1>1, TaskSets DEF LimitInv
<1>3. /\ t \in Marked /\ task[t].key \in Key /\ task[t].profile \in Nat /\ task[t].over \in BOOLEAN
      /\ task[t].profile <= limit[task[t].key]
  BY <1>1, <1>2, TaskFacts
<1>4. PICK l \in {"count", "unmark"} :
        /\ Becomes(t, l, task[t].profile, task[t].over)
        /\ l = "count" => task[t].key \notin Cached
  BY DEF Failed, Step
<1>5. /\ task' \in [Task -> {NoTask} \cup TaskRecord]
      /\ task'[t] = [pc |-> l, key |-> task[t].key, profile |-> task[t].profile,
                     over |-> task[t].over]
      /\ \A u \in Task \ {t} : task'[u] = task[u]
      /\ Busy' = Busy /\ Pending' = Pending \ {t}
  BY <1>2, <1>3, <1>4, TaskBecomes DEF LimitInv
<1>6. Cached' = Cached /\ cache' \in [Cached -> Entry]
      /\ \A k \in Cached : cache'[k].profile = cache[k].profile
  <2>1. CASE task[t].key \in Cached
    <3>1. cache[task[t].key] \in Entry /\ cache' = [cache EXCEPT ![task[t].key].age = 0]
      BY <2>1 DEF Failed, LimitInv, TypeOK
    <3> QED
      BY <2>1, <3>1, LimitAssumption DEF Entry, Cached, LimitInv, TypeOK
  <2>2. CASE task[t].key \notin Cached
    BY <2>2 DEF Failed, LimitInv, TypeOK, Cached
  <2> QED
    BY <2>1, <2>2
<1>7. TypeOK'
  BY <1>1, <1>5, <1>6 DEF LimitInv, TypeOK
<1>8. KeysAsked' /\ OwnersApart' /\ SingleFlight' /\ SlotsHeld'
  BY <1>1, <1>3, <1>4, TaskGoesOn
<1>9. Pending' = Pending
  BY <1>1, <1>5 DEF Pending
<1>10. RoomLeft'
  BY <1>6, <1>9 DEF LimitInv, RoomLeft
<1>11. AnswersInOrder'
  BY <1>1, <1>3, <1>4, <1>5, <1>6 DEF LimitInv, AnswersInOrder, Busy
<1> QED
  BY <1>7, <1>8, <1>10, <1>11 DEF LimitInv

\* A task that counted fewer than MAX_CACHE_ENTRIES is pending; there are no
\* more pending tasks than permits.
LEMMA CountStep ==
  ASSUME LimitInv, NEW t \in Task, Count(t)
  PROVE  LimitInv'
<1> DEFINE b == Cardinality(Cached) >= MaxEntries
<1>1. /\ UNCHANGED <<limit, cache, inflight, slots, sinceSweep, loaded, pc, key, todo>>
      /\ task[t].pc = "count" /\ Becomes(t, "insert", task[t].profile, b)
  BY DEF Count, requests
<1>2. t \in Busy
  BY <1>1, TaskSets DEF LimitInv
<1>3. /\ t \in Marked /\ task[t].key \in Key /\ task[t].profile \in Nat
      /\ task[t].profile <= limit[task[t].key] /\ b \in BOOLEAN
  BY <1>1, <1>2, TaskFacts
<1>4. ~b => Cardinality(Cached) < MaxEntries
  BY Sizes, LimitAssumption DEF LimitInv
<1> HIDE DEF b
<1>5. /\ task' \in [Task -> {NoTask} \cup TaskRecord]
      /\ task'[t] = [pc |-> "insert", key |-> task[t].key, profile |-> task[t].profile, over |-> b]
      /\ \A u \in Task \ {t} : task'[u] = task[u]
      /\ Busy' = Busy /\ Pending' = IF ~b THEN Pending \cup {t} ELSE Pending \ {t}
  BY <1>1, <1>2, <1>3, TaskBecomes DEF LimitInv
<1>6. TypeOK'
  BY <1>1, <1>5 DEF LimitInv, TypeOK, Cached
<1>7. KeysAsked' /\ OwnersApart' /\ SingleFlight' /\ SlotsHeld'
  BY <1>1, <1>3, TaskGoesOn
<1>8. RoomLeft'
  <2>1. CASE b
    <3>1. t \notin Pending
      BY <1>1 DEF Pending
    <3> QED
      BY <1>1, <1>5, <2>1, <3>1 DEF LimitInv, RoomLeft, Cached
  <2>2. CASE ~b
    <3>1. Cardinality(Pending') \in Nat /\ Cardinality(Pending') <= Cardinality(Busy)
      <4>1. Pending' \in SUBSET Busy
        BY <1>2, <1>5, TaskSets DEF LimitInv, Pending
      <4> QED
        BY <4>1, Sizes, FS_Subset, FS_CardinalityType DEF LimitInv
    <3>2. Cardinality(Busy) <= MaxFetches
      BY Sizes, LimitAssumption DEF LimitInv, SlotsHeld, TypeOK
    <3> QED
      BY <1>1, <1>4, <2>2, <3>1, <3>2, Sizes, LimitAssumption DEF LimitInv, RoomLeft, Cached
  <2> QED
    BY <2>1, <2>2
<1>9. AnswersInOrder'
  BY <1>1, <1>3, <1>5 DEF LimitInv, AnswersInOrder, Cached, Busy
<1> QED
  BY <1>6, <1>7, <1>8, <1>9 DEF LimitInv

\* An insert of a new key uses up its pending place; no other task has an
\* answer for that key.
LEMMA InsertStep ==
  ASSUME LimitInv, NEW t \in Task, Insert(t)
  PROVE  LimitInv'
<1> DEFINE k == task[t].key
<1>1. /\ UNCHANGED <<limit, inflight, slots, sinceSweep, loaded, pc, key, todo>>
      /\ task[t].pc = "insert" /\ Becomes(t, "unmark", 0, FALSE)
  BY DEF Insert, Stored, requests
<1>2. t \in Busy
  BY <1>1, TaskSets DEF LimitInv
<1>3. /\ t \in Marked /\ k \in Key /\ task[t].profile \in Nat /\ task[t].over \in BOOLEAN
      /\ limit[k] \in Nat /\ task[t].profile <= limit[k]
  BY <1>1, <1>2, TaskFacts
<1>4. /\ task' \in [Task -> {NoTask} \cup TaskRecord]
      /\ task'[t] = [pc |-> "unmark", key |-> k, profile |-> 0, over |-> FALSE]
      /\ \A u \in Task \ {t} : task'[u] = task[u]
      /\ Busy' = Busy /\ Pending' = Pending \ {t}
  BY <1>1, <1>2, TaskBecomes DEF LimitInv
<1>5. /\ cache' = IF k \in Cached \/ ~task[t].over THEN Put(k, Known(task[t].profile)) ELSE cache
      /\ Known(task[t].profile) \in Entry /\ Known(task[t].profile).profile = task[t].profile
  BY <1>3, LimitAssumption DEF Insert, Known, Entry
<1> HIDE DEF k
<1>6. /\ Cached' = IF ~task[t].over THEN Cached \cup {k} ELSE Cached
      /\ cache' \in [Cached' -> Entry]
      /\ \A x \in Cached' \ {k} : x \in Cached /\ cache'[x] = cache[x]
      /\ k \in Cached' => cache'[k].profile = task[t].profile
  BY <1>5 DEF Put, Cached, LimitInv, TypeOK
<1>7. TypeOK'
  BY <1>1, <1>3, <1>4, <1>6 DEF LimitInv, TypeOK
<1>8. KeysAsked' /\ OwnersApart' /\ SingleFlight' /\ SlotsHeld'
  BY <1>1, <1>3, TaskGoesOn
<1>9. RoomLeft'
  <2>1. CASE task[t].over
    <3>1. t \notin Pending
      BY <2>1 DEF Pending
    <3> QED
      BY <1>4, <1>6, <2>1, <3>1 DEF LimitInv, RoomLeft
  <2>2. CASE ~task[t].over
    <3>1. t \in Pending
      BY <1>1, <2>2 DEF Pending
    <3>2. Cardinality(Pending') = Cardinality(Pending) - 1
      BY <1>4, <3>1, Sizes, FS_RemoveElement DEF LimitInv
    <3>3. Cardinality(Cached') \in {Cardinality(Cached), Cardinality(Cached) + 1}
      BY <1>6, <2>2, Sizes, FS_AddElement DEF LimitInv
    <3> QED
      BY <3>2, <3>3, Sizes, LimitAssumption DEF LimitInv, RoomLeft
  <2> QED
    BY <2>1, <2>2
<1>10. AnswersInOrder'
  <2>1. \A x \in Cached' : cache'[x].profile <= limit'[x]
    BY <1>1, <1>3, <1>6 DEF LimitInv, AnswersInOrder
  <2>2. ASSUME NEW u \in Busy, u # t
        PROVE  /\ task[u].profile <= limit[task[u].key]
               /\ task[u].pc = "fetch" => task[u].profile = 0
               /\ task[u].pc \in {"count", "insert"} /\ task[u].key \in Cached' =>
                    cache'[task[u].key].profile <= task[u].profile
    <3>1. task[u].pc \in {"count", "insert"} => task[u].key # k
      BY <1>3, <2>2 DEF LimitInv, SingleFlight, Marked, k
    <3> QED
      BY <1>6, <2>2, <3>1 DEF LimitInv, AnswersInOrder
  <2> QED
    BY <1>1, <1>3, <1>4, <2>1, <2>2 DEF AnswersInOrder, Busy
<1> QED
  BY <1>7, <1>8, <1>9, <1>10 DEF LimitInv

\* A task that is done takes away its own mark, of which it is the only owner.
LEMMA UnmarkStep ==
  ASSUME LimitInv, NEW t \in Task, Unmark(t)
  PROVE  LimitInv'
<1>1. /\ UNCHANGED <<limit, cache, slots, sinceSweep, loaded, pc, key, todo>>
      /\ task[t].pc = "unmark" /\ Becomes(t, "end", task[t].profile, task[t].over)
      /\ inflight' = inflight \ {task[t].key}
  BY DEF Unmark, Step, requests
<1>2. t \in Busy
  BY <1>1, TaskSets DEF LimitInv
<1>3. /\ t \in Marked /\ task[t].profile \in Nat /\ task[t].over \in BOOLEAN
      /\ task[t].profile <= limit[task[t].key]
  BY <1>1, <1>2, TaskFacts
<1>4. /\ task' \in [Task -> {NoTask} \cup TaskRecord]
      /\ task'[t] = [pc |-> "end", key |-> task[t].key, profile |-> task[t].profile,
                     over |-> task[t].over]
      /\ \A u \in Task \ {t} : task'[u] = task[u]
      /\ Busy' = Busy /\ Marked' = Marked \ {t} /\ Pending' = Pending \ {t}
  BY <1>1, <1>2, <1>3, TaskBecomes DEF LimitInv
<1>5. Pending' = Pending /\ Marked' \subseteq Marked /\ \A u \in Marked' : task'[u] = task[u]
  BY <1>1, <1>4 DEF Pending, Marked, Busy
<1>6. TypeOK' /\ KeysAsked'
  BY <1>1, <1>4 DEF LimitInv, TypeOK, KeysAsked, Cached
<1>7. OwnersApart'
  BY <1>1, <1>5 DEF LimitInv, OwnersApart
<1>8. SingleFlight'
  <2>1. \A u \in Marked : u # t => task[u].key # task[t].key
    BY <1>3 DEF LimitInv, SingleFlight
  <2>2. \A p \in Proc : pc[p] = "acquire" => key[p] # task[t].key
    BY <1>3 DEF LimitInv, OwnersApart
  <2> QED
    BY <1>1, <1>3, <1>4, <1>5, <2>1, <2>2 DEF LimitInv, SingleFlight
<1>9. SlotsHeld' /\ RoomLeft'
  BY <1>1, <1>4, <1>5 DEF LimitInv, SlotsHeld, RoomLeft, Cached
<1>10. AnswersInOrder'
  BY <1>1, <1>3, <1>4 DEF LimitInv, AnswersInOrder, Cached, Busy
<1> QED
  BY <1>6, <1>7, <1>8, <1>9, <1>10 DEF LimitInv

\* The permit goes back with the task.
LEMMA ReleaseStep ==
  ASSUME LimitInv, NEW t \in Task, Release(t)
  PROVE  LimitInv'
<1>1. /\ UNCHANGED <<limit, cache, inflight, sinceSweep, loaded, pc, key, todo>>
      /\ task[t].pc = "end" /\ task' = [task EXCEPT ![t] = NoTask] /\ slots' = slots + 1
  BY DEF Release, requests
<1>2. t \in Busy /\ t \notin Marked /\ t \notin Pending
  BY <1>1, TaskSets DEF LimitInv, Marked, Pending
<1>3. NoTask.pc = "free" /\ TypeOK
  BY DEF NoTask, LimitInv
<1>4. /\ task' \in [Task -> {NoTask} \cup TaskRecord]
      /\ \A u \in Task \ {t} : task'[u] = task[u]
      /\ Busy' = Busy \ {t} /\ Marked' = Marked /\ Pending' = Pending
  <2>1. /\ task' \in [Task -> {NoTask} \cup TaskRecord]
        /\ \A u \in Task : task'[u] = IF u = t THEN NoTask ELSE task[u]
        /\ Busy' = IF NoTask.pc # "free" THEN Busy \cup {t} ELSE Busy \ {t}
        /\ Marked' = IF NoTask.pc \in {"fetch", "count", "insert", "unmark"}
                     THEN Marked \cup {t} ELSE Marked \ {t}
        /\ Pending' = IF NoTask.pc = "insert" /\ ~NoTask.over THEN Pending \cup {t} ELSE Pending \ {t}
    BY <1>1, <1>3, OneTaskMoves
  <2> QED
    BY <1>2, <1>3, <2>1
<1>5. Cardinality(Busy') = Cardinality(Busy) - 1
  BY <1>2, <1>3, <1>4, Sizes, FS_RemoveElement
<1>6. Cardinality(Busy) \in Nat /\ Cardinality(Busy) >= 1
  BY <1>2, <1>3, Sizes, FS_EmptySet
<1>7. SlotsHeld' /\ slots' \in 0..MaxFetches
  BY <1>1, <1>5, <1>6, LimitAssumption DEF LimitInv, SlotsHeld, TypeOK
<1>8. TypeOK' /\ KeysAsked'
  BY <1>1, <1>4, <1>7 DEF LimitInv, TypeOK, KeysAsked, Cached
<1>9. \A u \in Marked : task'[u] = task[u]
  BY <1>2, <1>4 DEF Marked, Busy
<1>10. OwnersApart' /\ SingleFlight'
  BY <1>1, <1>4, <1>9 DEF LimitInv, OwnersApart, SingleFlight
<1>11. RoomLeft'
  BY <1>1, <1>4 DEF LimitInv, RoomLeft, Cached
<1>12. AnswersInOrder'
  BY <1>1, <1>4 DEF LimitInv, AnswersInOrder, Cached, Busy
<1> QED
  BY <1>7, <1>8, <1>10, <1>11, <1>12 DEF LimitInv

-----------------------------------------------------------------------------
\* The cache starts in the invariant.
LEMMA InvInit ==
  ASSUME Init
  PROVE  LimitInv
<1> USE LimitAssumption DEF Init
<1>1. Cached = {} /\ Busy = {} /\ Marked = {} /\ Pending = {}
  BY DEF Cached, Busy, Marked, Pending, NoTask
<1>2. TypeOK
  BY <1>1 DEF TypeOK, Cached
<1>3. KeysAsked /\ OwnersApart
  BY <1>1 DEF KeysAsked, OwnersApart
<1>4. SingleFlight
  BY <1>1 DEF SingleFlight
<1>5. Cardinality({}) = 0
  BY FS_EmptySet
<1>6. SlotsHeld /\ RoomLeft
  BY <1>1, <1>5 DEF SlotsHeld, RoomLeft
<1>7. AnswersInOrder
  BY <1>1 DEF AnswersInOrder
<1> QED
  BY <1>2, <1>3, <1>4, <1>6, <1>7 DEF LimitInv

\* Every step of a request, a fetch task, the service or time keeps the invariant.
LEMMA InvStep ==
  ASSUME LimitInv, [Next]_vars
  PROVE  LimitInv'
<1>1. CASE UNCHANGED vars
  <2>1. UNCHANGED <<limit, cache, inflight, slots, sinceSweep, loaded, pc, key, todo, task>>
    BY <1>1 DEF vars, requests
  <2>2. Busy' = Busy /\ Marked' = Marked /\ Pending' = Pending /\ Cached' = Cached
    BY <2>1 DEF Busy, Marked, Pending, Cached
  <2> QED
    BY <2>1, <2>2 DEF LimitInv, TypeOK, KeysAsked, OwnersApart, SingleFlight, SlotsHeld, RoomLeft,
                      AnswersInOrder
<1>2. ASSUME NEW p \in Proc, Resolving(p) \/ \E k \in Key : Ask(p, k)
      PROVE  LimitInv'
  BY <1>2, SweepStep, DropStep, LookupStep, MarkStep, NoSlotStep, SpawnStep DEF Resolving
<1>3. ASSUME NEW t \in Task, Fetching(t)
      PROVE  LimitInv'
  BY <1>3, RespondStep, FailedStep, CountStep, InsertStep, UnmarkStep, ReleaseStep DEF Fetching
<1> QED
  BY <1>1, <1>2, <1>3, TickStep, ChangeStep DEF Next

\* The invariant holds throughout.
LEMMA InvHolds == Spec => []LimitInv
  BY InvInit, InvStep, PTL DEF Spec

\* The cache in front of the limit service keeps its types; no more permits
\* are ever free than MAX_CONCURRENT_FETCHES.
THEOREM TypeCorrect == Spec => []TypeOK
<1>1. LimitInv => TypeOK
  BY DEF LimitInv
<1> QED
  BY <1>1, InvHolds, PTL

\* trigger_refresh spawns one background fetch per key at most, and every mark
\* has an owner that will take it away.
THEOREM OneFetchPerKey == Spec => []SingleFlight
<1>1. LimitInv => SingleFlight
  BY DEF LimitInv
<1> QED
  BY <1>1, InvHolds, PTL

\* insert_capped never takes the cache MAX_CONCURRENT_FETCHES entries past
\* MAX_CACHE_ENTRIES, however its reading of the size races with inserts.
THEOREM SoftCapHolds == Spec => []CacheBounded
<1>1. ASSUME LimitInv PROVE CacheBounded
  BY <1>1, Sizes, LimitAssumption DEF LimitInv, RoomLeft, CacheBounded
<1> QED
  BY <1>1, InvHolds, PTL

\* Only Insert gives a cached key another limit.
LEMMA OnlyInsertReplaces ==
  ASSUME LimitInv, Next, cache' # cache, ~ \E t \in Task : Insert(t)
  PROVE  \A k \in Cached \cap Cached' : cache'[k].profile = cache[k].profile
<1>0. TypeOK /\ cache \in [Cached -> Entry]
  BY DEF LimitInv, TypeOK
<1>1. CASE Tick
  BY <1>1 DEF Tick, Aged, Cached
<1>2. ASSUME NEW p \in Proc, NEW k \in Key, Retain(p, k) \/ Trim(p, k)
      PROVE  \A x \in Cached \cap Cached' : cache'[x].profile = cache[x].profile
  BY <1>2 DEF Retain, Trim, Without, Cached
<1>3. ASSUME NEW p \in Proc, Lookup(p)
      PROVE  \A x \in Cached \cap Cached' : cache'[x].profile = cache[x].profile
  <2>1. key[p] \in Cached /\ cache' = [cache EXCEPT ![key[p]].idle = 0]
    BY <1>3 DEF Lookup
  <2>2. cache[key[p]] \in Entry
    BY <1>0, <2>1
  <2> QED
    BY <1>0, <2>1, <2>2 DEF Entry, Cached
<1>4. ASSUME NEW t \in Task, Failed(t)
      PROVE  \A x \in Cached \cap Cached' : cache'[x].profile = cache[x].profile
  <2>1. task[t].key \in Cached /\ cache' = [cache EXCEPT ![task[t].key].age = 0]
    BY <1>4 DEF Failed
  <2>2. cache[task[t].key] \in Entry
    BY <1>0, <2>1
  <2> QED
    BY <1>0, <2>1, <2>2 DEF Entry, Cached
<1> QED
  BY <1>1, <1>2, <1>3, <1>4
  DEF Next, Resolving, Fetching, Change, Ask, Claim, Pick, Mark, NoSlot, Spawn, Respond, Count,
      Unmark, Release

\* refresh replaces a known limit only by one the service gave later: no late
\* answer overwrites a newer one and no failure a known limit.
THEOREM LimitsNeverGoBack == Spec => LimitNeverRegresses
<1>1. ASSUME LimitInv, [Next]_vars
      PROVE  [\A k \in Cached \cap Cached' : cache'[k].profile >= cache[k].profile]_cache
  <2>1. SUFFICES ASSUME cache' # cache, NEW k \in Cached \cap Cached'
                 PROVE  cache'[k].profile >= cache[k].profile
    OBVIOUS
  <2>2. Next
    BY <1>1, <2>1 DEF vars
  <2>3. cache[k].profile \in Nat
    BY <1>1, <2>1 DEF LimitInv, TypeOK, Entry
  <2>4. ASSUME NEW t \in Task, Insert(t)
        PROVE  cache'[k].profile >= cache[k].profile
    <3>1. task[t].pc = "insert" /\ cache' = Put(task[t].key, Known(task[t].profile))
      BY <2>1, <2>4 DEF Insert
    <3>2. t \in Busy
      BY <1>1, <3>1, TaskSets DEF LimitInv
    <3>3. task[t].profile \in Nat
      BY <1>1, <3>2, TaskFacts
    <3>4. cache'[k] = IF k = task[t].key THEN Known(task[t].profile) ELSE cache[k]
      BY <2>1, <3>1 DEF Put, Cached
    <3> QED
      BY <1>1, <2>1, <2>3, <3>1, <3>2, <3>3, <3>4 DEF LimitInv, AnswersInOrder, Known
  <2>5. CASE ~ \E t \in Task : Insert(t)
    BY <1>1, <2>1, <2>2, <2>3, <2>5, OnlyInsertReplaces
  <2> QED
    BY <2>4, <2>5
<1> QED
  BY <1>1, InvHolds, PTL DEF Spec, LimitNeverRegresses
=============================================================================
