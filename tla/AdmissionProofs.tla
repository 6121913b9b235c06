-------------------------- MODULE AdmissionProofs --------------------------
(***************************************************************************)
(* Theorems about the way in: Guards, ClaimsCache and ForwardingPath.      *)
(*                                                                         *)
(* Whatever the configuration, the requests and what is answered to them,  *)
(* permits are neither lost nor doubled, nothing reaches the upstream      *)
(* unvetted, and what the client is told is right.                         *)
(*                                                                         *)
(* The claims cache never holds more than max_entries tokens, never leaks  *)
(* a slot and never answers with stale claims, for any number of tokens    *)
(* and concurrent requests.                                                *)
(*                                                                         *)
(* Behind any number of proxies the client's address is found and cannot   *)
(* be forged, whatever the client wrote and however long the lists are.    *)
(***************************************************************************)
EXTENDS ForwardingPath, Guards, ClaimsCache, FiniteSetTheorems, SequenceTheorems, WellFoundedInduction, TLAPS

\* What a sweep has freed it has visited, and only a sweep holds freed slots:
\* without it a sweep could free one entry twice and count it once.
SweepState ==
  \A p \in Proc : todo[p] \cap freed[p] = {} /\ (pc[p] # "sweep" => freed[p] = {})

\* The inductive invariant.
CacheInv == TypeOK /\ SweepState /\ SlotsAccounted

\* The three kinds of slot holders are finite sets, so their sizes add up.
LEMMA Sizes ==
  ASSUME TypeOK
  PROVE  /\ IsFiniteSet(Cached) /\ Cardinality(Cached) \in Nat
         /\ IsFiniteSet(Pledged) /\ Cardinality(Pledged) \in Nat
         /\ IsFiniteSet(Swept) /\ Cardinality(Swept) \in Nat
<1>1. IsFiniteSet(Token) /\ IsFiniteSet(Proc)
  BY CacheAssumption
<1>2. IsFiniteSet(Proc \X Token)
  BY <1>1, FS_Product
<1>3. Cached \in SUBSET Token /\ Pledged \in SUBSET Proc /\ Swept \in SUBSET (Proc \X Token)
  BY DEF TypeOK, Pledged, Swept
<1>4. IsFiniteSet(Cached) /\ IsFiniteSet(Pledged) /\ IsFiniteSet(Swept)
  BY <1>1, <1>2, <1>3, FS_Subset
<1> QED
  BY <1>4, FS_CardinalityType

\* Pledged follows the label of the one request that moves.
LEMMA PledgedMoves ==
  ASSUME TypeOK, NEW p \in Proc, NEW l \in Labels, pc' = [pc EXCEPT ![p] = l]
  PROVE  Pledged' = IF l \in {"drop", "store", "give"} THEN Pledged \cup {p} ELSE Pledged \ {p}
  BY DEF TypeOK, Pledged

\* The clocks, the locals and the history of a step keep their types; the
\* counter's type needs the accounting below.
LEMMA TypeStep ==
  ASSUME TypeOK, Next, taken' \in Nat
  PROVE  TypeOK'
<1>0. /\ MaxUnix \in Nat /\ MaxTtl \in Nat /\ Exp \in [Token -> Nat]
  BY CacheAssumption
<1>1. CASE Tick
  BY <1>0, <1>1 DEF Tick, TypeOK, local, Cached
<1>2. ASSUME NEW p \in Proc, NEW t \in Token, Begin(p, t) PROVE TypeOK'
  BY <1>2 DEF Begin, Goto, TypeOK, Labels, Cached
<1>3. ASSUME NEW p \in Proc, GetHit(p) \/ GetMiss(p) \/ Refuse(p) \/ InsertSkip(p)
      PROVE  TypeOK'
  <2>1. \E l \in Labels : pc' = [pc EXCEPT ![p] = l]
    BY <1>3 DEF GetHit, GetMiss, Refuse, InsertSkip, Goto, Labels
  <2>2. UNCHANGED <<mono, unix, entries, taken, nextSweep, token, now, todo, freed, verified>>
    BY <1>3 DEF GetHit, GetMiss, Refuse, InsertSkip
  <2> QED
    BY <2>1, <2>2 DEF TypeOK, Cached
<1>4. ASSUME NEW p \in Proc, Purge(p) PROVE TypeOK'
  <2>1. \E l \in Labels : pc' = [pc EXCEPT ![p] = l]
    BY <1>4 DEF Purge, Goto, Labels
  <2>2. entries' = entries \/ entries' = Dropped(entries, token[p])
    BY <1>4 DEF Purge
  <2>3. Cached' \subseteq Token /\ entries' \in [Cached' -> [exp : Nat, deadline : Nat]]
    BY <2>2 DEF TypeOK, Cached, Dropped
  <2> QED
    BY <1>4, <2>1, <2>3 DEF Purge, TypeOK
<1>5. ASSUME NEW p \in Proc, DropSlot(p) \/ GiveBack(p) PROVE TypeOK'
  <2>1. \E l \in Labels : pc' = [pc EXCEPT ![p] = l]
    BY <1>5 DEF DropSlot, GiveBack, Goto, Labels
  <2> QED
    BY <1>5, <2>1 DEF DropSlot, GiveBack, TypeOK, Cached
<1>6. ASSUME NEW p \in Proc, Accept(p) PROVE TypeOK'
  BY <1>6 DEF Accept, Goto, TypeOK, Labels, Cached
<1>7. ASSUME NEW p \in Proc, InsertReserve(p) \/ InsertRetry(p) PROVE TypeOK'
  <2>1. \E l \in Labels : pc' = [pc EXCEPT ![p] = l]
    BY <1>7 DEF InsertReserve, InsertRetry, Reserve, Goto, Labels
  <2>2. UNCHANGED <<mono, unix, entries, nextSweep, token, now, todo, freed, verified>>
    BY <1>7 DEF InsertReserve, InsertRetry, Reserve
  <2> QED
    BY <2>1, <2>2 DEF TypeOK, Cached
<1>8. ASSUME NEW p \in Proc, ClaimSweep(p) PROVE TypeOK'
  <2>1. \E l \in Labels : pc' = [pc EXCEPT ![p] = l]
    BY <1>8 DEF ClaimSweep, Goto, Labels
  <2>2. nextSweep' \in Nat /\ todo' \in [Proc -> SUBSET Token]
    <3>1. \/ UNCHANGED <<nextSweep, todo>>
          \/ nextSweep' = now[p].mono + 1 /\ todo' = [todo EXCEPT ![p] = Token]
      BY <1>8 DEF ClaimSweep
    <3>2. now[p].mono \in Nat
      BY DEF TypeOK
    <3> QED
      BY <3>1, <3>2 DEF TypeOK
  <2> QED
    BY <1>8, <2>1, <2>2 DEF ClaimSweep, TypeOK, Cached
<1>9. ASSUME NEW p \in Proc, NEW t \in Token, SweepEntry(p, t) PROVE TypeOK'
  <2>1. \/ entries' = entries /\ freed' = freed
        \/ entries' = Dropped(entries, t) /\ freed' = [freed EXCEPT ![p] = @ \cup {t}]
    BY <1>9 DEF SweepEntry
  <2>2. Cached' \subseteq Token /\ entries' \in [Cached' -> [exp : Nat, deadline : Nat]]
    BY <2>1 DEF TypeOK, Cached, Dropped
  <2>3. freed' \in [Proc -> SUBSET Token] /\ todo' \in [Proc -> SUBSET Token]
    <3>1. todo' = [todo EXCEPT ![p] = todo[p] \ {t}]
      BY <1>9 DEF SweepEntry
    <3>2. todo' \in [Proc -> SUBSET Token]
      BY <3>1 DEF TypeOK
    <3>3. freed' \in [Proc -> SUBSET Token]
      BY <2>1 DEF TypeOK
    <3> QED
      BY <3>2, <3>3
  <2> QED
    BY <1>9, <2>2, <2>3 DEF SweepEntry, TypeOK
<1>10. ASSUME NEW p \in Proc, SweepEnd(p) PROVE TypeOK'
  BY <1>10 DEF SweepEnd, Goto, TypeOK, Labels, Cached
<1>11. ASSUME NEW p \in Proc, Store(p) PROVE TypeOK'
  <2> DEFINE e == [exp |-> Exp[token[p]], deadline |-> now[p].mono + MaxTtl]
  <2>1. \E l \in Labels : pc' = [pc EXCEPT ![p] = l]
    BY <1>11 DEF Store, Goto, Labels
  <2>2. e \in [exp : Nat, deadline : Nat] /\ token[p] \in Token
    BY <1>0 DEF TypeOK
  <2>3. entries' = Stored(entries, token[p], e)
    BY <1>11 DEF Store
  <2> HIDE DEF e
  <2>4. Cached' \subseteq Token /\ entries' \in [Cached' -> [exp : Nat, deadline : Nat]]
    BY <2>2, <2>3 DEF TypeOK, Cached, Stored
  <2> QED
    BY <1>11, <2>1, <2>4 DEF Store, TypeOK
<1> QED
  BY <1>1, <1>2, <1>3, <1>4, <1>5, <1>6, <1>7, <1>8, <1>9, <1>10, <1>11 DEF Next

-----------------------------------------------------------------------------
\* The slots before and after a step, when the holders change by one element
\* of one kind, or one element passes from one kind to another.
LEMMA SlotsStep ==
  ASSUME CacheInv, Next
  PROVE  /\ taken' = Cardinality(Cached') + Cardinality(Pledged') + Cardinality(Swept')
         /\ taken' \in Nat /\ taken' <= MaxEntries
<1> DEFINE Goal == /\ taken' = Cardinality(Cached') + Cardinality(Pledged') + Cardinality(Swept')
                   /\ taken' \in Nat /\ taken' <= MaxEntries
           Pledges == {"drop", "store", "give"}
<1> SUFFICES Goal
  OBVIOUS
<1>0. /\ TypeOK /\ SweepState /\ MaxEntries \in Nat
      /\ taken = Cardinality(Cached) + Cardinality(Pledged) + Cardinality(Swept)
      /\ taken \in Nat /\ taken <= MaxEntries
      /\ IsFiniteSet(Cached) /\ Cardinality(Cached) \in Nat
      /\ IsFiniteSet(Pledged) /\ Cardinality(Pledged) \in Nat
      /\ IsFiniteSet(Swept) /\ Cardinality(Swept) \in Nat
  BY Sizes, CacheAssumption DEF CacheInv, SlotsAccounted, TypeOK
<1>a. freed' = freed => Swept' = Swept
  BY DEF Swept
<1>b. entries' = entries => Cached' = Cached
  BY DEF Cached
<1>c. ASSUME NEW p \in Proc, NEW l \in Labels, pc[p] \notin Pledges, l \notin Pledges,
             pc' = [pc EXCEPT ![p] = l], UNCHANGED <<entries, taken, freed>>
      PROVE  Goal
  <2>1. Pledged' = Pledged
    <3>1. Pledged' = Pledged \ {p}
      BY <1>0, <1>c, PledgedMoves
    <3>2. p \notin Pledged
      BY <1>c DEF Pledged
    <3> QED
      BY <3>1, <3>2
  <2> QED
    BY <1>0, <1>a, <1>b, <1>c, <2>1
<1>1. CASE Tick
  <2>1. UNCHANGED <<entries, taken, freed, pc>>
    BY <1>1 DEF Tick, local
  <2>2. Pledged' = Pledged
    BY <2>1 DEF Pledged
  <2> QED
    BY <1>0, <1>a, <1>b, <2>1, <2>2
<1>2. ASSUME NEW p \in Proc,
             \/ \E t \in Token : Begin(p, t)
             \/ GetHit(p) \/ GetMiss(p) \/ Refuse(p) \/ InsertSkip(p)
             \/ Accept(p) \/ ClaimSweep(p)
      PROVE  Goal
  <2>1. /\ pc[p] \in {"idle", "get", "verify", "reserve", "claim"}
        /\ UNCHANGED <<entries, taken, freed>>
    BY <1>2 DEF Begin, GetHit, GetMiss, Refuse, InsertSkip, Accept, ClaimSweep
  <2>2. \E l \in Labels \ Pledges : pc' = [pc EXCEPT ![p] = l]
    BY <1>2 DEF Begin, GetHit, GetMiss, Refuse, InsertSkip, Accept, ClaimSweep, Goto, Labels
  <2>3. pc[p] \notin Pledges
    BY <2>1
  <2> QED
    BY <1>c, <2>1, <2>2, <2>3
<1>3. ASSUME NEW p \in Proc, Purge(p) PROVE Goal
  <2> DEFINE t == token[p]
  <2>0. pc[p] = "purge" /\ UNCHANGED <<taken, freed>>
    BY <1>3 DEF Purge
  <2>1. CASE t \in Cached /\ ~Live(entries[t], now[p])
    <3>1. entries' = Dropped(entries, t) /\ pc' = [pc EXCEPT ![p] = "drop"]
      BY <1>3, <2>1 DEF Purge, Goto
    <3>2. Cached' = Cached \ {t}
      BY <3>1 DEF Cached, Dropped
    <3>3. Pledged' = Pledged \cup {p} /\ p \notin Pledged
      BY <1>0, <2>0, <3>1, PledgedMoves DEF Pledged, Labels
    <3>4. Cardinality(Cached') = Cardinality(Cached) - 1
      BY <1>0, <2>1, <3>2, FS_RemoveElement
    <3>5. Cardinality(Pledged') = Cardinality(Pledged) + 1
      BY <1>0, <3>3, FS_AddElement
    <3> QED
      BY <1>0, <1>a, <2>0, <3>4, <3>5
  <2>2. CASE ~(t \in Cached /\ ~Live(entries[t], now[p]))
    <3>1. entries' = entries /\ pc' = [pc EXCEPT ![p] = "verify"]
      BY <1>3, <2>2 DEF Purge, Goto
    <3>2. "verify" \in Labels /\ pc[p] \notin Pledges
      BY <2>0 DEF Labels
    <3> QED
      BY <1>c, <2>0, <3>1, <3>2
  <2> QED
    BY <2>1, <2>2
<1>4. ASSUME NEW p \in Proc, DropSlot(p) \/ GiveBack(p) PROVE Goal
  <2>1. /\ pc[p] \in Pledges /\ taken' = taken - 1 /\ UNCHANGED <<entries, freed>>
        /\ \E l \in Labels \ Pledges : pc' = [pc EXCEPT ![p] = l]
    BY <1>4 DEF DropSlot, GiveBack, Goto, Labels
  <2>2. Pledged' = Pledged \ {p} /\ p \in Pledged
    BY <1>0, <2>1, PledgedMoves DEF Pledged
  <2>3. Cardinality(Pledged') = Cardinality(Pledged) - 1
    BY <1>0, <2>2, FS_RemoveElement
  <2>4. Cardinality(Pledged) # 0
    BY <1>0, <2>2, FS_EmptySet
  <2> QED
    BY <1>0, <1>a, <1>b, <2>1, <2>3, <2>4
<1>5. ASSUME NEW p \in Proc, InsertReserve(p) \/ InsertRetry(p) PROVE Goal
  <2>1. /\ pc[p] \in {"reserve", "again"} /\ UNCHANGED <<entries, freed>>
        /\ \/ /\ taken < MaxEntries /\ taken' = taken + 1
              /\ pc' = [pc EXCEPT ![p] = "store"]
           \/ /\ taken' = taken
              /\ \E l \in {"claim", "idle"} : pc' = [pc EXCEPT ![p] = l]
    BY <1>5 DEF InsertReserve, InsertRetry, Reserve, Goto
  <2>2. CASE taken < MaxEntries /\ taken' = taken + 1 /\ pc' = [pc EXCEPT ![p] = "store"]
    <3>1. Pledged' = Pledged \cup {p} /\ p \notin Pledged
      BY <1>0, <2>1, <2>2, PledgedMoves DEF Pledged, Labels
    <3>2. Cardinality(Pledged') = Cardinality(Pledged) + 1
      BY <1>0, <3>1, FS_AddElement
    <3> QED
      BY <1>0, <1>a, <1>b, <2>1, <2>2, <3>2
  <2>3. CASE taken' = taken /\ \E l \in {"claim", "idle"} : pc' = [pc EXCEPT ![p] = l]
    <3>1. \A l \in {"claim", "idle"} : l \in Labels /\ l \notin Pledges
      BY DEF Labels
    <3>2. pc[p] \notin Pledges
      BY <2>1
    <3> QED
      BY <1>c, <2>1, <2>3, <3>1, <3>2
  <2> QED
    BY <2>1, <2>2, <2>3
<1>6. ASSUME NEW p \in Proc, NEW t \in Token, SweepEntry(p, t) PROVE Goal
  <2>0. pc[p] = "sweep" /\ t \in todo[p] /\ UNCHANGED <<taken, pc>>
    BY <1>6 DEF SweepEntry
  <2>1. Pledged' = Pledged
    BY <2>0 DEF Pledged
  <2>2. CASE t \in Cached /\ ~Live(entries[t], now[p])
    <3>1. entries' = Dropped(entries, t) /\ freed' = [freed EXCEPT ![p] = @ \cup {t}]
      BY <1>6, <2>2 DEF SweepEntry
    <3>2. Cached' = Cached \ {t}
      BY <3>1 DEF Cached, Dropped
    <3>3. t \notin freed[p]
      BY <1>0, <2>0 DEF SweepState
    <3>4. Swept' = Swept \cup {<<p, t>>} /\ <<p, t>> \notin Swept
      BY <1>0, <3>1, <3>3 DEF Swept, TypeOK
    <3>5. Cardinality(Cached') = Cardinality(Cached) - 1
      BY <1>0, <2>2, <3>2, FS_RemoveElement
    <3>6. Cardinality(Swept') = Cardinality(Swept) + 1
      BY <1>0, <3>4, FS_AddElement
    <3> QED
      BY <1>0, <2>0, <2>1, <3>5, <3>6
  <2>3. CASE ~(t \in Cached /\ ~Live(entries[t], now[p]))
    <3>1. UNCHANGED <<entries, freed>>
      BY <1>6, <2>3 DEF SweepEntry
    <3> QED
      BY <1>0, <1>a, <1>b, <2>0, <2>1, <3>1
  <2> QED
    BY <2>2, <2>3
<1>7. ASSUME NEW p \in Proc, SweepEnd(p) PROVE Goal
  <2> DEFINE gone == {p} \X freed[p]
  <2>0. /\ pc[p] = "sweep" /\ pc' = [pc EXCEPT ![p] = "again"] /\ entries' = entries
        /\ taken' = taken - Cardinality(freed[p]) /\ freed' = [freed EXCEPT ![p] = {}]
    BY <1>7 DEF SweepEnd, Goto
  <2>1. Pledged' = Pledged
    <3>1. Pledged' = Pledged \ {p} /\ p \notin Pledged
      BY <1>0, <2>0, PledgedMoves DEF Pledged, Labels
    <3> QED
      BY <3>1
  <2>2. Swept' = Swept \ gone /\ gone \in SUBSET Swept
    BY <1>0, <2>0 DEF Swept, TypeOK
  <2>3. IsFiniteSet(freed[p]) /\ Cardinality(freed[p]) \in Nat
    <3>1. freed[p] \in SUBSET Token /\ IsFiniteSet(Token)
      BY <1>0, CacheAssumption DEF TypeOK
    <3> QED
      BY <3>1, FS_Subset, FS_CardinalityType
  <2>4. IsFiniteSet(gone) /\ Cardinality(gone) = Cardinality(freed[p])
    <3>1. IsFiniteSet({p}) /\ Cardinality({p}) = 1
      BY FS_Singleton
    <3>2. IsFiniteSet(gone) /\ Cardinality(gone) = Cardinality({p}) * Cardinality(freed[p])
      BY <2>3, <3>1, FS_Product
    <3> QED
      BY <2>3, <3>1, <3>2
  <2> HIDE DEF gone
  <2>5. Cardinality(Swept \ gone) = Cardinality(Swept) - Cardinality(gone)
    <3>1. Swept \cap gone = gone
      BY <2>2
    <3> QED
      BY <1>0, <3>1, FS_Difference
  <2>6. Cardinality(gone) <= Cardinality(Swept)
    BY <1>0, <2>2, FS_Subset
  <2> QED
    BY <1>0, <1>b, <2>0, <2>1, <2>2, <2>3, <2>4, <2>5, <2>6
<1>8. ASSUME NEW p \in Proc, Store(p) PROVE Goal
  <2> DEFINE t == token[p]
             e == [exp |-> Exp[t], deadline |-> now[p].mono + MaxTtl]
  <2>0. pc[p] = "store" /\ UNCHANGED <<taken, freed>>
    BY <1>8 DEF Store
  <2>1. Cached' = Cached \cup {t}
    <3>1. entries' = Stored(entries, t, e)
      BY <1>8 DEF Store
    <3> HIDE DEF e
    <3> QED
      BY <3>1 DEF Cached, Stored
  <2>2. p \in Pledged
    BY <2>0 DEF Pledged
  <2>3. CASE t \in Cached
    <3>1. pc' = [pc EXCEPT ![p] = "give"]
      BY <1>8, <2>3 DEF Store, Goto
    <3>2. Pledged' = Pledged \cup {p}
      BY <1>0, <3>1, PledgedMoves DEF Labels
    <3>3. Pledged' = Pledged /\ Cached' = Cached
      BY <2>1, <2>2, <2>3, <3>2
    <3> QED
      BY <1>0, <1>a, <2>0, <3>3
  <2>4. CASE t \notin Cached
    <3>1. pc' = [pc EXCEPT ![p] = "idle"]
      BY <1>8, <2>4 DEF Store, Goto
    <3>2. Pledged' = Pledged \ {p}
      BY <1>0, <3>1, PledgedMoves DEF Labels
    <3>3. Cardinality(Pledged') = Cardinality(Pledged) - 1
      BY <1>0, <2>2, <3>2, FS_RemoveElement
    <3>4. Cardinality(Cached') = Cardinality(Cached) + 1
      BY <1>0, <2>1, <2>4, FS_AddElement
    <3> QED
      BY <1>0, <1>a, <2>0, <3>3, <3>4
  <2> QED
    BY <2>3, <2>4
<1> HIDE DEF Goal
<1> QED
  BY <1>1, <1>2, <1>3, <1>4, <1>5, <1>6, <1>7, <1>8 DEF Next

\* A sweep frees only what it visits, once.
LEMMA SweepStateStep ==
  ASSUME CacheInv, Next
  PROVE  SweepState'
<1>0. TypeOK /\ SweepState
  BY DEF CacheInv
<1> SUFFICES ASSUME NEW q \in Proc
             PROVE  (todo[q] \cap freed[q] = {} /\ (pc[q] # "sweep" => freed[q] = {}))'
  BY DEF SweepState
<1>1. todo[q] \cap freed[q] = {} /\ (pc[q] # "sweep" => freed[q] = {})
  BY <1>0 DEF SweepState
<1>2. CASE Tick
  BY <1>1, <1>2 DEF Tick, local
<1>3. ASSUME NEW p \in Proc,
             \/ \E t \in Token : Begin(p, t)
             \/ GetHit(p) \/ GetMiss(p) \/ Purge(p) \/ DropSlot(p) \/ Accept(p) \/ Refuse(p)
             \/ InsertSkip(p) \/ InsertReserve(p) \/ InsertRetry(p) \/ Store(p) \/ GiveBack(p)
      PROVE  (todo[q] \cap freed[q] = {} /\ (pc[q] # "sweep" => freed[q] = {}))'
  <2>1. /\ UNCHANGED <<todo, freed>> /\ pc[p] # "sweep"
        /\ \E l \in Labels : pc' = [pc EXCEPT ![p] = l]
    BY <1>3 DEF Begin, GetHit, GetMiss, Purge, DropSlot, Accept, Refuse, InsertSkip,
                InsertReserve, InsertRetry, Reserve, Store, GiveBack, Goto, Labels
  <2> QED
    BY <1>0, <1>1, <2>1 DEF TypeOK
<1>4. ASSUME NEW p \in Proc, ClaimSweep(p)
      PROVE  (todo[q] \cap freed[q] = {} /\ (pc[q] # "sweep" => freed[q] = {}))'
  <2>1. /\ freed' = freed /\ pc[p] = "claim"
        /\ todo' = todo \/ todo' = [todo EXCEPT ![p] = Token]
        /\ \E l \in Labels : pc' = [pc EXCEPT ![p] = l]
    BY <1>4 DEF ClaimSweep, Goto, Labels
  <2>2. freed[p] = {}
    BY <1>0, <2>1 DEF SweepState
  <2> QED
    BY <1>0, <1>1, <2>1, <2>2 DEF TypeOK
<1>5. ASSUME NEW p \in Proc, NEW t \in Token, SweepEntry(p, t)
      PROVE  (todo[q] \cap freed[q] = {} /\ (pc[q] # "sweep" => freed[q] = {}))'
  <2>1. /\ pc' = pc /\ pc[p] = "sweep" /\ todo' = [todo EXCEPT ![p] = @ \ {t}]
        /\ freed' = freed \/ freed' = [freed EXCEPT ![p] = @ \cup {t}]
    BY <1>5 DEF SweepEntry
  <2> QED
    BY <1>0, <1>1, <2>1 DEF TypeOK
<1>6. ASSUME NEW p \in Proc, SweepEnd(p)
      PROVE  (todo[q] \cap freed[q] = {} /\ (pc[q] # "sweep" => freed[q] = {}))'
  <2>1. /\ todo' = todo /\ freed' = [freed EXCEPT ![p] = {}]
        /\ pc' = [pc EXCEPT ![p] = "again"]
    BY <1>6 DEF SweepEnd, Goto
  <2> QED
    BY <1>0, <1>1, <2>1 DEF TypeOK
<1> QED
  BY <1>2, <1>3, <1>4, <1>5, <1>6 DEF Next

\* The invariant holds initially and is kept by every step.
LEMMA CacheInvariant == Spec => []CacheInv
<1>1. Init => CacheInv
  <2> SUFFICES ASSUME Init PROVE CacheInv
    OBVIOUS
  <2>1. TypeOK /\ SweepState
    BY CacheAssumption DEF Init, TypeOK, SweepState, Cached, Labels
  <2>2. Cached = {} /\ Pledged = {} /\ Swept = {}
    BY DEF Init, Cached, Pledged, Swept
  <2>3. Cardinality(Cached) = 0 /\ Cardinality(Pledged) = 0 /\ Cardinality(Swept) = 0
    BY <2>2, FS_EmptySet
  <2> QED
    BY <2>1, <2>3, CacheAssumption DEF Init, CacheInv, SlotsAccounted
<1>2. CacheInv /\ [Next]_vars => CacheInv'
  <2> SUFFICES ASSUME CacheInv, [Next]_vars PROVE CacheInv'
    OBVIOUS
  <2>1. CASE Next
    BY <2>1, SlotsStep, SweepStateStep, TypeStep DEF CacheInv, SlotsAccounted
  <2>2. CASE UNCHANGED vars
    BY <2>2 DEF vars, local, CacheInv, TypeOK, SweepState, SlotsAccounted, Cached, Pledged, Swept
  <2> QED
    BY <2>1, <2>2
<1> QED
  BY <1>1, <1>2, PTL DEF Spec

\* The map and the counter of ClaimsCache keep their types: in particular no
\* fetch_sub takes the counter below zero.
THEOREM TypeCorrect == Spec => []TypeOK
  BY CacheInvariant, PTL DEF CacheInv

\* No slot of ClaimsCache is leaked or given back twice, and max_entries is a
\* hard limit, for every number of tokens and concurrent requests.
THEOREM SlotsKept == Spec => []SlotsAccounted
  BY CacheInvariant, PTL DEF CacheInv

-----------------------------------------------------------------------------
\* Freshness.

\* Claims accepted on a reading, and not stored yet.
Accepted == {"reserve", "claim", "sweep", "again", "store"}

\* No reading and no verification is of the future, claims about to be stored were
\* verified after their request's reading, and an entry lasts no longer than its
\* token and than max_ttl_secs past the token's last verification.
Readings == \A p \in Proc : now[p].mono <= mono
Verifications == \A t \in Token : verified[t] <= mono
Underway == \A p \in Proc : pc[p] \in Accepted => now[p].mono <= verified[token[p]]
EntriesFresh ==
  \A t \in Cached : entries[t].exp = Exp[t] /\ entries[t].deadline <= verified[t] + MaxTtl
FreshInv == TypeOK /\ Readings /\ Verifications /\ Underway /\ EntriesFresh

\* A step that neither stores claims nor verifies a token, and that takes no
\* reading, keeps all of it: it may only drop entries.
LEMMA FreshKept ==
  ASSUME FreshInv, NEW p \in Proc, NEW l \in Labels, l \in Accepted => pc[p] \in Accepted,
         pc' = [pc EXCEPT ![p] = l], UNCHANGED <<mono, token, now, verified>>,
         Cached' \subseteq Cached, \A t \in Cached' : entries'[t] = entries[t]
  PROVE  Readings' /\ Verifications' /\ Underway' /\ EntriesFresh'
<1>1. Readings' /\ Verifications'
  BY DEF FreshInv, Readings, Verifications
<1>2. Underway'
  BY DEF FreshInv, Underway, TypeOK
<1>3. EntriesFresh'
  BY DEF FreshInv, EntriesFresh
<1> QED
  BY <1>1, <1>2, <1>3

\* Every step keeps it, the store of a slow verification included.
LEMMA FreshStep ==
  ASSUME FreshInv, Next
  PROVE  Readings' /\ Verifications' /\ Underway' /\ EntriesFresh'
<1> DEFINE Goal == Readings' /\ Verifications' /\ Underway' /\ EntriesFresh'
<1> SUFFICES Goal
  OBVIOUS
<1>0. /\ TypeOK /\ mono \in Nat /\ MaxTtl \in Nat
      /\ \A t \in Token : verified[t] \in Nat /\ verified[t] <= mono
      /\ \A q \in Proc : token[q] \in Token /\ now[q].mono \in Nat /\ now[q].mono <= mono
      /\ Cached \subseteq Token
      /\ \A t \in Cached : entries[t].deadline \in Nat
  BY CacheAssumption DEF FreshInv, TypeOK, Readings, Verifications
<1>1. CASE Tick
  <2>1. mono' = mono + 1 /\ UNCHANGED <<entries, pc, token, now, verified>>
    BY <1>1 DEF Tick, local
  <2>2. Readings' /\ Verifications'
    BY <1>0, <2>1 DEF Readings, Verifications
  <2>3. Underway' /\ EntriesFresh'
    BY <2>1 DEF FreshInv, Underway, EntriesFresh, Cached
  <2> QED
    BY <2>2, <2>3
<1>2. ASSUME NEW p \in Proc, NEW t \in Token, Begin(p, t) PROVE Goal
  <2>1. /\ pc' = [pc EXCEPT ![p] = "get"] /\ token' = [token EXCEPT ![p] = t]
        /\ now' = [now EXCEPT ![p] = [unix |-> unix, mono |-> mono]]
        /\ UNCHANGED <<mono, entries, verified>>
    BY <1>2 DEF Begin, Goto
  <2>2. Readings' /\ Verifications'
    BY <1>0, <2>1 DEF Readings, Verifications, TypeOK
  <2>3. Underway'
    BY <1>0, <2>1 DEF FreshInv, Underway, TypeOK, Accepted
  <2>4. EntriesFresh'
    BY <2>1 DEF FreshInv, EntriesFresh, Cached
  <2> QED
    BY <2>2, <2>3, <2>4
<1>3. ASSUME NEW p \in Proc,
             \/ GetHit(p) \/ GetMiss(p) \/ DropSlot(p) \/ Refuse(p) \/ InsertSkip(p)
             \/ InsertReserve(p) \/ InsertRetry(p) \/ ClaimSweep(p) \/ SweepEnd(p) \/ GiveBack(p)
      PROVE  Goal
  <2>1. UNCHANGED <<mono, token, now, verified, entries>>
    BY <1>3 DEF GetHit, GetMiss, DropSlot, Refuse, InsertSkip, InsertReserve, InsertRetry, Reserve,
                ClaimSweep, SweepEnd, GiveBack
  <2>2. \E l \in Labels : (l \in Accepted => pc[p] \in Accepted) /\ pc' = [pc EXCEPT ![p] = l]
    BY <1>3 DEF GetHit, GetMiss, DropSlot, Refuse, InsertSkip, InsertReserve, InsertRetry, Reserve,
                ClaimSweep, SweepEnd, GiveBack, Goto, Labels, Accepted
  <2>3. Cached' \subseteq Cached /\ \A t \in Cached' : entries'[t] = entries[t]
    BY <2>1 DEF Cached
  <2> QED
    BY <2>1, <2>2, <2>3, FreshKept
<1>4. ASSUME NEW p \in Proc, Purge(p) PROVE Goal
  <2>1. UNCHANGED <<mono, token, now, verified>>
    BY <1>4 DEF Purge
  <2>2. \E l \in Labels : (l \in Accepted => pc[p] \in Accepted) /\ pc' = [pc EXCEPT ![p] = l]
    BY <1>4 DEF Purge, Goto, Labels, Accepted
  <2>3. entries' = entries \/ entries' = Dropped(entries, token[p])
    BY <1>4 DEF Purge
  <2>4. Cached' \subseteq Cached /\ \A t \in Cached' : entries'[t] = entries[t]
    BY <2>3 DEF Cached, Dropped
  <2> QED
    BY <2>1, <2>2, <2>4, FreshKept
<1>5. ASSUME NEW p \in Proc, NEW t \in Token, SweepEntry(p, t) PROVE Goal
  <2>1. pc' = pc /\ UNCHANGED <<mono, token, now, verified>>
    BY <1>5 DEF SweepEntry
  <2>2. pc' = [pc EXCEPT ![p] = pc[p]] /\ pc[p] \in Labels
    BY <1>0, <2>1 DEF TypeOK
  <2>3. entries' = entries \/ entries' = Dropped(entries, t)
    BY <1>5 DEF SweepEntry
  <2>4. Cached' \subseteq Cached /\ \A u \in Cached' : entries'[u] = entries[u]
    BY <2>3 DEF Cached, Dropped
  <2> QED
    BY <2>1, <2>2, <2>4, FreshKept
<1>6. ASSUME NEW p \in Proc, Accept(p) PROVE Goal
  <2>1. /\ pc' = [pc EXCEPT ![p] = "reserve"] /\ verified' = [verified EXCEPT ![token[p]] = mono]
        /\ UNCHANGED <<mono, entries, token, now>>
    BY <1>6 DEF Accept, Goto
  <2>2. \A t \in Token : verified'[t] \in Nat /\ verified[t] <= verified'[t] /\ verified'[t] <= mono
    BY <1>0, <2>1 DEF TypeOK
  <2>3. verified'[token[p]] = mono
    BY <1>0, <2>1 DEF TypeOK
  <2>4. Readings' /\ Verifications'
    BY <1>0, <2>1, <2>2 DEF Readings, Verifications
  <2>5. Underway'
    <3> SUFFICES ASSUME NEW q \in Proc, pc'[q] \in Accepted
                 PROVE  now[q].mono <= verified'[token[q]]
      BY <2>1 DEF Underway
    <3>1. CASE q = p BY <1>0, <2>3, <3>1
    <3>2. CASE q # p
      <4>1. pc[q] \in Accepted
        BY <1>0, <2>1, <3>2 DEF TypeOK
      <4>2. now[q].mono <= verified[token[q]]
        BY <4>1 DEF FreshInv, Underway
      <4> QED
        BY <1>0, <2>2, <4>2
    <3> QED
      BY <3>1, <3>2
  <2>6. EntriesFresh'
    <3> SUFFICES ASSUME NEW t \in Cached
                 PROVE  entries[t].exp = Exp[t] /\ entries[t].deadline <= verified'[t] + MaxTtl
      BY <2>1 DEF EntriesFresh, Cached
    <3>1. entries[t].exp = Exp[t] /\ entries[t].deadline <= verified[t] + MaxTtl
      BY DEF FreshInv, EntriesFresh
    <3> QED
      BY <1>0, <2>2, <3>1
  <2> QED
    BY <2>4, <2>5, <2>6
<1>7. ASSUME NEW p \in Proc, Store(p) PROVE Goal
  <2> DEFINE t == token[p]
             e == [exp |-> Exp[t], deadline |-> now[p].mono + MaxTtl]
  <2>1. /\ pc[p] = "store" /\ entries' = Stored(entries, t, e) /\ UNCHANGED <<mono, token, now, verified>>
    BY <1>7 DEF Store
  <2>2. \E l \in {"give", "idle"} : pc' = [pc EXCEPT ![p] = l]
    BY <1>7 DEF Store, Goto
  <2>3. Readings' /\ Verifications'
    BY <2>1 DEF FreshInv, Readings, Verifications
  <2>4. Underway'
    BY <1>0, <2>1, <2>2 DEF FreshInv, Underway, TypeOK, Accepted
  <2>5. now[p].mono <= verified[t]
    BY <2>1 DEF FreshInv, Underway, Accepted
  <2>6. e.exp = Exp[t] /\ e.deadline <= verified[t] + MaxTtl
    BY <1>0, <2>5
  <2> HIDE DEF e
  <2>7. Cached' = Cached \cup {t} /\ \A u \in Cached' : entries'[u] = IF u = t THEN e ELSE entries[u]
    BY <2>1 DEF Cached, Stored
  <2>8. EntriesFresh'
    BY <2>1, <2>6, <2>7 DEF FreshInv, EntriesFresh
  <2> QED
    BY <2>3, <2>4, <2>8
<1> HIDE DEF Goal
<1> QED
  BY <1>1, <1>2, <1>3, <1>4, <1>5, <1>6, <1>7 DEF Next

\* A hit answers from an entry of its own token, so within its bounds.
LEMMA HitFresh ==
  ASSUME FreshInv, NEW p \in Proc, GetHit(p)
  PROVE  now[p].mono < verified[token[p]] + MaxTtl /\ now[p].unix < Exp[token[p]]
<1>1. token[p] \in Cached /\ Live(entries[token[p]], now[p])
  BY DEF GetHit
<1>2. now[p].unix < entries[token[p]].exp /\ now[p].mono < entries[token[p]].deadline
  BY <1>1 DEF Live
<1>3. entries[token[p]].exp = Exp[token[p]] /\ entries[token[p]].deadline <= verified[token[p]] + MaxTtl
  BY <1>1 DEF FreshInv, EntriesFresh
<1>4. /\ token[p] \in Token /\ now[p].mono \in Nat /\ entries[token[p]].deadline \in Nat
      /\ verified[token[p]] \in Nat /\ MaxTtl \in Nat
  BY <1>1, CacheAssumption DEF FreshInv, TypeOK
<1> QED
  BY <1>2, <1>3, <1>4

\* No answer of ClaimsCache outlives its token or max_ttl_secs, for any number of
\* requests, however slow a verification and however the wall clock is set.
THEOREM AnswersFresh == Spec => CachedAnswerFresh
<1>1. Init => Readings /\ Verifications /\ Underway /\ EntriesFresh
  BY CacheAssumption DEF Init, Readings, Verifications, Underway, EntriesFresh, Cached, Accepted
<1>2. TypeOK /\ TypeOK' /\ (Readings /\ Verifications /\ Underway /\ EntriesFresh) /\ [Next]_vars
        => (Readings /\ Verifications /\ Underway /\ EntriesFresh)'
  <2>1. CASE UNCHANGED vars
    BY <2>1 DEF vars, local, Readings, Verifications, Underway, EntriesFresh, Cached
  <2>2. CASE Next
    BY <2>2, FreshStep DEF FreshInv
  <2> QED
    BY <2>1, <2>2
<1>3. /\ TypeOK /\ (Readings /\ Verifications /\ Underway /\ EntriesFresh) /\ [Next]_vars
      => [\A p \in Proc : GetHit(p) =>
            /\ now[p].mono < verified[token[p]] + MaxTtl
            /\ now[p].unix < Exp[token[p]]]_vars
  BY HitFresh DEF FreshInv
<1> QED
  BY <1>1, <1>2, <1>3, TypeCorrect, PTL DEF Spec, CachedAnswerFresh

-----------------------------------------------------------------------------
\* Induction over the naturals, and the concatenation of lines.

\* Among naturals a well-founded relation has a minimal element.
LEMMA MinimalIn ==
  ASSUME NEW R, IsWellFoundedOn(R, Nat), NEW T \in SUBSET Nat, T # {}
  PROVE  \E x \in T : \A y \in T : ~(<<y, x>> \in R)
  BY WFMin, Zenon

\* For the usual order a minimal element is the least.
LEMMA LeastByOrder ==
  ASSUME NEW R, \A x, y \in Nat : <<x, y>> \in R <=> x < y, NEW T \in SUBSET Nat,
         \E x \in T : \A y \in T : ~(<<y, x>> \in R)
  PROVE  \E x \in T : \A y \in T : x <= y
<1>1. PICK x \in T : \A y \in T : ~(<<y, x>> \in R)
  OBVIOUS
<1>2. x \in Nat /\ \A y \in T : y \in Nat /\ ~(y < x)
  BY <1>1
<1>3. \A y \in T : x <= y
  BY <1>2
<1> QED
  BY <1>3

\* A set of naturals has a least element.
LEMMA LeastIn ==
  \A T : T \in SUBSET Nat /\ T # {} => \E x \in T : \A y \in T : x <= y
<1> DEFINE R == OpToRel(<, Nat)
<1>1. IsWellFoundedOn(R, Nat)
  BY NatLessThanWellFounded
<1>2. \A x, y \in Nat : <<x, y>> \in R <=> x < y
  BY DEF OpToRel
<1> HIDE DEF R
<1> SUFFICES ASSUME NEW T \in SUBSET Nat, T # {} PROVE \E x \in T : \A y \in T : x <= y
  BY Zenon
<1>3. \E x \in T : \A y \in T : ~(<<y, x>> \in R)
  BY <1>1, MinimalIn, Zenon
<1> QED
  BY <1>2, <1>3, LeastByOrder, Zenon

\* Induction over the naturals, with a set for the property.
LEMMA Induction ==
  ASSUME NEW T, 0 \in T, \A n \in Nat : n \in T => n + 1 \in T
  PROVE  Nat \subseteq T
<1> SUFFICES ASSUME Nat \ T # {} PROVE FALSE
  OBVIOUS
<1>1. PICK x \in Nat \ T : \A y \in Nat \ T : x <= y
  BY LeastIn
<1>2. x # 0 /\ x - 1 \in Nat
  BY <1>1
<1>3. x - 1 \in T
  BY <1>1, <1>2
<1> QED
  BY <1>1, <1>2, <1>3

-----------------------------------------------------------------------------
\* Lines as one list.

\* What flattening computes, line by line.
Flattened(f, lines) ==
  f = [i \in 1 .. Len(lines) |-> IF i = 1 THEN lines[i] ELSE f[i - 1] \o lines[i]]

\* There is such a function, since each line only looks at the one before.
LEMMA FlattenedExists ==
  ASSUME NEW S, NEW lines \in Seq(Seq(S))
  PROVE  \E f : Flattened(f, lines)
<1> DEFINE Line(i, x) == IF i = 1 THEN lines[i] ELSE x \o lines[i]
           Part(f, k) == f = [i \in 1 .. k |-> Line(i, f[i - 1])]
           T == {k \in Nat : \E f : Part(f, k)}
<1>0. \A x, y : Line(1, x) = Line(1, y)
  OBVIOUS
<1> HIDE DEF Line
<1>1. 0 \in T
  <2>1. Part([i \in 1 .. 0 |-> <<>>], 0)
    OBVIOUS
  <2> QED
    BY <2>1
<1>2. ASSUME NEW k \in Nat, k \in T PROVE k + 1 \in T
  <2>1. PICK f : Part(f, k)
    BY <1>2
  <2> DEFINE g == [i \in 1 .. k + 1 |-> Line(i, f[i - 1])]
  <2>2. \A i \in 1 .. k : g[i] = f[i]
    BY <2>1
  <2>3. ASSUME NEW i \in 1 .. k + 1 PROVE g[i] = Line(i, g[i - 1])
    <3>1. CASE i = 1
      BY <1>0, <3>1
    <3>2. CASE i # 1
      <4>1. i - 1 \in 1 .. k
        BY <3>2
      <4> QED
        BY <2>2, <4>1
    <3> QED
      BY <3>1, <3>2
  <2>4. g = [i \in 1 .. k + 1 |-> g[i]]
    OBVIOUS
  <2> HIDE DEF g
  <2>5. Part(g, k + 1)
    BY <2>3, <2>4
  <2> QED
    BY <2>5
<1> HIDE DEF T
<1>3. Len(lines) \in T
  BY SMTT(60), <1>1, <1>2, Induction
<1>4. PICK f : Part(f, Len(lines))
  BY <1>3 DEF T
<1> QED
  BY <1>4 DEF Flattened, Line

\* FlattenSeq is the last value of the function that joins line after line.
LEMMA FlattenSeqDef ==
  ASSUME NEW S, NEW lines \in Seq(Seq(S)), lines # <<>>
  PROVE  \E f : Flattened(f, lines) /\ FlattenSeq(lines) = f[Len(lines)]
<1> DEFINE g == CHOOSE f : f = [i \in 1 .. Len(lines) |-> IF i = 1 THEN lines[i] ELSE f[i - 1] \o lines[i]]
<1>1. \E f : f = [i \in 1 .. Len(lines) |-> IF i = 1 THEN lines[i] ELSE f[i - 1] \o lines[i]]
  BY FlattenedExists DEF Flattened
<1>2. g = [i \in 1 .. Len(lines) |-> IF i = 1 THEN lines[i] ELSE g[i - 1] \o lines[i]]
  BY <1>1
<1>3. FlattenSeq(lines) = g[Len(lines)]
  BY DEF FlattenSeq
<1> HIDE DEF g
<1> QED
  BY <1>2, <1>3 DEF Flattened

\* Its lines, one by one.
LEMMA FlattenedLine ==
  ASSUME NEW lines, NEW f, Flattened(f, lines), NEW k \in Nat, k # 0, k + 1 \in 1 .. Len(lines)
  PROVE  f[k + 1] = f[k] \o lines[k + 1]
<1> DEFINE n == k + 1
<1>1. n \in 1 .. Len(lines) /\ n - 1 = k /\ n # 1
  OBVIOUS
<1> HIDE DEF n
<1>2. f[n] = IF n = 1 THEN lines[n] ELSE f[n - 1] \o lines[n]
  BY <1>1, Zenon DEF Flattened
<1>3. f[n] = f[n - 1] \o lines[n]
  BY <1>1, <1>2, Zenon
<1>4. f[n] = f[k] \o lines[n]
  BY <1>1, <1>3, Zenon
<1> QED
  BY <1>4, Zenon DEF n

\* Each part of the list is a list.
LEMMA FlattenedType ==
  ASSUME NEW S, NEW lines \in Seq(Seq(S)), NEW f, Flattened(f, lines)
  PROVE  \A i \in 1 .. Len(lines) : f[i] \in Seq(S)
<1> DEFINE T == {k \in Nat : k \in 1 .. Len(lines) => f[k] \in Seq(S)}
<1>1. 0 \in T
  OBVIOUS
<1>2. ASSUME NEW k \in Nat, k \in T PROVE k + 1 \in T
  <2>1. SUFFICES ASSUME k + 1 \in 1 .. Len(lines) PROVE f[k + 1] \in Seq(S)
    OBVIOUS
  <2>2. lines[k + 1] \in Seq(S)
    BY <2>1
  <2>3. CASE k = 0
    BY <2>1, <2>2, <2>3 DEF Flattened
  <2>4. CASE k # 0
    <3>1. f[k] \in Seq(S)
      BY <1>2, <2>1, <2>4
    <3>2. f[k + 1] = f[k] \o lines[k + 1]
      BY <2>1, <2>2, <2>4, FlattenedLine, Zenon
    <3> QED
      BY <2>2, <3>1, <3>2
  <2> QED
    BY <2>3, <2>4
<1> HIDE DEF T
<1>3. Nat \subseteq T
  BY <1>1, <1>2, Induction
<1> QED
  BY <1>3 DEF T

\* A list begins the same way whatever line follows.
LEMMA FlattenedAgree ==
  ASSUME NEW S, NEW lines \in Seq(Seq(S)), NEW line \in Seq(S),
         NEW f, Flattened(f, lines), NEW g, Flattened(g, Append(lines, line))
  PROVE  \A i \in 1 .. Len(lines) : f[i] = g[i]
<1> DEFINE more == Append(lines, line)
<1>0. more \in Seq(Seq(S)) /\ Len(lines) <= Len(more)
      /\ \A i \in 1 .. Len(lines) : more[i] = lines[i] /\ i \in 1 .. Len(more)
  OBVIOUS
<1>00. Flattened(g, more)
  OBVIOUS
<1> HIDE DEF more
<1> DEFINE T == {k \in Nat : k \in 1 .. Len(lines) => f[k] = g[k]}
<1>1. 0 \in T
  OBVIOUS
<1>2. ASSUME NEW k \in Nat, k \in T PROVE k + 1 \in T
  <2>1. SUFFICES ASSUME k + 1 \in 1 .. Len(lines) PROVE f[k + 1] = g[k + 1]
    OBVIOUS
  <2>2. more[k + 1] = lines[k + 1] /\ k + 1 \in 1 .. Len(more)
    BY <1>0, <2>1
  <2>3. CASE k = 0
    BY <1>00, <2>1, <2>2, <2>3 DEF Flattened
  <2>4. CASE k # 0
    <3>1. f[k] = g[k]
      BY <1>2, <2>1, <2>4
    <3>2. f[k + 1] = f[k] \o lines[k + 1]
      BY <2>1, <2>2, <2>4, FlattenedLine, Zenon
    <3>3. g[k + 1] = g[k] \o more[k + 1]
      BY <1>00, <2>1, <2>2, <2>4, FlattenedLine, Zenon
    <3> QED
      BY <2>2, <3>1, <3>2, <3>3
  <2> QED
    BY <2>3, <2>4
<1> HIDE DEF T
<1>3. Nat \subseteq T
  BY <1>1, <1>2, Induction
<1> QED
  BY <1>3 DEF T

\* FlattenSeq is a list, empty when there is no line.
LEMMA FlattenSeqType ==
  ASSUME NEW S, NEW lines \in Seq(Seq(S))
  PROVE  FlattenSeq(lines) \in Seq(S) /\ (lines = <<>> => FlattenSeq(lines) = <<>>)
<1>1. CASE lines = <<>>
  BY <1>1 DEF FlattenSeq
<1>2. CASE lines # <<>>
  <2>1. PICK f : Flattened(f, lines) /\ FlattenSeq(lines) = f[Len(lines)]
    BY <1>2, FlattenSeqDef
  <2>2. Len(lines) \in 1 .. Len(lines)
    BY <1>2
  <2> QED
    BY <1>2, <2>1, <2>2, FlattenedType
<1> QED
  BY <1>1, <1>2

\* A line more is so many elements more.
LEMMA FlattenSeqAppend ==
  ASSUME NEW S, NEW lines \in Seq(Seq(S)), NEW line \in Seq(S)
  PROVE  FlattenSeq(Append(lines, line)) = FlattenSeq(lines) \o line
<1> DEFINE more == Append(lines, line)
<1>0. /\ more \in Seq(Seq(S)) /\ Len(more) = Len(lines) + 1 /\ more[Len(lines) + 1] = line
      /\ \A i \in 1 .. Len(lines) : more[i] = lines[i]
  OBVIOUS
<1>00. more # <<>> /\ Len(lines) \in Nat
  BY <1>0
<1> HIDE DEF more
<1>1. PICK g : Flattened(g, more) /\ FlattenSeq(more) = g[Len(more)]
  BY <1>0, <1>00, FlattenSeqDef
<1>2. CASE lines = <<>>
  <2>1. g[1] = more[1] /\ Len(more) = 1
    BY <1>0, <1>1, <1>2 DEF Flattened
  <2>2. FlattenSeq(lines) = <<>>
    BY <1>2, FlattenSeqType
  <2> QED
    BY <1>0, <1>1, <1>2, <2>1, <2>2 DEF more
<1>3. CASE lines # <<>>
  <2>1. PICK f : Flattened(f, lines) /\ FlattenSeq(lines) = f[Len(lines)]
    BY <1>3, FlattenSeqDef
  <2>2. Len(lines) \in 1 .. Len(lines)
    BY <1>3
  <2>3. f[Len(lines)] = g[Len(lines)]
    BY <1>1, <2>1, <2>2, FlattenedAgree DEF more
  <2>4. g[Len(lines) + 1] = g[Len(lines)] \o more[Len(lines) + 1]
    <3>1. Len(lines) + 1 \in 1 .. Len(more) /\ Len(lines) # 0
      BY <1>0, <1>00, <2>2
    <3> QED
      BY <1>1, <1>00, <3>1, FlattenedLine, Zenon
  <2> QED
    BY <1>0, <1>1, <2>1, <2>3, <2>4 DEF more
<1> QED
  BY <1>2, <1>3

\* One line is its own list.
LEMMA FlattenSeqOne ==
  ASSUME NEW S, NEW line \in Seq(S)
  PROVE  FlattenSeq(<<line>>) = line
<1>1. <<>> \in Seq(Seq(S)) /\ Append(<<>>, line) = <<line>> /\ <<>> \o line = line
  OBVIOUS
<1>2. FlattenSeq(<<>>) = <<>>
  BY <1>1, FlattenSeqType
<1> QED
  BY <1>1, <1>2, FlattenSeqAppend

-----------------------------------------------------------------------------
\* The route of a request, and a walk of a list that ends in it.

\* The route of the request: its client, then the proxies it passed.
Host(k) == IF k = 0 THEN Origin ELSE Path[k]
Route(n) == {V4(Host(k)) : k \in 0 .. n}
Before(a, b, n) == \E k, l \in 0 .. n : k < l /\ a = V4(Host(k)) /\ b = V4(Host(l))
IsAddress(e) == ParseAddress(e) # NoAddress

\* A list whose elements right of m name hosts of the route in their order; the
\* walk stops before it reads further left.
Trail(chain, m, n) ==
  /\ \A i \in m + 1 .. Len(chain) :
       chain[i] \in {Blank, Junk} \/ (IsAddress(chain[i]) /\ Canonical(chain[i]) \in Route(n))
  /\ \A i, j \in m + 1 .. Len(chain) : i < j /\ IsAddress(chain[i]) /\ IsAddress(chain[j]) =>
       Before(Canonical(chain[i]), Canonical(chain[j]), n)
  /\ m > 0 => /\ m < Len(chain)
              /\ \/ chain[m + 1] = Junk
                 \/ IsAddress(chain[m + 1]) /\ Canonical(chain[m + 1]) = V4(Origin)

Outcome(n) ==
  [result : {"walking", "ok", "malformed", "too_many_hops"}, ip : Route(n) \cup {NoAddress}]
Walks(n) ==
  [read : Nat, leftmost : Route(n) \cup {NoAddress}, hops : Seq(Route(n)), out : Outcome(n)]

\* A walk of such a list after t elements.
Sound(w, chain, m, n, t) ==
  /\ w \in Walks(n) /\ Len(w.hops) <= t
  /\ \A a \in 1 .. Len(w.hops) : w.hops[a] \in TrustedNets(Trusted)
  /\ \A a, b \in 1 .. Len(w.hops) : a < b => Before(w.hops[b], w.hops[a], n)
  /\ w.out.result = "walking" =>
       /\ w.read = t /\ t + m <= Len(chain) /\ (m > 0 => t + m < Len(chain))
       /\ w.hops = <<>> => w.leftmost = NoAddress
       /\ w.hops # <<>> => w.leftmost = w.hops[Len(w.hops)]
       /\ \A a \in 1 .. Len(w.hops), i \in m + 1 .. Len(chain) - t :
            IsAddress(chain[i]) => Before(Canonical(chain[i]), w.hops[a], n)
  /\ w.out.result = "ok" =>
       w.out.ip \in Route(n) /\ \A a \in 1 .. Len(w.hops) : Before(w.out.ip, w.hops[a], n)
  /\ w.out.result # "ok" => w.out.ip = NoAddress

\* What the walk computes, element by element.
Stepped(walk, conf, chain) ==
  walk = [n \in 0 .. Len(chain) |->
            IF n = 0 THEN Start ELSE WalkStep(conf, walk[n - 1], chain[Len(chain) - n + 1])]

\* There is such a function, since each step only looks at the one before.
LEMMA SteppedExists ==
  ASSUME NEW conf, NEW S, NEW chain \in Seq(S)
  PROVE  \E walk : Stepped(walk, conf, chain)
<1> DEFINE At(n, x) == IF n = 0 THEN Start ELSE WalkStep(conf, x, chain[Len(chain) - n + 1])
           Part(f, k) == f = [n \in 0 .. k |-> At(n, f[n - 1])]
           T == {k \in Nat : \E f : Part(f, k)}
<1>0. \A x, y : At(0, x) = At(0, y)
  OBVIOUS
<1> HIDE DEF At
<1>1. 0 \in T
  <2> DEFINE f == [n \in 0 .. 0 |-> At(0, 0)]
  <2>1. \A n \in 0 .. 0 : f[n] = At(n, f[n - 1])
    BY <1>0
  <2>2. f = [n \in 0 .. 0 |-> f[n]]
    OBVIOUS
  <2> HIDE DEF f
  <2>3. Part(f, 0)
    BY <2>1, <2>2
  <2> QED
    BY <2>3
<1>2. ASSUME NEW k \in Nat, k \in T PROVE k + 1 \in T
  <2>1. PICK f : Part(f, k)
    BY <1>2
  <2> DEFINE g == [n \in 0 .. k + 1 |-> At(n, f[n - 1])]
  <2>2. \A n \in 0 .. k : g[n] = f[n]
    BY <2>1
  <2>3. ASSUME NEW n \in 0 .. k + 1 PROVE g[n] = At(n, g[n - 1])
    <3>1. CASE n = 0
      BY <1>0, <3>1
    <3>2. CASE n # 0
      <4>1. n - 1 \in 0 .. k
        BY <3>2
      <4> QED
        BY <2>2, <4>1
    <3> QED
      BY <3>1, <3>2
  <2>4. g = [n \in 0 .. k + 1 |-> g[n]]
    OBVIOUS
  <2> HIDE DEF g
  <2>5. [n \in 0 .. k + 1 |-> g[n]] = [n \in 0 .. k + 1 |-> At(n, g[n - 1])]
    BY <2>3
  <2>6. Part(g, k + 1)
    BY <2>4, <2>5
  <2> HIDE DEF Part
  <2>7. \E f2 : Part(f2, k + 1)
    BY <2>6
  <2> QED
    BY <2>7
<1> HIDE DEF T
<1>3. Len(chain) \in T
  BY <1>1, <1>2, Induction
<1>4. PICK f : Part(f, Len(chain))
  BY <1>3 DEF T
<1> QED
  BY <1>4 DEF At, Stepped

\* The walk starts, and reads one element after the other from the right.
LEMMA WalkingDef ==
  ASSUME NEW conf, NEW S, NEW chain \in Seq(S)
  PROVE  /\ Walking(conf, chain)[0] = Start
         /\ \A t \in 0 .. Len(chain) - 1 :
              Walking(conf, chain)[t + 1] = WalkStep(conf, Walking(conf, chain)[t], chain[Len(chain) - t])
<1> DEFINE g == CHOOSE walk : Stepped(walk, conf, chain)
<1>0. \E walk : Stepped(walk, conf, chain)
  BY SteppedExists
<1>1. Stepped(g, conf, chain)
  BY <1>0, Zenon
<1>2. Walking(conf, chain) = g
  BY DEF Walking, Stepped
<1> HIDE DEF g
<1>3. g[0] = Start
  BY <1>1 DEF Stepped
<1>4. ASSUME NEW t \in 0 .. Len(chain) - 1
      PROVE  g[t + 1] = WalkStep(conf, g[t], chain[Len(chain) - t])
  <2> DEFINE n == t + 1
  <2>1. n \in 0 .. Len(chain) /\ n # 0 /\ n - 1 = t /\ Len(chain) - n + 1 = Len(chain) - t
    OBVIOUS
  <2> HIDE DEF n
  <2>2. g[n] = WalkStep(conf, g[n - 1], chain[Len(chain) - n + 1])
    BY <1>1, <2>1 DEF Stepped
  <2> QED
    BY <2>1, <2>2 DEF n
<1> QED
  BY <1>2, <1>3, <1>4

\* The two forms of an address, and what is none.
LEMMA AddressFacts ==
  /\ \A h : V4(h) # NoAddress /\ Mapped(h) # NoAddress
  /\ \A h : IsAddress(V4(h)) /\ IsAddress(Mapped(h))
  /\ \A h : Canonical(V4(h)) = V4(h) /\ Canonical(Mapped(h)) = V4(h)
  /\ ~IsAddress(Blank) /\ ~IsAddress(Junk) /\ Blank # Junk
  /\ \A e : IsAddress(e) => ParseAddress(e) = e /\ e # Blank
  BY DEF V4, Mapped, NoAddress, IsAddress, ParseAddress, Canonical, Blank, Junk

\* The proxies are trusted and the client is not.
LEMMA TrustFacts ==
  /\ \A k \in 1 .. Len(Path) : V4(Host(k)) \in TrustedNets(Trusted)
  /\ V4(Origin) \notin TrustedNets(Trusted)
<1>1. ASSUME NEW k \in 1 .. Len(Path) PROVE V4(Host(k)) \in TrustedNets(Trusted)
  <2>1. Host(k) = Path[k] /\ k \in DOMAIN Path
    BY PathAssumption DEF Host
  <2>2. V4(Path[k]) \in Trusted \/ Mapped(Path[k]) \in Trusted
    BY <2>1, PathAssumption
  <2>3. \E e \in Trusted : Canonical(e) = V4(Path[k])
    BY <2>2, AddressFacts
  <2> QED
    BY <2>1, <2>3 DEF TrustedNets
<1>2. ASSUME NEW e \in Trusted, Canonical(e) = V4(Origin) PROVE FALSE
  <2>1. e[1] = Origin
    BY <1>2 DEF Canonical, V4
  <2>2. e = V4(e[1]) \/ e = Mapped(e[1])
    <3>1. PICK d \in Trusted : e = V4(d[1]) \/ e = Mapped(d[1])
      BY PathAssumption
    <3> QED
      BY <3>1 DEF V4, Mapped
  <2> QED
    BY <2>1, <2>2, PathAssumption
<1> QED
  BY <1>1, <1>2 DEF TrustedNets

\* Nothing has been read.
LEMMA StartSound ==
  ASSUME NEW S, NEW chain \in Seq(S), NEW n \in Nat, NEW m \in 0 .. Len(chain), Trail(chain, m, n)
  PROVE  Sound(Start, chain, m, n, 0)
<1>1. Start \in Walks(n)
  BY DEF Start, Walks, Err, Outcome
<1> QED
  BY <1>1 DEF Sound, Start, Err, Trail

\* One more element is read.
LEMMA StepSound ==
  ASSUME NEW conf, conf.trusted = Trusted, NEW S, NEW chain \in Seq(S), NEW n \in Nat,
         NEW m \in 0 .. Len(chain), Trail(chain, m, n),
         NEW t \in 0 .. Len(chain) - 1, NEW w, Sound(w, chain, m, n, t)
  PROVE  Sound(WalkStep(conf, w, chain[Len(chain) - t]), chain, m, n, t + 1)
<1> DEFINE i == Len(chain) - t
           e == chain[i]
           v == WalkStep(conf, w, e)
<1> SUFFICES Sound(v, chain, m, n, t + 1)
  OBVIOUS
<1>0. i \in 1 .. Len(chain) /\ Len(chain) \in Nat
  OBVIOUS
<1>1. CASE w.out.result # "walking"
  <2>1. v = w
    BY <1>1 DEF WalkStep
  <2> QED
    BY <1>1, <2>1 DEF Sound
<1>2. CASE w.out.result = "walking"
  <2>0. /\ w.read = t /\ t + m <= Len(chain) /\ (m > 0 => t + m < Len(chain))
        /\ w \in Walks(n) /\ w.out.ip = NoAddress
    BY <1>2 DEF Sound
  <2>00. /\ w.hops \in Seq(Route(n)) /\ Len(w.hops) \in Nat /\ Len(w.hops) <= t /\ Len(w.hops) <= t + 1
         /\ \A a \in 1 .. Len(w.hops) : w.hops[a] \in TrustedNets(Trusted)
         /\ \A a, b \in 1 .. Len(w.hops) : a < b => Before(w.hops[b], w.hops[a], n)
    <3>1. w.hops \in Seq(Route(n)) /\ Len(w.hops) <= t
      BY <2>0 DEF Sound, Walks
    <3>2. Len(w.hops) \in Nat /\ Len(w.hops) <= t + 1
      BY <3>1
    <3> QED
      BY <3>1, <3>2 DEF Sound
  <2>1. i \in m + 1 .. Len(chain)
    BY <2>0
  <2>2. CASE w.read = MaxHops
    <3>1. v = [w EXCEPT !.out = Err("too_many_hops")]
      BY <1>2, <2>2 DEF WalkStep
    <3>2. v = [read |-> w.read, leftmost |-> w.leftmost, hops |-> w.hops, out |-> Err("too_many_hops")]
      BY <2>0, <3>1 DEF Walks
    <3> HIDE DEF v
    <3>3. v \in Walks(n)
      BY <2>0, <3>2 DEF Walks, Err, Outcome
    <3>4. v.hops = w.hops /\ v.out.result = "too_many_hops" /\ v.out.ip = NoAddress
      BY <3>2 DEF Err
    <3> QED
      BY <2>00, <3>3, <3>4 DEF Sound
  <2>3. CASE w.read # MaxHops /\ e = Blank
    <3>1. v = [w EXCEPT !.read = @ + 1]
      BY <1>2, <2>3 DEF WalkStep
    <3>2. v = [read |-> t + 1, leftmost |-> w.leftmost, hops |-> w.hops, out |-> w.out]
      BY <2>0, <3>1 DEF Walks
    <3> HIDE DEF v
    <3>3. v \in Walks(n)
      BY <2>0, <3>2 DEF Walks
    <3>4. i # m + 1 \/ m = 0
      BY <2>3, AddressFacts DEF Trail
    <3> HIDE DEF e
    <3>5. (t + 1) + m <= Len(chain) /\ (m > 0 => (t + 1) + m < Len(chain))
      BY <2>0, <2>1, <3>4
    <3>6. (m + 1 .. Len(chain) - (t + 1)) \subseteq (m + 1 .. Len(chain) - t)
      BY <2>0
    <3>7. v.read = t + 1 /\ v.hops = w.hops /\ v.out = w.out /\ v.leftmost = w.leftmost
      BY <3>2
    <3>8. ASSUME NEW a \in 1 .. Len(w.hops), NEW j \in m + 1 .. Len(chain) - (t + 1), IsAddress(chain[j])
          PROVE  Before(Canonical(chain[j]), w.hops[a], n)
      BY <1>2, <3>6, <3>8 DEF Sound
    <3>9. (w.hops = <<>> => w.leftmost = NoAddress) /\ (w.hops # <<>> => w.leftmost = w.hops[Len(w.hops)])
      BY <1>2 DEF Sound
    <3> QED
      BY <1>2, <2>0, <2>00, <3>3, <3>5, <3>7, <3>8, <3>9 DEF Sound
  <2>4. CASE w.read # MaxHops /\ e # Blank /\ ParseAddress(e) = NoAddress
    <3>1. v = [w EXCEPT !.out = Err("malformed")]
      BY <1>2, <2>4 DEF WalkStep
    <3>2. v = [read |-> w.read, leftmost |-> w.leftmost, hops |-> w.hops, out |-> Err("malformed")]
      BY <2>0, <3>1 DEF Walks
    <3> HIDE DEF v
    <3>3. v \in Walks(n)
      BY <2>0, <3>2 DEF Walks, Err, Outcome
    <3>4. v.hops = w.hops /\ v.out.result = "malformed" /\ v.out.ip = NoAddress
      BY <3>2 DEF Err
    <3> QED
      BY <2>00, <3>3, <3>4 DEF Sound
  <2>5. CASE w.read # MaxHops /\ IsAddress(e)
    <3> DEFINE ip == Canonical(e)
    <3>0. ip \in Route(n) /\ ParseAddress(e) = e /\ e # Blank /\ e # NoAddress
      BY <2>1, <2>5, AddressFacts DEF Trail, IsAddress
    <3>00. \A a \in 1 .. Len(w.hops) : Before(ip, w.hops[a], n)
      BY <1>2, <2>1, <2>5 DEF Sound
    <3>1. CASE ~Trusts(conf, ip)
      <4>1. v = [w EXCEPT !.out = Ok(ip)]
        BY <1>2, <2>5, <3>0, <3>1 DEF WalkStep
      <4>2. v = [read |-> w.read, leftmost |-> w.leftmost, hops |-> w.hops, out |-> Ok(ip)]
        BY <2>0, <4>1 DEF Walks
      <4> HIDE DEF v, ip
      <4>3. v \in Walks(n)
        BY <2>0, <3>0, <4>2 DEF Walks, Ok, Outcome
      <4>4. v.hops = w.hops /\ v.out.result = "ok" /\ v.out.ip = ip
        BY <4>2 DEF Ok
      <4> QED
        BY <2>00, <3>0, <3>00, <4>3, <4>4 DEF Sound
    <3>2. CASE Trusts(conf, ip)
      <4>1. v = [w EXCEPT !.read = @ + 1, !.leftmost = ip, !.hops = Append(@, ip)]
        BY <1>2, <2>5, <3>0, <3>2 DEF WalkStep
      <4>2. v = [read |-> t + 1, leftmost |-> ip, hops |-> Append(w.hops, ip), out |-> w.out]
        BY <2>0, <4>1 DEF Walks
      <4>3. i # m + 1 \/ m = 0
        <5>1. ip # V4(Origin) /\ e # Junk
          BY <2>5, <3>2, TrustFacts, AddressFacts DEF Trusts
        <5> QED
          BY <5>1 DEF Trail
      <4>4. \A j \in m + 1 .. Len(chain) - (t + 1) : IsAddress(chain[j]) => Before(Canonical(chain[j]), ip, n)
        <5>1. ASSUME NEW j \in m + 1 .. Len(chain) - (t + 1) PROVE j \in m + 1 .. Len(chain) /\ j < i
          OBVIOUS
        <5> QED
          BY <2>1, <2>5, <5>1 DEF Trail
      <4>5. ip \in TrustedNets(Trusted)
        BY <3>2 DEF Trusts
      <4> HIDE DEF v, e, ip
      <4>6. (t + 1) + m <= Len(chain) /\ (m > 0 => (t + 1) + m < Len(chain))
        BY <2>0, <2>1, <4>3
      <4>7. (m + 1 .. Len(chain) - (t + 1)) \subseteq (m + 1 .. Len(chain) - t)
        BY <2>0
      <4>8. w.hops \in Seq(Route(n)) /\ Len(w.hops) \in Nat
        BY <2>00
      <4> DEFINE more == Append(w.hops, ip)
      <4>9. /\ more \in Seq(Route(n)) /\ Len(more) = Len(w.hops) + 1 /\ more[Len(more)] = ip /\ more # <<>>
            /\ \A a \in 1 .. Len(w.hops) : more[a] = w.hops[a]
            /\ \A a \in 1 .. Len(more) : a \in 1 .. Len(w.hops) \/ a = Len(w.hops) + 1
        BY SMTT(60), <3>0, <4>8
      <4> HIDE DEF more
      <4>10. v \in Walks(n) /\ v.hops = more /\ v.out = w.out /\ v.leftmost = ip /\ v.read = t + 1
        <5>1. v = [read |-> t + 1, leftmost |-> ip, hops |-> more, out |-> w.out]
          BY <4>2 DEF more
        <5>2. t + 1 \in Nat /\ w.out \in Outcome(n)
          BY <2>0 DEF Walks
        <5>3. ip \in Route(n) \cup {NoAddress} /\ more \in Seq(Route(n))
          BY <3>0, <4>9
        <5> QED
          BY <5>1, <5>2, <5>3 DEF Walks
      <4>11. Len(v.hops) <= t + 1 /\ \A a \in 1 .. Len(v.hops) : v.hops[a] \in TrustedNets(Trusted)
        <5>1. Len(v.hops) <= t + 1
          BY <2>00, <4>9, <4>10
        <5> QED
          BY <2>00, <4>5, <4>9, <4>10, <5>1
      <4>12. ASSUME NEW a \in 1 .. Len(v.hops), NEW b \in 1 .. Len(v.hops), a < b
             PROVE  Before(v.hops[b], v.hops[a], n)
        <5>1. a \in 1 .. Len(w.hops)
          BY <4>8, <4>9, <4>10, <4>12
        <5>2. CASE b \in 1 .. Len(w.hops)
          BY <4>9, <4>10, <4>12, <5>1, <5>2 DEF Sound
        <5>3. CASE b = Len(w.hops) + 1
          BY <3>00, <4>9, <4>10, <5>1, <5>3
        <5> QED
          BY <4>9, <4>10, <5>2, <5>3
      <4>13. ASSUME NEW a \in 1 .. Len(v.hops), NEW j \in m + 1 .. Len(chain) - (t + 1), IsAddress(chain[j])
             PROVE  Before(Canonical(chain[j]), v.hops[a], n)
        <5>1. CASE a \in 1 .. Len(w.hops)
          BY <1>2, <4>7, <4>9, <4>10, <4>13, <5>1 DEF Sound
        <5>2. CASE a = Len(w.hops) + 1
          BY <4>4, <4>9, <4>10, <4>13, <5>2
        <5> QED
          BY <4>9, <4>10, <5>1, <5>2
      <4>14. v.hops # <<>> /\ v.leftmost = v.hops[Len(v.hops)]
        BY <4>9, <4>10
      <4>15. v.out.result = "walking" /\ v.out.ip = NoAddress
        BY <1>2, <2>0, <4>10
      <4> QED
        BY <4>6, <4>10, <4>11, <4>12, <4>13, <4>14, <4>15 DEF Sound
    <3> QED
      BY <3>1, <3>2
  <2> QED
    BY <2>2, <2>3, <2>4, <2>5 DEF IsAddress
<1> QED
  BY <1>1, <1>2

\* A trail is walked soundly to its end.
LEMMA WalkingSound ==
  ASSUME NEW conf, conf.trusted = Trusted, NEW S, NEW chain \in Seq(S), NEW n \in Nat,
         NEW m \in 0 .. Len(chain), Trail(chain, m, n)
  PROVE  Sound(Walking(conf, chain)[Len(chain)], chain, m, n, Len(chain))
<1> DEFINE T == {t \in Nat : t <= Len(chain) => Sound(Walking(conf, chain)[t], chain, m, n, t)}
<1>1. 0 \in T
  BY StartSound, WalkingDef
<1>2. ASSUME NEW t \in Nat, t \in T PROVE t + 1 \in T
  <2>1. SUFFICES ASSUME t + 1 <= Len(chain) PROVE Sound(Walking(conf, chain)[t + 1], chain, m, n, t + 1)
    OBVIOUS
  <2>2. t \in 0 .. Len(chain) - 1 /\ t <= Len(chain)
    BY <2>1
  <2>3. Sound(Walking(conf, chain)[t], chain, m, n, t)
    BY <1>2, <2>2
  <2>4. Walking(conf, chain)[t + 1] = WalkStep(conf, Walking(conf, chain)[t], chain[Len(chain) - t])
    BY <2>2, WalkingDef
  <2> QED
    BY <2>2, <2>3, <2>4, StepSound
<1> HIDE DEF T
<1>3. Nat \subseteq T
  BY <1>1, <1>2, Induction
<1> QED
  BY <1>3 DEF T

\* What a walk finds: nobody, or somebody of the route with the proxies behind it
\* in order, or nothing it can trust.
Found(w, n) ==
  /\ w.hops \in Seq(Route(n))
  /\ \A a \in 1 .. Len(w.hops) : w.hops[a] \in TrustedNets(Trusted)
  /\ \A a, b \in 1 .. Len(w.hops) : a < b => Before(w.hops[b], w.hops[a], n)
  /\ w.out \in [result : {"ok", "malformed", "too_many_hops"}, ip : Route(n) \cup {NoAddress}]
  /\ w.out.result # "ok" => w.out.ip = NoAddress
  /\ w.out.result = "ok" =>
       \/ w.out.ip = NoAddress /\ w.hops = <<>>
       \/ w.out.ip \in Route(n) /\ \A a \in 1 .. Len(w.hops) : Before(w.out.ip, w.hops[a], n)

\* The walk of a list that ends in a trail of the request finds that.
LEMMA WalkFound ==
  ASSUME NEW conf, conf.trusted = Trusted, NEW S, NEW lines \in Seq(Seq(S)), NEW n \in Nat,
         NEW m \in 0 .. Len(FlattenSeq(lines)), Trail(FlattenSeq(lines), m, n)
  PROVE  Found(Walk(conf, lines), n)
<1> DEFINE chain == FlattenSeq(lines)
           w == Walking(conf, chain)[Len(chain)]
           v == Walk(conf, lines)
<1>1. chain \in Seq(S) /\ Len(chain) \in Nat
  BY FlattenSeqType
<1>2. Sound(w, chain, m, n, Len(chain))
  BY <1>1, WalkingSound
<1>3. v = Walked(w)
  BY DEF Walk
<1> SUFFICES Found(v, n)
  OBVIOUS
<1> HIDE DEF v, w, chain
<1>4. w \in Walks(n) /\ w.hops \in Seq(Route(n)) /\ w.out \in Outcome(n) /\ Len(w.hops) \in Nat
      /\ Len(w.hops) <= Len(chain)
  <2>1. w \in Walks(n) /\ w.hops \in Seq(Route(n)) /\ w.out \in Outcome(n)
    BY <1>2 DEF Sound, Walks
  <2> QED
    BY <1>2, <2>1 DEF Sound
<1>5. CASE w.out.result # "walking"
  <2>1. v = w
    BY <1>3, <1>5 DEF Walked
  <2>2. w.out.ip \in Route(n) \cup {NoAddress} /\ w.out.result \in {"ok", "malformed", "too_many_hops"}
        /\ w.out \in [result : {"ok", "malformed", "too_many_hops"}, ip : Route(n) \cup {NoAddress}]
    BY <1>4, <1>5 DEF Outcome
  <2> QED
    BY <1>2, <1>4, <2>1, <2>2 DEF Found, Sound
<1>6. CASE w.out.result = "walking" /\ w.hops = <<>>
  <2>1. w.leftmost = NoAddress
    BY <1>2, <1>6 DEF Sound
  <2>2. v = [w EXCEPT !.out = Ok(NoAddress), !.hops = w.hops]
    BY <1>3, <1>6, <2>1 DEF Walked
  <2>3. v.hops = <<>> /\ v.out = [result |-> "ok", ip |-> NoAddress]
    BY <1>4, <1>6, <2>2 DEF Walks, Ok
  <2> QED
    BY <1>1, <2>3 DEF Found
<1>7. CASE w.out.result = "walking" /\ w.hops # <<>>
  <2> DEFINE k == Len(w.hops)
             ip == w.hops[k]
             front == SubSeq(w.hops, 1, k - 1)
  <2>1. k \in Nat \ {0} /\ ip \in Route(n) /\ ip # NoAddress /\ w.leftmost = ip
    <3>1. k # 0
      BY <1>4, <1>7
    <3>2. ip \in Route(n)
      BY <1>4, <3>1
    <3> QED
      BY <1>2, <1>4, <1>7, <3>1, <3>2, AddressFacts DEF Sound, Route
  <2>2. v = [w EXCEPT !.out = Ok(ip), !.hops = front]
    BY <1>3, <1>7, <2>1 DEF Walked, Front
  <2>3. /\ front \in Seq(Route(n)) /\ Len(front) = k - 1
        /\ \A a \in 1 .. Len(front) : front[a] = w.hops[a] /\ a \in 1 .. k /\ a < k
    BY <1>4, <2>1
  <2> HIDE DEF front
  <2>4. v.hops = front /\ v.out = [result |-> "ok", ip |-> ip]
    BY <1>4, <2>2 DEF Walks, Ok
  <2>5. k \in 1 .. k
    BY <2>1
  <2>6. \A a \in 1 .. Len(front) : Before(ip, front[a], n)
    BY <1>2, <2>3, <2>5 DEF Sound
  <2>7. \A a, b \in 1 .. Len(front) : a < b => Before(front[b], front[a], n)
    BY <1>2, <2>3 DEF Sound
  <2>8. \A a \in 1 .. Len(front) : front[a] \in TrustedNets(Trusted)
    BY <1>2, <2>3 DEF Sound
  <2>9. v.out.result = "ok" /\ v.out.ip = ip
        /\ v.out \in [result : {"ok", "malformed", "too_many_hops"}, ip : Route(n) \cup {NoAddress}]
    BY <2>1, <2>4
  <2> HIDE DEF ip, k
  <2> QED
    BY <2>1, <2>3, <2>4, <2>9, <2>6, <2>7, <2>8 DEF Found
<1> QED
  BY <1>5, <1>6, <1>7

\* A list with the client at m + 1, and right of it only empty elements and
\* trusted proxies, at most so many.
KeptTrail(chain, m, most) ==
  /\ m < Len(chain) /\ Len(chain) - (m + 1) <= most
  /\ IsAddress(chain[m + 1]) /\ Canonical(chain[m + 1]) = V4(Origin)
  /\ \A i \in m + 2 .. Len(chain) :
       chain[i] = Blank \/ (IsAddress(chain[i]) /\ Canonical(chain[i]) \in TrustedNets(Trusted))

\* A walk of such a list after t elements.
Reaching(w, chain, m, t) ==
  /\ w = [read |-> w.read, leftmost |-> w.leftmost, hops |-> w.hops, out |-> w.out]
  /\ w.hops \in Seq(TrustedNets(Trusted)) /\ Len(w.hops) + m < Len(chain)
  /\ \/ w.out = Err("walking") /\ w.read = t /\ Len(w.hops) <= t /\ t + m < Len(chain)
     \/ w.out = Ok(V4(Origin))
     \/ w.out = Err("too_many_hops") /\ MaxHops + m < Len(chain)

\* One more element is read: an empty one, a proxy or the client.
LEMMA StepReaching ==
  ASSUME NEW conf, conf.trusted = Trusted, NEW S, NEW chain \in Seq(S), NEW most \in Nat,
         NEW m \in Nat, KeptTrail(chain, m, most),
         NEW t \in 0 .. Len(chain) - 1, NEW w, Reaching(w, chain, m, t)
  PROVE  Reaching(WalkStep(conf, w, chain[Len(chain) - t]), chain, m, t + 1)
<1> DEFINE i == Len(chain) - t
           e == chain[i]
           v == WalkStep(conf, w, e)
<1> SUFFICES Reaching(v, chain, m, t + 1)
  OBVIOUS
<1>1. CASE w.out # Err("walking")
  <2>1. w.out.result # "walking"
    BY <1>1 DEF Reaching, Ok, Err
  <2>2. v = w
    BY <2>1 DEF WalkStep
  <2> QED
    BY <1>1, <2>2 DEF Reaching
<1>2. CASE w.out = Err("walking")
  <2>0. w.out.result = "walking" /\ w.read = t /\ Len(w.hops) <= t /\ t + m < Len(chain)
    <3>1. Err("walking") # Ok(V4(Origin)) /\ Err("walking") # Err("too_many_hops")
      BY DEF Err, Ok
    <3> QED
      BY <1>2, <3>1 DEF Reaching, Err
  <2>1. w = [read |-> t, leftmost |-> w.leftmost, hops |-> w.hops, out |-> w.out]
    BY <2>0 DEF Reaching
  <2>00. w.hops \in Seq(TrustedNets(Trusted)) /\ Len(w.hops) \in Nat /\ Len(w.hops) + m < Len(chain)
    BY DEF Reaching
  <2>2. i \in m + 1 .. Len(chain)
    BY <2>0
  <2>3. CASE w.read = MaxHops
    <3>1. v = [w EXCEPT !.out = Err("too_many_hops")]
      BY <2>0, <2>3 DEF WalkStep
    <3> HIDE DEF v
    <3>2. v = [read |-> t, leftmost |-> w.leftmost, hops |-> w.hops, out |-> Err("too_many_hops")]
      BY <2>1, <3>1
    <3> QED
      BY <2>0, <2>3, <2>00, <3>2 DEF Reaching
  <2>4. CASE w.read # MaxHops /\ i = m + 1
    <3>1. IsAddress(e) /\ Canonical(e) = V4(Origin) /\ ParseAddress(e) = e /\ e # Blank
      BY <2>4, AddressFacts DEF KeptTrail
    <3>2. ~Trusts(conf, Canonical(e)) /\ e # NoAddress
      BY <3>1, TrustFacts DEF Trusts, IsAddress
    <3>3. v = [w EXCEPT !.out = Ok(V4(Origin))]
      BY <2>0, <2>4, <3>1, <3>2 DEF WalkStep
    <3> HIDE DEF v
    <3>4. v = [read |-> t, leftmost |-> w.leftmost, hops |-> w.hops, out |-> Ok(V4(Origin))]
      BY <2>1, <3>3
    <3> QED
      BY <2>00, <3>4 DEF Reaching
  <2>5. CASE w.read # MaxHops /\ i # m + 1
    <3>0. i \in m + 2 .. Len(chain) /\ (t + 1) + m < Len(chain)
      BY <2>0, <2>2, <2>5
    <3>1. CASE e = Blank
      <4>1. v = [w EXCEPT !.read = @ + 1]
        BY <2>0, <2>5, <3>1 DEF WalkStep
      <4> HIDE DEF v
      <4>2. v = [read |-> t + 1, leftmost |-> w.leftmost, hops |-> w.hops, out |-> w.out]
        BY <2>1, <4>1
      <4> QED
        BY <1>2, <2>0, <2>00, <3>0, <4>2 DEF Reaching
    <3>2. CASE IsAddress(e) /\ Canonical(e) \in TrustedNets(Trusted)
      <4>1. ParseAddress(e) = e /\ e # Blank /\ e # NoAddress /\ Trusts(conf, Canonical(e))
        BY <3>2, AddressFacts DEF Trusts, IsAddress
      <4>2. v = [w EXCEPT !.read = @ + 1, !.leftmost = Canonical(e), !.hops = Append(@, Canonical(e))]
        BY <2>0, <2>5, <4>1 DEF WalkStep
      <4> HIDE DEF v
      <4>3. v = [read |-> t + 1, leftmost |-> Canonical(e), hops |-> Append(w.hops, Canonical(e)), out |-> w.out]
        <5>1. w \in [read : Nat, leftmost : {w.leftmost}, hops : Seq(TrustedNets(Trusted)), out : {w.out}]
          BY <2>1, <2>00
        <5> QED
          BY <2>0, <4>2, <5>1
      <4>4. v.hops \in Seq(TrustedNets(Trusted)) /\ Len(v.hops) = Len(w.hops) + 1
        BY <2>00, <3>2, <4>3
      <4>5. Len(v.hops) <= t + 1 /\ Len(v.hops) + m < Len(chain)
        <5> DEFINE h == Len(w.hops)
                   l == Len(chain)
                   g == Len(v.hops)
        <5>1. h \in Nat /\ l \in Nat /\ t \in Nat /\ h <= t /\ (t + 1) + m < l /\ g = h + 1
          BY <2>0, <2>00, <3>0, <4>4 DEF Reaching
        <5> HIDE DEF h, l, g
        <5>2. g <= t + 1 /\ g + m < l
          BY <5>1
        <5> QED
          BY <5>2 DEF g, l
      <4> QED
        BY <1>2, <3>0, <4>3, <4>4, <4>5 DEF Reaching
    <3> QED
      BY <3>0, <3>1, <3>2 DEF KeptTrail
  <2> QED
    BY <2>3, <2>4, <2>5
<1> QED
  BY <1>1, <1>2

\* The walk finds the client, unless more elements follow it than are read.
LEMMA WalkReaches ==
  ASSUME NEW conf, conf.trusted = Trusted, NEW S, NEW lines \in Seq(Seq(S)), NEW most \in Nat,
         NEW m \in Nat, KeptTrail(FlattenSeq(lines), m, most)
  PROVE  /\ \/ Walk(conf, lines).out = Ok(V4(Origin))
            \/ Walk(conf, lines).out = Err("too_many_hops") /\ MaxHops <= most
         /\ Len(Walk(conf, lines).hops) <= most
<1> DEFINE chain == FlattenSeq(lines)
<1>1. chain \in Seq(S) /\ Len(chain) \in Nat
  BY FlattenSeqType
<1>0. Walk(conf, lines) = Walked(Walking(conf, chain)[Len(chain)])
  BY DEF Walk
<1>00. KeptTrail(chain, m, most)
  OBVIOUS
<1> HIDE DEF chain
<1> DEFINE T == {t \in Nat : t <= Len(chain) => Reaching(Walking(conf, chain)[t], chain, m, t)}
<1>2. 0 \in T
  <2>1. Walking(conf, chain)[0] = Start
    BY <1>1, WalkingDef
  <2>2. Reaching(Start, chain, m, 0)
    BY <1>00, <1>1 DEF Start, Reaching, KeptTrail
  <2> QED
    BY <2>1, <2>2
<1>3. ASSUME NEW t \in Nat, t \in T PROVE t + 1 \in T
  <2>1. SUFFICES ASSUME t + 1 <= Len(chain) PROVE Reaching(Walking(conf, chain)[t + 1], chain, m, t + 1)
    OBVIOUS
  <2>2. t \in 0 .. Len(chain) - 1 /\ t <= Len(chain)
    BY <1>1, <2>1
  <2>3. Reaching(Walking(conf, chain)[t], chain, m, t)
    BY <1>3, <2>2
  <2>4. Walking(conf, chain)[t + 1] = WalkStep(conf, Walking(conf, chain)[t], chain[Len(chain) - t])
    BY <1>1, <2>2, WalkingDef
  <2> QED
    BY <1>00, <1>1, <2>2, <2>3, <2>4, StepReaching
<1> HIDE DEF T
<1>4. Nat \subseteq T
  BY <1>2, <1>3, Induction
<1> DEFINE w == Walking(conf, chain)[Len(chain)]
<1>5. Reaching(w, chain, m, Len(chain))
  BY <1>1, <1>4 DEF T
<1> HIDE DEF w
<1>6. /\ \/ w.out = Ok(V4(Origin))
         \/ w.out = Err("too_many_hops") /\ MaxHops + m < Len(chain)
      /\ Len(w.hops) \in Nat /\ Len(w.hops) + m < Len(chain)
  BY <1>1, <1>5 DEF Reaching
<1>7. w.out.result # "walking"
  BY <1>6 DEF Ok, Err
<1>8. Walked(w) = w
  BY <1>7 DEF Walked
<1>9. (MaxHops + m < Len(chain) => MaxHops <= most) /\ Len(w.hops) <= most
  <2>1. Len(chain) - (m + 1) <= most /\ MaxHops \in Nat
    BY <1>00, PathAssumption DEF KeptTrail
  <2>2. Len(w.hops) \in Nat /\ Len(w.hops) + m < Len(chain)
    BY <1>6
  <2>3. ASSUME NEW k \in Nat, k + m < Len(chain) PROVE k <= most
    BY <1>1, <2>1, <2>3
  <2> QED
    BY <2>1, <2>2, <2>3
<1> QED
  BY <1>0, <1>6, <1>8, <1>9 DEF w

-----------------------------------------------------------------------------
\* Lists that proxies leave.

\* The elements a list may hold on its way.
Hosts == {Host(k) : k \in 0 .. Len(Path)}
Elements == Forged \cup {Blank, Junk} \cup {V4(h) : h \in Hosts} \cup {Mapped(h) : h \in Hosts}

\* A list of addresses of the route in their order.
Listed(chain, n) ==
  /\ chain \in Seq(Route(n))
  /\ \A i, j \in 1 .. Len(chain) : i < j => Before(chain[i], chain[j], n)

\* X-Real-IP is absent or names one of the route.
Reported(lines, n) == lines = <<>> \/ \E a \in Route(n) : lines = << <<a>> >>

\* Addresses of the route in their canonical form.
LEMMA RouteFacts ==
  ASSUME NEW n \in Nat
  PROVE  /\ \A a \in Route(n) : IsAddress(a) /\ Canonical(a) = a /\ a # NoAddress /\ ParseAddress(a) = a
         /\ \A k \in 0 .. n : V4(Host(k)) \in Route(n)
         /\ Route(n) \subseteq Route(n + 1)
         /\ \A a, b : Before(a, b, n) => Before(a, b, n + 1) /\ a \in Route(n) /\ b \in Route(n)
         /\ \A a \in Route(n) : Before(a, V4(Host(n + 1)), n + 1)
         /\ V4(Host(0)) = V4(Origin)
<1>1. \A a \in Route(n) : IsAddress(a) /\ Canonical(a) = a /\ a # NoAddress /\ ParseAddress(a) = a
  BY AddressFacts DEF Route
<1>2. \A k \in 0 .. n : V4(Host(k)) \in Route(n)
  BY DEF Route
<1>3. (0 .. n) \subseteq (0 .. n + 1) /\ n + 1 \in 0 .. n + 1 /\ \A k \in 0 .. n : k < n + 1
  OBVIOUS
<1>4. Route(n) \subseteq Route(n + 1)
  BY <1>3 DEF Route
<1>5. \A a, b : Before(a, b, n) => Before(a, b, n + 1) /\ a \in Route(n) /\ b \in Route(n)
  BY <1>3 DEF Before, Route
<1>6. \A a \in Route(n) : Before(a, V4(Host(n + 1)), n + 1)
  BY <1>3 DEF Before, Route
<1>7. V4(Host(0)) = V4(Origin)
  BY DEF Host
<1> QED
  BY <1>1, <1>2, <1>4, <1>5, <1>6, <1>7

\* A list in order is a trail from its first element.
LEMMA ListedTrail ==
  ASSUME NEW n \in Nat, NEW chain, Listed(chain, n)
  PROVE  Trail(chain, 0, n)
<1>1. chain \in Seq(Route(n)) /\ Len(chain) \in Nat /\ \A i \in 1 .. Len(chain) : chain[i] \in Route(n)
  BY DEF Listed
<1>2. \A i \in 1 .. Len(chain) : IsAddress(chain[i]) /\ Canonical(chain[i]) = chain[i]
  BY <1>1, RouteFacts
<1> QED
  BY <1>1, <1>2 DEF Trail, Listed

\* What a verified proxy lists: whom it found, the proxies between, its peer.
LEMMA VerifiedListed ==
  ASSUME NEW n \in Nat, NEW ip \in Route(n), NEW hops \in Seq(Route(n)),
         \A a, b \in 1 .. Len(hops) : a < b => Before(hops[b], hops[a], n),
         \A a \in 1 .. Len(hops) : Before(ip, hops[a], n)
  PROVE  LET chain == <<ip>> \o Reverse(hops) \o <<V4(Host(n + 1))>>
         IN /\ Listed(chain, n + 1) /\ chain[1] = ip /\ Len(chain) = Len(hops) + 2
            /\ \A i \in 2 .. Len(chain) : chain[i] = V4(Host(n + 1)) \/ \E a \in 1 .. Len(hops) : chain[i] = hops[a]
<1> DEFINE back == Reverse(hops)
           p == V4(Host(n + 1))
           l == Len(hops)
           chain == <<ip>> \o back \o <<p>>
<1>1. l \in Nat /\ back \in Seq(Route(n)) /\ Len(back) = l /\ \A i \in 1 .. l : back[i] = hops[l - i + 1] /\ l - i + 1 \in 1 .. l
  <2>1. l \in Nat /\ \A i \in 1 .. l : l - i + 1 \in 1 .. l
    OBVIOUS
  <2>2. back = [i \in 1 .. l |-> hops[(l - i) + 1]]
    BY DEF Reverse
  <2> QED
    BY <2>1, <2>2
<1>2. p \in Route(n + 1) /\ Route(n) \subseteq Route(n + 1) /\ n + 1 \in Nat
  BY RouteFacts DEF Route
<1> HIDE DEF back, p
<1>3. /\ chain \in Seq(Route(n + 1)) /\ Len(chain) = l + 2 /\ chain[1] = ip /\ chain[l + 2] = p
      /\ \A i \in 2 .. l + 1 : chain[i] = back[i - 1] /\ i - 1 \in 1 .. l
  <2>1. back \in Seq(Route(n + 1)) /\ ip \in Route(n + 1)
    BY <1>1, <1>2
  <2> QED
    BY <1>1, <1>2, <2>1
<1> HIDE DEF chain
<1>4. \A i \in 2 .. l + 1 : Before(ip, chain[i], n)
  BY <1>1, <1>3
<1>5. ASSUME NEW i \in 2 .. l + 1, NEW j \in 2 .. l + 1, i < j
      PROVE  Before(chain[i], chain[j], n)
  <2>1. i - 1 \in 1 .. l /\ j - 1 \in 1 .. l
    BY <1>3
  <2> DEFINE a == l - (i - 1) + 1
             b == l - (j - 1) + 1
  <2>2. a \in 1 .. l /\ b \in 1 .. l /\ b < a
    BY <1>1, <1>5, <2>1
  <2>3. chain[i] = hops[a] /\ chain[j] = hops[b]
    BY <1>1, <1>3, <2>1
  <2> HIDE DEF a, b
  <2> QED
    BY <2>2, <2>3
<1>6. \A i \in 1 .. l + 1 : chain[i] \in Route(n)
  <2>1. \A i \in 1 .. l + 1 : i = 1 \/ i \in 2 .. l + 1
    OBVIOUS
  <2> QED
    BY <1>1, <1>3, <1>4, <2>1, RouteFacts
<1>7. ASSUME NEW i \in 1 .. l + 2, NEW j \in 1 .. l + 2, i < j
      PROVE  Before(chain[i], chain[j], n + 1)
  <2>1. CASE j = l + 2
    <3>1. i \in 1 .. l + 1
      BY <1>1, <1>7, <2>1
    <3> QED
      BY <1>3, <1>6, <2>1, <3>1, RouteFacts DEF p
  <2>2. CASE j # l + 2
    <3>1. j \in 2 .. l + 1 /\ (i = 1 \/ i \in 2 .. l + 1)
      BY <1>1, <1>7, <2>2
    <3>2. Before(chain[i], chain[j], n)
      BY <1>3, <1>4, <1>5, <1>7, <3>1
    <3> QED
      BY <3>2, RouteFacts
  <2> QED
    BY <2>1, <2>2
<1>8. Listed(chain, n + 1)
  BY <1>3, <1>7 DEF Listed
<1>9. ASSUME NEW i \in 2 .. l + 2 PROVE chain[i] = p \/ \E a \in 1 .. l : chain[i] = hops[a]
  <2>1. i = l + 2 \/ i \in 2 .. l + 1
    BY <1>1
  <2> QED
    BY ZenonT(60), <1>1, <1>3, <2>1
<1> QED
  BY <1>3, <1>8, <1>9 DEF chain, p, back

\* An appending proxy lengthens the trail by its peer, in either form, and by
\* what is no address.
LEMMA AppendTrail ==
  ASSUME NEW S, NEW chain \in Seq(S), NEW n \in Nat, NEW m \in 0 .. Len(chain), Trail(chain, m, n),
         NEW e, e \in {Blank, Junk} \/ (IsAddress(e) /\ Canonical(e) = V4(Host(n + 1)))
  PROVE  Trail(Append(chain, e), m, n + 1)
<1> DEFINE l == Len(chain)
           more == Append(chain, e)
<1>1. l \in Nat /\ Len(more) = l + 1 /\ more[l + 1] = e /\ \A i \in 1 .. l : more[i] = chain[i]
  OBVIOUS
<1> HIDE DEF more
<1>2. \A i \in m + 1 .. l + 1 : i = l + 1 \/ i \in m + 1 .. l
  BY <1>1
<1>3. V4(Host(n + 1)) \in Route(n + 1) /\ Route(n) \subseteq Route(n + 1)
  <2>1. n + 1 \in 0 .. n + 1 /\ n + 1 \in Nat
    OBVIOUS
  <2> QED
    BY <2>1, RouteFacts
<1>4. ASSUME NEW i \in m + 1 .. l + 1
      PROVE  more[i] \in {Blank, Junk} \/ (IsAddress(more[i]) /\ Canonical(more[i]) \in Route(n + 1))
  <2>1. CASE i = l + 1
    BY <1>1, <1>3, <2>1
  <2>2. CASE i \in m + 1 .. l
    <3>1. more[i] = chain[i]
      BY <1>1, <2>2
    <3> QED
      BY <1>3, <2>2, <3>1 DEF Trail
  <2> QED
    BY <1>2, <2>1, <2>2
<1>5. ASSUME NEW i \in m + 1 .. l + 1, NEW j \in m + 1 .. l + 1, i < j, IsAddress(more[i]), IsAddress(more[j])
      PROVE  Before(Canonical(more[i]), Canonical(more[j]), n + 1)
  <2>1. i \in m + 1 .. l /\ more[i] = chain[i]
    BY <1>1, <1>5
  <2>2. CASE j = l + 1
    <3>1. Canonical(more[j]) = V4(Host(n + 1))
      BY <1>1, <1>5, <2>2, AddressFacts
    <3>2. Canonical(more[i]) \in Route(n)
      BY <1>5, <2>1, AddressFacts DEF Trail
    <3> QED
      BY <3>1, <3>2, RouteFacts
  <2>3. CASE j # l + 1
    <3>1. j \in m + 1 .. l /\ more[j] = chain[j]
      BY <1>1, <1>2, <2>3
    <3>2. Before(Canonical(more[i]), Canonical(more[j]), n)
      BY <1>5, <2>1, <3>1 DEF Trail
    <3> QED
      BY <3>2, RouteFacts
  <2> QED
    BY <2>2, <2>3
<1>6. m > 0 => m < l + 1 /\ (more[m + 1] = Junk \/ (IsAddress(more[m + 1]) /\ Canonical(more[m + 1]) = V4(Origin)))
  <2>1. m > 0 => m < l /\ more[m + 1] = chain[m + 1]
    BY <1>1 DEF Trail
  <2> QED
    BY <1>1, <2>1 DEF Trail
<1>7. Trail(more, m, n + 1)
  BY <1>1, <1>4, <1>5, <1>6 DEF Trail
<1> QED
  BY <1>7 DEF more

\* A proxy that lists its first peer, or a word for it, starts a trail whatever
\* stands left of it.
LEMMA FirstTrail ==
  ASSUME NEW S, NEW chain \in Seq(S), NEW e, e = Junk \/ (IsAddress(e) /\ Canonical(e) = V4(Origin))
  PROVE  Trail(Append(chain, e), Len(chain), 0)
<1> DEFINE l == Len(chain)
           more == Append(chain, e)
<1>1. l \in Nat /\ Len(more) = l + 1 /\ more[l + 1] = e
  OBVIOUS
<1> HIDE DEF more
<1>2. V4(Origin) \in Route(0)
  BY RouteFacts
<1>3. \A i \in l + 1 .. l + 1 : i = l + 1
  BY <1>1
<1>4. Trail(more, l, 0)
  BY <1>1, <1>2, <1>3 DEF Trail
<1> QED
  BY <1>4 DEF more

-----------------------------------------------------------------------------
\* What a proxy resolves, and what it leaves.

\* What a proxy resolves: its peer, somebody of the route before it, or nobody.
Resolved(c, n) ==
  \/ c = Resolution("peer", V4(Host(n)))
  \/ c.how = "forwarded" /\ c.ip \in Route(n - 1) /\ n > 0
  \/ c.how \notin {"peer", "forwarded"} /\ c.ip = NoAddress

\* The first proxy resolves its peer, whatever headers it gets.
LEMMA ResolveFirst ==
  ASSUME NEW conf \in Config, NEW p \in {V4(Origin), Mapped(Origin)}, NEW h
  PROVE  Resolve(conf, p, h) = Resolution("peer", V4(Origin))
<1>1. conf.trusted = Trusted
  BY DEF Config
<1>2. p # NoPeer /\ Canonical(p) = V4(Origin)
  BY AddressFacts DEF NoPeer
<1>3. ~Trusts(conf, Canonical(p))
  BY <1>1, <1>2, TrustFacts DEF Trusts
<1> QED
  BY <1>2, <1>3 DEF Resolve

\* What is read from X-Real-IP, alone or as a cleaned report.
LEMMA ReportedRead ==
  ASSUME NEW n \in Nat, NEW h, Reported(h["x-real-ip"], n)
  PROVE  /\ RealIp(h["x-real-ip"]).result = "ok"
         /\ RealIp(h["x-real-ip"]).ip \in Route(n) \cup {NoAddress}
         /\ CleanedReport(h) \in {RealIp(h["x-real-ip"]), Err("conflicting")}
<1> DEFINE lines == h["x-real-ip"]
<1>1. CASE lines = <<>>
  <2>1. RealIp(lines) = Ok(NoAddress)
    BY <1>1 DEF RealIp
  <2> QED
    BY <2>1 DEF CleanedReport, Ok
<1>2. ASSUME NEW a \in Route(n), lines = << <<a>> >> PROVE RealIp(lines) = Ok(a)
  <2>1. ParseAddress(a) # NoAddress /\ Canonical(a) = a
    BY RouteFacts
  <2>2. Len(lines) = 1 /\ lines[1] = <<a>> /\ Len(lines[1]) = 1 /\ lines[1][1] = a
    BY <1>2
  <2> QED
    BY <2>1, <2>2 DEF RealIp
<1>3. CASE lines # <<>>
  <2>1. PICK a \in Route(n) : lines = << <<a>> >>
    BY <1>3 DEF Reported
  <2>2. RealIp(lines) = Ok(a)
    BY <1>2, <2>1
  <2> QED
    BY <2>2 DEF CleanedReport, Ok
<1> QED
  BY <1>1, <1>3

\* Behind a trusted peer the walk of X-Forwarded-For decides, and only an
\* address it found is taken for forwarded.
LEMMA ResolveWalked ==
  ASSUME NEW conf, conf.header = "x_forwarded_for", NEW p, p # NoPeer, Trusts(conf, Canonical(p)), NEW h,
         NEW out, out = Walk(conf, h["x-forwarded-for"]).out, out = [result |-> out.result, ip |-> out.ip],
         out.result \in {"ok", "malformed", "too_many_hops"}
  PROVE  /\ out.result # "ok" => Resolve(conf, p, h) = Resolution(out.result, NoAddress)
         /\ out.result = "ok" /\ out.ip # NoAddress => Resolve(conf, p, h) = Resolution("forwarded", out.ip)
         /\ Resolve(conf, p, h).how = "forwarded" => out.result = "ok" /\ Resolve(conf, p, h).ip = out.ip
<1> DEFINE c == Resolve(conf, p, h)
<1>1. Forwarded(conf, h) = out
  BY DEF Forwarded
<1>2. CASE out.result # "ok"
  <2>1. c = Resolution(out.result, NoAddress)
    BY <1>1, <1>2 DEF Resolve, Ok
  <2> QED
    BY <1>2, <2>1 DEF Resolution
<1>3. CASE out.result = "ok" /\ out.ip # NoAddress
  <2>1. c = Resolution("forwarded", out.ip)
    BY <1>1, <1>3 DEF Resolve, Ok
  <2> QED
    BY <1>3, <2>1 DEF Resolution
<1>4. CASE out.result = "ok" /\ out.ip = NoAddress
  <2>1. out = Ok(NoAddress)
    BY <1>4 DEF Ok
  <2>2. c = IF conf.required THEN Resolution("unavailable", NoAddress) ELSE Resolution("peer", Canonical(p))
    BY <1>1, <1>4, <2>1 DEF Resolve
  <2> QED
    BY <1>4, <2>2 DEF Resolution
<1> QED
  BY <1>2, <1>3, <1>4

\* A later proxy trusts its peer and resolves from what it forwarded.
LEMMA ResolveLater ==
  ASSUME NEW conf \in Config, NEW n \in Nat, n + 1 <= Len(Path),
         NEW p \in {V4(Host(n + 1)), Mapped(Host(n + 1))},
         NEW S, NEW h, h["x-forwarded-for"] \in Seq(Seq(S)),
         \E m \in 0 .. Len(FlattenSeq(h["x-forwarded-for"])) : Trail(FlattenSeq(h["x-forwarded-for"]), m, n),
         Reported(h["x-real-ip"], n)
  PROVE  Resolved(Resolve(conf, p, h), n + 1)
<1> DEFINE c == Resolve(conf, p, h)
           lines == h["x-forwarded-for"]
           w == Walk(conf, lines)
           f == Forwarded(conf, h)
<1>1. conf.trusted = Trusted /\ conf.header \in {"x_forwarded_for", "x_real_ip", "cleaned_report"}
  BY DEF Config
<1>2. p # NoPeer /\ Canonical(p) = V4(Host(n + 1))
  BY AddressFacts DEF NoPeer
<1>3. Trusts(conf, Canonical(p))
  <2>1. n + 1 \in 1 .. Len(Path)
    BY PathAssumption
  <2> QED
    BY <1>1, <1>2, <2>1, TrustFacts DEF Trusts
<1>4. Found(w, n)
  BY <1>1, WalkFound
<1>5. f.ip \in Route(n) \cup {NoAddress} /\ (f.result # "ok" => f.ip = NoAddress)
      /\ f.result \in {"ok", "malformed", "too_many_hops", "conflicting"}
      /\ f = [result |-> f.result, ip |-> f.ip]
  <2>1. CASE conf.header = "x_forwarded_for"
    <3>1. f = w.out
      BY <2>1 DEF Forwarded
    <3> QED
      BY <1>4, <3>1 DEF Found
  <2>2. CASE conf.header \in {"x_real_ip", "cleaned_report"}
    <3>1. f \in {RealIp(h["x-real-ip"]), CleanedReport(h)}
      BY <2>2 DEF Forwarded
    <3>2. f \in {RealIp(h["x-real-ip"]), Err("conflicting")}
      BY <3>1, ReportedRead
    <3>3. RealIp(h["x-real-ip"]) = [result |-> RealIp(h["x-real-ip"]).result, ip |-> RealIp(h["x-real-ip"]).ip]
      BY DEF RealIp, Ok, Err
    <3> QED
      BY <3>2, <3>3, ReportedRead DEF Err
  <2> QED
    BY <1>1, <2>1, <2>2
<1>6. CASE f.result # "ok"
  <2>1. c = Resolution(f.result, NoAddress)
    BY <1>2, <1>3, <1>6 DEF Resolve, Ok
  <2> QED
    BY <1>5, <1>6, <2>1 DEF Resolved, Resolution
<1>7. CASE f.result = "ok" /\ f.ip # NoAddress
  <2>1. c = Resolution("forwarded", f.ip)
    BY <1>2, <1>3, <1>7 DEF Resolve, Ok
  <2>2. f.ip \in Route(n) /\ (n + 1) - 1 = n /\ n + 1 > 0
    BY <1>5, <1>7
  <2> QED
    BY <2>1, <2>2 DEF Resolved, Resolution
<1>8. CASE f.result = "ok" /\ f.ip = NoAddress
  <2>0. f = Ok(NoAddress)
    BY <1>5, <1>8 DEF Ok
  <2>1. c = IF conf.required THEN Resolution("unavailable", NoAddress) ELSE Resolution("peer", Canonical(p))
    BY <1>2, <1>3, <1>8, <2>0 DEF Resolve
  <2> QED
    BY <1>2, <2>1 DEF Resolved, Resolution
<1> QED
  BY <1>6, <1>7, <1>8

\* The headers a request leaves with.
LEMMA Applied ==
  ASSUME NEW conf \in Config, NEW p, NEW h, h = [x \in Names |-> h[x]]
  PROVE  LET left == Apply(conf, p, h)
             c == Resolve(conf, p, h)
         IN /\ left = [x \in Names |-> left[x]]
            /\ left["x-forwarded-for"] =
                 IF conf.forward = "preserve" THEN h["x-forwarded-for"] ELSE ForwardedFor(conf, c, p, h)
            /\ conf.forward # "preserve" => left["x-real-ip"] \in {<<>>, HeaderValue(c)}
<1> DEFINE c == Resolve(conf, p, h)
           audited == SetHeader(h, conf.auditHeader, h["x-forwarded-for"])
           rewritten == IF conf.forward = "preserve" THEN audited
                        ELSE [audited EXCEPT
                                !["x-forwarded-for"] = ForwardedFor(conf, c, p, h),
                                !["x-real-ip"] = <<>>, !["forwarded"] = <<>>]
           left == SetHeader(rewritten, conf.clientHeader, HeaderValue(c))
<1>1. conf.clientHeader \in {"none", "x-real-ip", "x-client"} /\ conf.auditHeader \in {"none", "x-audit"}
  BY DEF Config
<1>2. Apply(conf, p, h) = left
  BY DEF Apply
<1> HIDE DEF c
<1>3. audited = [x \in Names |-> audited[x]] /\ audited["x-forwarded-for"] = h["x-forwarded-for"]
  BY <1>1 DEF SetHeader, Names
<1> HIDE DEF audited
<1>4. /\ rewritten = [x \in Names |-> rewritten[x]]
      /\ rewritten["x-forwarded-for"] =
                 IF conf.forward = "preserve" THEN h["x-forwarded-for"] ELSE ForwardedFor(conf, c, p, h)
      /\ conf.forward # "preserve" => rewritten["x-real-ip"] = <<>>
  BY <1>3 DEF Names
<1> HIDE DEF rewritten
<1>5. /\ left = [x \in Names |-> left[x]]
      /\ left["x-forwarded-for"] = rewritten["x-forwarded-for"]
      /\ conf.forward # "preserve" => left["x-real-ip"] \in {<<>>, HeaderValue(c)}
  BY <1>1, <1>4 DEF SetHeader, Names
<1> HIDE DEF left
<1> QED
  BY <1>2, <1>4, <1>5 DEF c

\* Appending to the list keeps the client in its place.
LEMMA AppendKept ==
  ASSUME NEW S, NEW chain \in Seq(S), NEW most \in Nat, NEW m \in Nat, KeptTrail(chain, m, most),
         NEW e, e = Blank \/ (IsAddress(e) /\ Canonical(e) \in TrustedNets(Trusted))
  PROVE  KeptTrail(Append(chain, e), m, most + 1)
<1> DEFINE l == Len(chain)
           more == Append(chain, e)
<1>1. l \in Nat /\ Len(more) = l + 1 /\ more[l + 1] = e /\ \A i \in 1 .. l : more[i] = chain[i]
  OBVIOUS
<1> HIDE DEF more
<1>2. m < l /\ l - (m + 1) <= most /\ more[m + 1] = chain[m + 1]
  BY <1>1 DEF KeptTrail
<1>3. ASSUME NEW i \in m + 2 .. l + 1
      PROVE  more[i] = Blank \/ (IsAddress(more[i]) /\ Canonical(more[i]) \in TrustedNets(Trusted))
  <2>1. CASE i = l + 1
    BY <1>1, <2>1
  <2>2. CASE i # l + 1
    <3>1. i \in m + 2 .. l /\ more[i] = chain[i]
      BY <1>1, <2>2
    <3> QED
      BY <3>1 DEF KeptTrail
  <2> QED
    BY <2>1, <2>2
<1>4. m < l + 1 /\ (l + 1) - (m + 1) <= most + 1
  BY <1>1, <1>2
<1>5. IsAddress(more[m + 1]) /\ Canonical(more[m + 1]) = V4(Origin)
  BY <1>2 DEF KeptTrail
<1>6. KeptTrail(more, m, most + 1)
  BY <1>1, <1>3, <1>4, <1>5 DEF KeptTrail
<1> QED
  BY <1>6 DEF more

\* The client is listed, whatever it wrote left of it.
LEMMA FirstKept ==
  ASSUME NEW S, NEW chain \in Seq(S), NEW e, IsAddress(e), Canonical(e) = V4(Origin)
  PROVE  KeptTrail(Append(chain, e), Len(chain), 0)
<1> DEFINE l == Len(chain)
           more == Append(chain, e)
<1>1. l \in Nat /\ Len(more) = l + 1 /\ more[l + 1] = e
  OBVIOUS
<1> HIDE DEF more
<1>2. KeptTrail(more, l, 0)
  BY <1>1 DEF KeptTrail
<1> QED
  BY <1>2 DEF more

\* There is room for as many more.
LEMMA KeptMore ==
  ASSUME NEW chain, Len(chain) \in Nat, NEW m \in Nat, NEW most \in Nat, NEW more \in Nat,
         most <= more, KeptTrail(chain, m, most)
  PROVE  KeptTrail(chain, m, more)
  BY DEF KeptTrail

\* Addresses of the route may stand in a list.
LEMMA RouteElements ==
  ASSUME NEW n \in 0 .. Len(Path)
  PROVE  /\ Route(n) \subseteq Elements
         /\ V4(Host(n)) \in Elements /\ Mapped(Host(n)) \in Elements /\ {Blank, Junk} \subseteq Elements
<1>1. n \in Nat /\ \A k \in 0 .. n : k \in 0 .. Len(Path)
  BY PathAssumption
<1> QED
  BY <1>1 DEF Route, Elements, Hosts

\* What a proxy gets: its peer, and after the first one the trail up to it.
Arriving(p, h, n) ==
  /\ p \in {V4(Host(n)), Mapped(Host(n))} /\ h["x-forwarded-for"] \in Seq(Seq(Elements))
  /\ n > 0 => /\ \E m \in 0 .. Len(FlattenSeq(h["x-forwarded-for"])) :
                   Trail(FlattenSeq(h["x-forwarded-for"]), m, n - 1)
              /\ Reported(h["x-real-ip"], n - 1)

\* Its peer, somebody it found on the route, or nobody.
LEMMA ArrivingResolved ==
  ASSUME NEW conf \in Config, NEW n \in 0 .. Len(Path), NEW p, NEW h, Arriving(p, h, n)
  PROVE  LET c == Resolve(conf, p, h)
         IN /\ Resolved(c, n) /\ c.ip \in Route(n) \cup {NoAddress} /\ Reported(HeaderValue(c), n)
            /\ c.how = "forwarded" =>
                 LET hops == Hops(conf, p, h)
                 IN /\ n > 0 /\ hops \in Seq(Route(n - 1))
                    /\ \A a \in 1 .. Len(hops) : hops[a] \in TrustedNets(Trusted)
                    /\ \A a, b \in 1 .. Len(hops) : a < b => Before(hops[b], hops[a], n - 1)
                    /\ \A a \in 1 .. Len(hops) : Before(c.ip, hops[a], n - 1)
<1> DEFINE c == Resolve(conf, p, h)
           lines == h["x-forwarded-for"]
           w == Walk(conf, lines)
           hops == Hops(conf, p, h)
<1>0. n \in Nat
  BY PathAssumption
<1>1. Resolved(c, n)
  <2>1. CASE n = 0
    <3>1. p \in {V4(Origin), Mapped(Origin)}
      BY <2>1 DEF Arriving, Host
    <3>2. c = Resolution("peer", V4(Origin))
      BY <3>1, ResolveFirst
    <3> QED
      BY <2>1, <3>2, RouteFacts DEF Resolved
  <2>2. CASE n # 0
    <3> DEFINE k == n - 1
    <3>1. k \in Nat /\ n = k + 1 /\ k + 1 <= Len(Path) /\ n > 0
      BY <1>0, <2>2
    <3> HIDE DEF k
    <3>2. /\ p \in {V4(Host(k + 1)), Mapped(Host(k + 1))} /\ lines \in Seq(Seq(Elements))
          /\ \E m \in 0 .. Len(FlattenSeq(lines)) : Trail(FlattenSeq(lines), m, k)
          /\ Reported(h["x-real-ip"], k)
      BY <3>1 DEF Arriving, k
    <3> QED
      BY <3>1, <3>2, ResolveLater
  <2> QED
    BY <2>1, <2>2
<1>2. c.ip \in Route(n) \cup {NoAddress}
  <2>1. V4(Host(n)) \in Route(n)
    BY <1>0, RouteFacts
  <2>2. n > 0 => Route(n - 1) \subseteq Route(n)
    <3>1. ASSUME n > 0 PROVE n - 1 \in Nat /\ (n - 1) + 1 = n
      BY <1>0, <3>1
    <3> QED
      BY <3>1, RouteFacts
  <2> QED
    BY <1>1, <2>1, <2>2 DEF Resolved, Resolution
<1>3. Reported(HeaderValue(c), n)
  BY <1>2 DEF Reported, HeaderValue
<1>4. ASSUME c.how = "forwarded"
      PROVE  /\ n > 0 /\ hops \in Seq(Route(n - 1))
             /\ \A a \in 1 .. Len(hops) : hops[a] \in TrustedNets(Trusted)
             /\ \A a, b \in 1 .. Len(hops) : a < b => Before(hops[b], hops[a], n - 1)
             /\ \A a \in 1 .. Len(hops) : Before(c.ip, hops[a], n - 1)
  <2>1. n > 0
    BY <1>1, <1>4 DEF Resolved, Resolution
  <2>2. CASE ~(Trusts(conf, Canonical(p)) /\ conf.header = "x_forwarded_for")
    <3>1. hops = <<>>
      BY <2>2 DEF Hops
    <3> QED
      BY <2>1, <3>1
  <2>3. CASE Trusts(conf, Canonical(p)) /\ conf.header = "x_forwarded_for"
    <3> DEFINE k == n - 1
    <3>1. k \in Nat /\ n = k + 1 /\ k + 1 <= Len(Path) /\ n > 0
      BY <1>0, <2>1
    <3>2. hops = w.hops
      BY <2>3 DEF Hops
    <3> HIDE DEF k, hops
    <3>3. /\ p \in {V4(Host(k + 1)), Mapped(Host(k + 1))} /\ lines \in Seq(Seq(Elements))
          /\ \E m \in 0 .. Len(FlattenSeq(lines)) : Trail(FlattenSeq(lines), m, k)
          /\ Reported(h["x-real-ip"], k)
      BY <3>1 DEF Arriving, k
    <3>4. conf.trusted = Trusted
      BY DEF Config
    <3>5. Found(w, k)
      BY <3>1, <3>3, <3>4, WalkFound
    <3>6. p # NoPeer
      BY <3>3, AddressFacts DEF NoPeer
    <3>7. w.out = [result |-> w.out.result, ip |-> w.out.ip] /\ w.out.result \in {"ok", "malformed", "too_many_hops"}
      BY <3>5 DEF Found
    <3>8. w.out.result = "ok" /\ c.ip = w.out.ip
      BY <1>4, <2>3, <3>6, <3>7, ResolveWalked
    <3>9. c.ip # NoAddress
      BY <1>0, <1>1, <1>4, <3>1, RouteFacts DEF Resolved, Resolution, k
    <3> HIDE DEF w, c
    <3> QED
      BY <2>1, <3>2, <3>5, <3>8, <3>9 DEF Found, k
  <2> QED
    BY <2>2, <2>3
<1> HIDE DEF c, hops
<1> QED
  BY <1>1, <1>2, <1>3, <1>4 DEF c, hops

\* The list a verified or resolved proxy leaves: empty when nobody resolved, and
\* else one line that starts with the client.
LEMMA RewrittenListed ==
  ASSUME NEW conf \in Config, conf.forward \in {"verified", "resolved"},
         NEW n \in 0 .. Len(Path), NEW p, NEW h, Arriving(p, h, n),
         NEW c, c = Resolve(conf, p, h), NEW left, left = ForwardedFor(conf, c, p, h)
  PROVE  \/ left = <<>> /\ c.ip = NoAddress
         \/ \E s : left = <<s>> /\ Listed(s, n) /\ s # <<>> /\ s[1] = c.ip /\ c.ip # NoAddress
<1>0. n \in Nat /\ Resolved(c, n) /\ c.ip \in Route(n) \cup {NoAddress}
  BY PathAssumption, ArrivingResolved
<1>1. \A a \in Route(n) : Listed(<<a>>, n) /\ <<a>> # <<>> /\ <<a>>[1] = a /\ a # NoAddress
  BY <1>0, RouteFacts DEF Listed
<1>2. CASE conf.forward = "resolved"
  <2>1. left = IF c.ip = NoAddress THEN <<>> ELSE << <<c.ip>> >>
    BY <1>2 DEF ForwardedFor, HeaderValue
  <2> QED
    BY <1>0, <1>1, <2>1
<1>3. CASE conf.forward = "verified" /\ c.how = "peer"
  <2>1. left = << <<c.ip>> >>
    BY <1>3 DEF ForwardedFor, VerifiedChain
  <2>2. c.ip = V4(Host(n))
    BY <1>0, <1>3 DEF Resolved, Resolution
  <2>3. c.ip \in Route(n)
    BY <1>0, <2>2, RouteFacts
  <2> QED
    BY <1>1, <2>1, <2>3
<1>4. CASE conf.forward = "verified" /\ c.how = "forwarded"
  <2> DEFINE hops == Hops(conf, p, h)
             k == n - 1
             s == <<c.ip>> \o Reverse(hops) \o <<V4(Host(k + 1))>>
  <2>1. /\ n > 0 /\ hops \in Seq(Route(n - 1))
        /\ \A a, b \in 1 .. Len(hops) : a < b => Before(hops[b], hops[a], n - 1)
        /\ \A a \in 1 .. Len(hops) : Before(c.ip, hops[a], n - 1)
    BY <1>4, ArrivingResolved
  <2>2. k \in Nat /\ k + 1 = n
    BY <1>0, <2>1
  <2>3. Canonical(p) = V4(Host(k + 1))
    BY <2>2, AddressFacts DEF Arriving
  <2>4. left = << <<c.ip>> \o Reverse(hops) \o <<Canonical(p)>> >>
    BY <1>4 DEF ForwardedFor, VerifiedChain
  <2>5. c.ip \in Route(k)
    BY <1>0, <1>4 DEF Resolved, Resolution
  <2> HIDE DEF hops, k
  <2>6. /\ hops \in Seq(Route(k))
        /\ \A a, b \in 1 .. Len(hops) : a < b => Before(hops[b], hops[a], k)
        /\ \A a \in 1 .. Len(hops) : Before(c.ip, hops[a], k)
    BY <2>1 DEF k
  <2>7. Listed(s, k + 1) /\ s[1] = c.ip /\ Len(s) = Len(hops) + 2
    BY <2>2, <2>5, <2>6, VerifiedListed
  <2>8. s # <<>>
    BY <2>6, <2>7
  <2>9. left = <<s>>
    BY <2>3, <2>4
  <2>10. c.ip # NoAddress
    BY <2>2, <2>5, RouteFacts
  <2> HIDE DEF s
  <2> QED
    BY <2>2, <2>7, <2>8, <2>9, <2>10
<1>5. CASE conf.forward = "verified" /\ c.how \notin {"peer", "forwarded"}
  <2>1. left = <<>>
    BY <1>5 DEF ForwardedFor, VerifiedChain
  <2> QED
    BY <1>0, <1>5, <2>1 DEF Resolved, Resolution
<1> QED
  BY <1>2, <1>3, <1>4, <1>5

\* The list the next proxy gets is again a trail.
LEMMA RewrittenTrail ==
  ASSUME NEW conf \in Config, conf.forward # "preserve",
         NEW n \in 0 .. Len(Path), NEW p, NEW h, Arriving(p, h, n),
         NEW c, c = Resolve(conf, p, h), NEW left, left = ForwardedFor(conf, c, p, h)
  PROVE  /\ left \in Seq(Seq(Elements))
         /\ \E m \in 0 .. Len(FlattenSeq(left)) : Trail(FlattenSeq(left), m, n)
<1>0. n \in Nat /\ conf.forward \in {"verified", "resolved", "append", "remove"}
      /\ Route(n) \subseteq Elements /\ V4(Host(n)) \in Elements /\ {Blank, Junk} \subseteq Elements
  BY PathAssumption, RouteElements DEF Config
<1>1. ASSUME left = <<>> PROVE left \in Seq(Seq(Elements)) /\ Trail(FlattenSeq(left), 0, n) /\ Len(FlattenSeq(left)) = 0
  <2>0. left \in Seq(Seq(Elements))
    BY <1>1
  <2>1. FlattenSeq(left) = <<>>
    BY <1>1, <2>0, FlattenSeqType
  <2>2. <<>> \in Seq(Route(n)) /\ Len(<<>>) = 0
    OBVIOUS
  <2>3. Listed(<<>>, n)
    BY <2>2 DEF Listed
  <2> QED
    BY <1>0, <2>0, <2>1, <2>2, <2>3, ListedTrail
<1>2. CASE conf.forward \in {"verified", "resolved"}
  <2>1. CASE left = <<>>
    BY <1>1, <2>1
  <2>2. CASE left # <<>>
    <3>1. PICK s : left = <<s>> /\ Listed(s, n)
      BY <1>2, <2>2, RewrittenListed
    <3>2. s \in Seq(Route(n)) /\ s \in Seq(Elements)
      BY <1>0, <3>1 DEF Listed
    <3>3. left \in Seq(Seq(Elements)) /\ FlattenSeq(left) = s
      BY <3>1, <3>2, FlattenSeqOne
    <3>4. Trail(s, 0, n) /\ 0 \in 0 .. Len(s)
      BY <1>0, <3>1, <3>2, ListedTrail
    <3> QED
      BY <3>3, <3>4
  <2> QED
    BY <2>1, <2>2
<1>3. CASE conf.forward = "append"
  <2> DEFINE chain == FlattenSeq(h["x-forwarded-for"])
             e == Canonical(p)
             more == Append(chain, e)
  <2>1. chain \in Seq(Elements)
    BY FlattenSeqType DEF Arriving
  <2>2. p # NoPeer /\ e = V4(Host(n))
    BY AddressFacts DEF Arriving, NoPeer
  <2>3. left = <<more>>
    BY <1>3, <2>2 DEF ForwardedFor, AppendedChain
  <2>4. more \in Seq(Elements) /\ Len(chain) \in Nat /\ Len(more) = Len(chain) + 1
    BY <1>0, <2>1, <2>2
  <2>5. IsAddress(e) /\ Canonical(e) = V4(Host(n))
    BY <2>2, AddressFacts
  <2> HIDE DEF e, chain
  <2>6. \E m \in 0 .. Len(chain) : Trail(more, m, n)
    <3>1. CASE n = 0
      <4>1. Canonical(e) = V4(Origin)
        BY <2>5, <3>1, RouteFacts
      <4> QED
        BY <2>1, <2>4, <2>5, <3>1, <4>1, FirstTrail
    <3>2. CASE n # 0
      <4> DEFINE k == n - 1
      <4>1. k \in Nat /\ k + 1 = n /\ n > 0
        BY <1>0, <3>2
      <4>2. PICK m \in 0 .. Len(chain) : Trail(chain, m, k)
        BY <4>1 DEF Arriving, chain
      <4> HIDE DEF k
      <4>3. Trail(more, m, k + 1)
        BY <2>1, <2>5, <4>1, <4>2, AppendTrail
      <4> QED
        BY <4>1, <4>3
    <3> QED
      BY <3>1, <3>2
  <2> HIDE DEF more
  <2>7. left \in Seq(Seq(Elements)) /\ FlattenSeq(left) = more
    BY <2>3, <2>4, FlattenSeqOne
  <2>8. \A m \in 0 .. Len(chain) : m \in 0 .. Len(more)
    BY <2>4
  <2> QED
    BY <2>6, <2>7, <2>8
<1>4. CASE conf.forward = "remove"
  <2>1. left = <<>>
    BY <1>4 DEF ForwardedFor
  <2> QED
    BY <1>1, <2>1
<1> QED
  BY <1>0, <1>2, <1>3, <1>4

\* The client is still in the list when it was appended to, or when whoever
\* resolved it wrote it.
LEMMA RewrittenKept ==
  ASSUME NEW conf \in Config, NEW n \in 0 .. Len(Path), NEW p, NEW h, Arriving(p, h, n),
         n > 0 => \E m \in Nat : KeptTrail(FlattenSeq(h["x-forwarded-for"]), m, 2 * (n - 1)),
         NEW c, c = Resolve(conf, p, h), NEW left, left = ForwardedFor(conf, c, p, h)
  PROVE  /\ conf.header = "x_forwarded_for" =>
              c.ip = V4(Origin) \/ (c.how = "too_many_hops" /\ n > 0 /\ MaxHops <= 2 * (n - 1))
         /\ (conf.forward = "append" \/ (conf.forward \in {"verified", "resolved"} /\ c.ip = V4(Origin))) =>
              \E m \in Nat : KeptTrail(FlattenSeq(left), m, 2 * n)
<1> DEFINE lines == h["x-forwarded-for"]
           chain == FlattenSeq(lines)
           w == Walk(conf, lines)
<1>0. n \in Nat /\ conf.trusted = Trusted /\ lines \in Seq(Seq(Elements)) /\ chain \in Seq(Elements)
      /\ Route(n) \subseteq Elements /\ V4(Host(n)) \in Elements /\ V4(Origin) \in Elements
  <2>1. n \in Nat /\ lines \in Seq(Seq(Elements)) /\ 0 \in 0 .. Len(Path)
    BY PathAssumption DEF Arriving
  <2> QED
    BY <2>1, RouteElements, RouteFacts, FlattenSeqType DEF Config
<1>1. CASE n = 0
  <2>1. p \in {V4(Origin), Mapped(Origin)} /\ p # NoPeer
    BY <1>1, AddressFacts DEF Arriving, Host, NoPeer
  <2>2. c = Resolution("peer", V4(Origin))
    BY <2>1, ResolveFirst
  <2>3. c.ip = V4(Origin) /\ c.how = "peer" /\ Canonical(p) = V4(Origin)
    BY <2>1, <2>2, AddressFacts DEF Resolution
  <2>4. CASE conf.forward \in {"verified", "resolved"}
    <3>1. left = << <<V4(Origin)>> >>
      BY <2>3, <2>4, AddressFacts DEF ForwardedFor, VerifiedChain, HeaderValue
    <3>2. <<V4(Origin)>> \in Seq(Elements) /\ <<>> \in Seq(Elements)
          /\ <<V4(Origin)>> = Append(<<>>, V4(Origin)) /\ Len(<<>>) = 0
      BY <1>0
    <3>3. FlattenSeq(left) = <<V4(Origin)>>
      BY <3>1, <3>2, FlattenSeqOne
    <3>4. KeptTrail(<<V4(Origin)>>, 0, 0)
      BY <3>2, AddressFacts, FirstKept
    <3> QED
      BY <1>1, <2>3, <3>3, <3>4
  <2>5. CASE conf.forward = "append"
    <3> DEFINE more == Append(chain, V4(Origin))
    <3>1. left = <<more>>
      BY <2>1, <2>3, <2>5 DEF ForwardedFor, AppendedChain
    <3>2. more \in Seq(Elements) /\ Len(chain) \in Nat
      BY <1>0
    <3>3. KeptTrail(more, Len(chain), 0)
      BY <1>0, AddressFacts, FirstKept
    <3> HIDE DEF more
    <3>4. FlattenSeq(left) = more
      BY <3>1, <3>2, FlattenSeqOne
    <3> QED
      BY <1>1, <2>3, <3>2, <3>3, <3>4
  <2>6. conf.forward \in {"verified", "resolved", "append"} \/ conf.forward \notin {"verified", "resolved", "append"}
    OBVIOUS
  <2> QED
    BY <2>3, <2>4, <2>5, <2>6
<1>2. CASE n # 0
  <2> DEFINE k == n - 1
  <2>1. k \in Nat /\ n = k + 1 /\ k + 1 <= Len(Path) /\ n > 0 /\ 2 * k \in Nat /\ 2 * n = 2 * k + 2
    BY <1>0, <1>2
  <2>2. PICK m \in Nat : KeptTrail(chain, m, 2 * k)
    BY <2>1
  <2>3. Canonical(p) = V4(Host(n)) /\ p # NoPeer /\ V4(Host(n)) \in TrustedNets(Trusted)
    <3>1. n \in 1 .. Len(Path)
      BY <1>0, <1>2
    <3> QED
      BY <3>1, AddressFacts, TrustFacts DEF Arriving, NoPeer
  <2>4. Trusts(conf, Canonical(p))
    BY <1>0, <2>3 DEF Trusts
  <2> HIDE DEF k
  <2>5. /\ \/ w.out = Ok(V4(Origin))
           \/ w.out = Err("too_many_hops") /\ MaxHops <= 2 * k
        /\ Len(w.hops) <= 2 * k
    BY <1>0, <2>1, <2>2, WalkReaches
  <2>6. conf.header = "x_forwarded_for" =>
          c.ip = V4(Origin) \/ (c.how = "too_many_hops" /\ MaxHops <= 2 * k)
    <3> SUFFICES ASSUME conf.header = "x_forwarded_for"
                 PROVE  c.ip = V4(Origin) \/ (c.how = "too_many_hops" /\ MaxHops <= 2 * k)
      OBVIOUS
    <3> DEFINE out == w.out
    <3>1. CASE out = Ok(V4(Origin))
      <4>1. out.result = "ok" /\ out.ip = V4(Origin) /\ out = [result |-> out.result, ip |-> out.ip]
            /\ out.ip # NoAddress
        BY <3>1, AddressFacts DEF Ok
      <4>2. c = Resolution("forwarded", out.ip)
        BY <2>3, <2>4, <4>1, ResolveWalked
      <4> QED
        BY <4>1, <4>2 DEF Resolution
    <3>2. CASE out = Err("too_many_hops") /\ MaxHops <= 2 * k
      <4>1. out.result = "too_many_hops" /\ out = [result |-> out.result, ip |-> out.ip]
        BY <3>2 DEF Err
      <4>2. c = Resolution("too_many_hops", NoAddress)
        BY <2>3, <2>4, <4>1, ResolveWalked
      <4> QED
        BY <3>2, <4>2 DEF Resolution
    <3> QED
      BY <2>5, <3>1, <3>2
  <2>7. CASE conf.forward = "append"
    <3> DEFINE more == Append(chain, V4(Host(n)))
    <3>1. left = <<more>>
      BY <2>3, <2>7 DEF ForwardedFor, AppendedChain
    <3>2. more \in Seq(Elements)
      BY <1>0
    <3>3. KeptTrail(more, m, 2 * k + 1)
      BY <1>0, <2>1, <2>2, <2>3, AddressFacts, AppendKept
    <3> HIDE DEF more
    <3>4. FlattenSeq(left) = more /\ Len(more) \in Nat
      BY <3>1, <3>2, FlattenSeqOne
    <3>5. 2 * k + 1 \in Nat /\ 2 * n \in Nat /\ 2 * k + 1 <= 2 * n
      BY <2>1
    <3>6. KeptTrail(more, m, 2 * n)
      BY <3>3, <3>4, <3>5, KeptMore
    <3> QED
      BY <2>1, <2>6, <3>4, <3>6 DEF k
  <2>8. CASE conf.forward \in {"verified", "resolved"} /\ c.ip = V4(Origin)
    <3>0. Resolved(c, n) /\ V4(Origin) # V4(Host(n)) /\ V4(Origin) # NoAddress
      BY <2>3, ArrivingResolved, TrustFacts, AddressFacts
    <3>1. c.how = "forwarded"
      BY <2>8, <3>0 DEF Resolved, Resolution
    <3>2. CASE conf.forward = "resolved"
      <4>1. left = << <<V4(Origin)>> >>
        BY <2>8, <3>0, <3>2 DEF ForwardedFor, HeaderValue
      <4>2. <<V4(Origin)>> \in Seq(Elements) /\ <<>> \in Seq(Elements)
            /\ <<V4(Origin)>> = Append(<<>>, V4(Origin)) /\ Len(<<>>) = 0 /\ Len(<<V4(Origin)>>) \in Nat
        BY <1>0
      <4>3. FlattenSeq(left) = <<V4(Origin)>>
        BY <4>1, <4>2, FlattenSeqOne
      <4>4. KeptTrail(<<V4(Origin)>>, 0, 0)
        BY <4>2, AddressFacts, FirstKept
      <4>5. 2 * n \in Nat /\ 0 <= 2 * n
        BY <1>0
      <4>6. KeptTrail(<<V4(Origin)>>, 0, 2 * n)
        BY <4>2, <4>4, <4>5, KeptMore
      <4> QED
        BY <2>1, <2>6, <4>3, <4>6 DEF k
    <3>3. CASE conf.forward = "verified"
      <4> DEFINE hops == Hops(conf, p, h)
                 s == <<c.ip>> \o Reverse(hops) \o <<V4(Host(k + 1))>>
      <4>1. /\ hops \in Seq(Route(n - 1))
            /\ \A a \in 1 .. Len(hops) : hops[a] \in TrustedNets(Trusted)
            /\ \A a, b \in 1 .. Len(hops) : a < b => Before(hops[b], hops[a], n - 1)
            /\ \A a \in 1 .. Len(hops) : Before(c.ip, hops[a], n - 1)
        BY <3>1, ArrivingResolved
      <4>2. n - 1 = k /\ c.ip \in Route(k)
        BY <3>0, <3>1 DEF Resolved, Resolution, k
      <4>3. left = <<s>>
        BY <2>1, <2>3, <3>1, <3>3 DEF ForwardedFor, VerifiedChain
      <4>4. Len(hops) <= 2 * k
        <5>1. hops = w.hops \/ hops = <<>>
          BY DEF Hops
        <5>2. Len(<<>>) <= 2 * k
          BY <2>1
        <5> HIDE DEF hops, w
        <5> QED
          BY <2>5, <5>1, <5>2
      <4> HIDE DEF hops
      <4>5. /\ Listed(s, k + 1) /\ s[1] = c.ip /\ Len(s) = Len(hops) + 2
            /\ \A i \in 2 .. Len(s) : s[i] = V4(Host(k + 1)) \/ \E a \in 1 .. Len(hops) : s[i] = hops[a]
        <5>1. /\ hops \in Seq(Route(k))
              /\ \A a, b \in 1 .. Len(hops) : a < b => Before(hops[b], hops[a], k)
              /\ \A a \in 1 .. Len(hops) : Before(c.ip, hops[a], k)
          BY <4>1, <4>2
        <5> QED
          BY ZenonT(60), <2>1, <4>2, <5>1, VerifiedListed
      <4> HIDE DEF s
      <4>6. s \in Seq(Route(n)) /\ Len(s) \in Nat /\ Len(hops) \in Nat
        BY <2>1, <4>1, <4>5 DEF Listed
      <4>7. s \in Seq(Elements)
        BY <1>0, <4>6
      <4>8. FlattenSeq(left) = s
        BY <4>3, <4>7, FlattenSeqOne
      <4>9. 0 < Len(s) /\ Len(s) - (0 + 1) <= 2 * n
        BY <2>1, <4>4, <4>5, <4>6
      <4>10. IsAddress(s[0 + 1]) /\ Canonical(s[0 + 1]) = V4(Origin)
        BY <2>8, <4>5, AddressFacts
      <4>11. ASSUME NEW i \in 0 + 2 .. Len(s)
             PROVE  IsAddress(s[i]) /\ Canonical(s[i]) \in TrustedNets(Trusted)
        <5>1. i \in 2 .. Len(s) /\ i \in 1 .. Len(s)
          BY <4>6
        <5>2. s[i] \in Route(n)
          BY <4>6, <5>1
        <5>3. IsAddress(s[i]) /\ Canonical(s[i]) = s[i]
          BY <1>0, <5>2, RouteFacts
        <5>4. s[i] \in TrustedNets(Trusted)
          BY <2>1, <2>3, <4>1, <4>5, <5>1
        <5> QED
          BY <5>3, <5>4
      <4>12. KeptTrail(s, 0, 2 * n)
        BY <4>9, <4>10, <4>11 DEF KeptTrail
      <4> QED
        BY <2>1, <2>6, <4>8, <4>12 DEF k
    <3> QED
      BY <2>8, <3>2, <3>3
  <2>9. CASE ~(conf.forward = "append" \/ (conf.forward \in {"verified", "resolved"} /\ c.ip = V4(Origin)))
    BY <2>1, <2>6, <2>9 DEF k
  <2> QED
    BY <2>7, <2>8, <2>9
<1> QED
  BY <1>1, <1>2

-----------------------------------------------------------------------------
\* The path.

\* An element that is no address adds nothing to the trail.
LEMMA BlankTrail ==
  ASSUME NEW S, NEW chain \in Seq(S), NEW n \in Nat, NEW m \in 0 .. Len(chain), Trail(chain, m, n)
  PROVE  Trail(Append(chain, Blank), m, n)
<1> DEFINE l == Len(chain)
           more == Append(chain, Blank)
<1>1. l \in Nat /\ Len(more) = l + 1 /\ more[l + 1] = Blank /\ \A i \in 1 .. l : more[i] = chain[i]
  OBVIOUS
<1> HIDE DEF more
<1>2. \A i \in m + 1 .. l + 1 : (i = l + 1 /\ ~IsAddress(more[i]) /\ more[i] = Blank)
                                \/ (i \in m + 1 .. l /\ more[i] = chain[i])
  BY <1>1, AddressFacts
<1>3. m > 0 => m < l /\ more[m + 1] = chain[m + 1]
  BY <1>1 DEF Trail
<1>4. m < l => m < l + 1
  BY <1>1
<1>5. Trail(more, m, n)
  BY <1>1, <1>2, <1>3, <1>4 DEF Trail
<1> QED
  BY <1>5 DEF more

\* The client's own lists are lists of elements.
LEMMA SentTyped ==
  ASSUME NEW h \in Sent
  PROVE  h = [x \in Names |-> h[x]] /\ h["x-forwarded-for"] \in Seq(Seq(Elements))
<1>1. PICK list \in Lines(MaxForged) :
        /\ h = [x \in Names |-> h[x]] /\ h["x-forwarded-for"] = list
  BY DEF Sent, Names
<1>2. list \in Seq(Seq(Elements))
  <2>1. ASSUME NEW s \in BoundedSeq(Forged, MaxForged) PROVE s \in Seq(Elements)
    <3>1. PICK k \in 0 .. MaxForged : s \in [1 .. k -> Forged]
      BY DEF BoundedSeq, SeqOf
    <3>2. k \in Nat /\ Forged \subseteq Elements
      BY PathAssumption DEF Elements
    <3>3. s \in [1 .. k -> Elements]
      BY <3>1, <3>2
    <3> QED
      BY <3>2, <3>3
  <2>2. CASE list = <<>>
    BY <2>2
  <2>3. ASSUME NEW s \in BoundedSeq(Forged, MaxForged), list = <<s>> PROVE list \in Seq(Seq(Elements))
    BY <2>1, <2>3
  <2>4. ASSUME NEW s \in BoundedSeq(Forged, MaxForged), list = [i \in DOMAIN s |-> <<s[i]>>]
        PROVE  list \in Seq(Seq(Elements))
    <3>1. s \in Seq(Elements) /\ DOMAIN s = 1 .. Len(s) /\ Len(s) \in Nat
      BY <2>1
    <3>2. \A i \in 1 .. Len(s) : <<s[i]>> \in Seq(Elements)
      BY <3>1
    <3>3. list \in [1 .. Len(s) -> Seq(Elements)]
      BY <2>4, <3>1, <3>2
    <3> QED
      BY <3>1, <3>3
  <2> QED
    BY <2>2, <2>3, <2>4 DEF Lines
<1> QED
  BY <1>1, <1>2

-----------------------------------------------------------------------------
\* The list the next proxy gets, and what is known of it.
Chain == FlattenSeq(headers["x-forwarded-for"])

\* The client is in the list the last proxy left, if it was in the one it got.
Listing == last.forward = "append" \/ (last.forward \in {"verified", "resolved"} /\ client.ip = V4(Origin))

PathType ==
  /\ at \in 0 .. Len(Path) /\ headers = [x \in Names |-> headers[x]]
  /\ kept => honest
  /\ at = 0 => last.forward = "none" /\ last.header = "none"

\* A proxy sees the one before it, and the list it gets ends in a trail of the
\* request, as long as no proxy passed on what it was sent.
Genuine ==
  honest =>
    /\ peer \in {V4(Host(at)), Mapped(Host(at))} /\ headers["x-forwarded-for"] \in Seq(Seq(Elements))
    /\ at > 0 => client.ip \in Route(at - 1) \cup {NoAddress}
    /\ at > 0 /\ last.forward # "preserve" =>
         /\ \E m \in 0 .. Len(Chain) : Trail(Chain, m, at - 1)
         /\ Reported(headers["x-real-ip"], at - 1)

\* A list that was rewritten names the client first, then the proxies in order.
Rewritten ==
  honest /\ at > 0 /\ last.forward \in {"verified", "resolved"} =>
    /\ Listed(Chain, at - 1) /\ (Chain = <<>> <=> client.ip = NoAddress)
    /\ Chain # <<>> => Chain[1] = client.ip

\* The true client is in the list, close enough to its end.
OriginListed ==
  kept /\ at > 0 /\ Listing => \E m \in Nat : KeptTrail(Chain, m, 2 * (at - 1))

\* The inductive invariant: OriginKept speaks of what was read, not of the list
\* the next proxy will read.
PathInv == PathType /\ Genuine /\ Rewritten /\ OriginListed /\ OriginKept

\* The request starts with whatever the client wrote.
LEMMA PathInitInv == PathInit => PathInv
<1> SUFFICES ASSUME PathInit PROVE PathInv
  OBVIOUS
<1>1. at = 0 /\ last.forward = "none" /\ last.header = "none" /\ Len(Path) \in Nat
  BY PathAssumption DEF PathInit
<1>2. headers = [x \in Names |-> headers[x]] /\ headers["x-forwarded-for"] \in Seq(Seq(Elements))
  BY SentTyped DEF PathInit
<1>3. (kept => honest) /\ (honest => peer # NoPeer)
  BY DEF PathInit
<1>4. honest => peer \in {V4(Host(at)), Mapped(Host(at))}
  BY <1>1, <1>3 DEF PathInit, Host
<1>5. PathType /\ Genuine
  BY <1>1, <1>2, <1>3, <1>4 DEF PathType, Genuine
<1>6. Rewritten /\ OriginListed /\ OriginKept
  BY <1>1 DEF Rewritten, OriginListed, OriginKept
<1> QED
  BY <1>5, <1>6 DEF PathInv

\* What the next proxy gets.
LEMMA ArrivingNext ==
  ASSUME PathInv, honest, last.forward # "preserve"
  PROVE  Arriving(peer, headers, at)
  BY DEF PathInv, Genuine, PathType, Arriving, Chain

\* A proxy of this kind.
LEMMA ProxyPassInv ==
  ASSUME PathInv, NEW conf \in Config, ProxyPass(conf)
  PROVE  PathInv'
<1> DEFINE c == Resolve(conf, peer, headers)
           left == ForwardedFor(conf, c, peer, headers)
<1>0. /\ at \in 0 .. Len(Path) /\ at \in Nat /\ at + 1 \in 0 .. Len(Path) /\ (at + 1) - 1 = at /\ at + 1 > 0
      /\ headers = [x \in Names |-> headers[x]]
  BY PathAssumption DEF PathInv, PathType, ProxyPass
<1>1. /\ at' = at + 1 /\ client' = c /\ headers' = Apply(conf, peer, headers)
      /\ last' = [forward |-> conf.forward, header |-> conf.header]
      /\ peer' \in {V4(Path[at + 1]), Mapped(Path[at + 1])}
  BY DEF ProxyPass, Noted
<1>2. /\ headers' = [x \in Names |-> headers'[x]]
      /\ headers'["x-forwarded-for"] = IF conf.forward = "preserve" THEN headers["x-forwarded-for"] ELSE left
      /\ conf.forward # "preserve" => headers'["x-real-ip"] \in {<<>>, HeaderValue(c)}
  BY <1>0, <1>1, Applied
<1>3. honest' => honest /\ last.forward # "preserve"
  BY DEF ProxyPass
<1>4. kept' => kept /\ (at = 0 \/ Listing)
  BY DEF ProxyPass, Listing
<1>5. kept' => honest'
  <2>1. kept' => honest /\ last.forward # "preserve"
    BY <1>4 DEF PathInv, PathType, Listing
  <2>2. honest' = (honest /\ last.forward # "preserve")
    BY DEF ProxyPass
  <2> QED
    BY <2>1, <2>2
<1>6. PathType'
  BY <1>0, <1>1, <1>2, <1>5 DEF PathType
<1>7. honest' => Arriving(peer, headers, at)
  BY <1>3, ArrivingNext
<1>8. Genuine'
  <2> SUFFICES ASSUME honest' PROVE Genuine'
    BY DEF Genuine
  <2>1. peer' \in {V4(Host(at')), Mapped(Host(at'))}
    BY <1>0, <1>1 DEF Host
  <2>2. headers["x-forwarded-for"] \in Seq(Seq(Elements))
    BY <1>7 DEF Arriving
  <2>3. c.ip \in Route(at) \cup {NoAddress} /\ Reported(HeaderValue(c), at)
    BY <1>0, <1>7, ArrivingResolved
  <2>4. CASE conf.forward = "preserve"
    BY <1>0, <1>1, <1>2, <2>1, <2>2, <2>3, <2>4 DEF Genuine
  <2>5. CASE conf.forward # "preserve"
    <3>1. left \in Seq(Seq(Elements)) /\ \E m \in 0 .. Len(FlattenSeq(left)) : Trail(FlattenSeq(left), m, at)
      BY <1>0, <1>7, <2>5, RewrittenTrail
    <3>2. Reported(headers'["x-real-ip"], at)
      BY <1>2, <2>3, <2>5 DEF Reported
    <3>3. headers'["x-forwarded-for"] = left /\ Chain' = FlattenSeq(left)
      BY <1>2, <2>5 DEF Chain
    <3> HIDE DEF left, c
    <3> QED
      BY <1>0, <1>1, <2>1, <2>3, <3>1, <3>2, <3>3 DEF Genuine
  <2> QED
    BY <2>4, <2>5
<1>9. Rewritten'
  <2> SUFFICES ASSUME honest', conf.forward \in {"verified", "resolved"} PROVE Rewritten'
    BY <1>1 DEF Rewritten
  <2>1. \/ left = <<>> /\ c.ip = NoAddress
        \/ \E s : left = <<s>> /\ Listed(s, at) /\ s # <<>> /\ s[1] = c.ip /\ c.ip # NoAddress
    BY <1>0, <1>7, RewrittenListed
  <2>2. Chain' = FlattenSeq(left)
    BY <1>2 DEF Chain
  <2> HIDE DEF left, c
  <2>3. CASE left = <<>> /\ c.ip = NoAddress
    <3>1. <<>> \in Seq(Seq(Elements)) /\ <<>> \in Seq(Route(at)) /\ Len(<<>>) = 0
      OBVIOUS
    <3>2. Chain' = <<>>
      BY <2>2, <2>3, <3>1, FlattenSeqType
    <3>3. Listed(<<>>, at)
      BY <3>1 DEF Listed
    <3> QED
      BY <1>0, <1>1, <2>3, <3>2, <3>3 DEF Rewritten
  <2>4. ASSUME NEW s, left = <<s>> /\ Listed(s, at) /\ s # <<>> /\ s[1] = c.ip /\ c.ip # NoAddress
        PROVE  Rewritten'
    <3>1. s \in Seq(Route(at))
      BY <2>4 DEF Listed
    <3>2. Chain' = s
      BY <2>2, <2>4, <3>1, FlattenSeqOne
    <3> QED
      BY <1>0, <1>1, <2>4, <3>2 DEF Rewritten
  <2> QED
    BY <2>1, <2>3, <2>4
<1>10. kept' => /\ conf.header = "x_forwarded_for" =>
                     c.ip = V4(Origin) \/ (c.how = "too_many_hops" /\ at > 0 /\ MaxHops <= 2 * (at - 1))
                /\ (conf.forward = "append" \/ (conf.forward \in {"verified", "resolved"} /\ c.ip = V4(Origin))) =>
                     \E m \in Nat : KeptTrail(FlattenSeq(left), m, 2 * at)
  <2> SUFFICES ASSUME kept' PROVE
                /\ conf.header = "x_forwarded_for" =>
                     c.ip = V4(Origin) \/ (c.how = "too_many_hops" /\ at > 0 /\ MaxHops <= 2 * (at - 1))
                /\ (conf.forward = "append" \/ (conf.forward \in {"verified", "resolved"} /\ c.ip = V4(Origin))) =>
                     \E m \in Nat : KeptTrail(FlattenSeq(left), m, 2 * at)
    OBVIOUS
  <2>1. Arriving(peer, headers, at)
    BY <1>5, <1>7
  <2>2. at > 0 => \E m \in Nat : KeptTrail(FlattenSeq(headers["x-forwarded-for"]), m, 2 * (at - 1))
    BY <1>4 DEF PathInv, OriginListed, Chain
  <2> QED
    BY <1>0, <2>1, <2>2, RewrittenKept
<1> HIDE DEF c
<1>11. OriginListed'
  <2> SUFFICES ASSUME kept', Listing' PROVE \E m \in Nat : KeptTrail(Chain', m, 2 * (at' - 1))
    BY DEF OriginListed
  <2>1. conf.forward = "append" \/ (conf.forward \in {"verified", "resolved"} /\ c.ip = V4(Origin))
    BY <1>1 DEF Listing
  <2>2. Chain' = FlattenSeq(left)
    BY <1>2, <2>1 DEF Chain
  <2> QED
    BY <1>0, <1>1, <1>10, <2>1, <2>2
<1>12. OriginKept'
  <2> SUFFICES ASSUME kept', last'.header = "x_forwarded_for" PROVE OriginKept'
    BY DEF OriginKept
  <2>1. c.ip = V4(Origin) \/ (c.how = "too_many_hops" /\ at > 0 /\ MaxHops <= 2 * (at - 1))
    BY <1>1, <1>10
  <2>2. MaxHops <= 2 * (at - 1) => 2 * at' > MaxHops + 3
    BY SMTT(60), <1>0, <1>1, PathAssumption
  <2> QED
    BY <1>1, <2>1, <2>2 DEF OriginKept
<1> QED
  BY <1>6, <1>8, <1>9, <1>11, <1>12 DEF PathInv

\* A line of one element adds that to the list.
LEMMA OneAdded ==
  ASSUME NEW S, NEW lines \in Seq(Seq(S)), NEW a \in S
  PROVE  /\ Append(lines, <<a>>) \in Seq(Seq(S))
         /\ FlattenSeq(Append(lines, <<a>>)) = Append(FlattenSeq(lines), a)
<1> DEFINE chain == FlattenSeq(lines)
           one == <<a>>
<1>1. chain \in Seq(S)
  BY FlattenSeqType
<1>2. one \in Seq(S)
  OBVIOUS
<1>3. chain \o one = Append(chain, a)
  <2> HIDE DEF chain
  <2> QED
    BY <1>1
<1>4. FlattenSeq(Append(lines, one)) = chain \o one /\ Append(lines, one) \in Seq(Seq(S))
  <2> HIDE DEF one
  <2> QED
    BY <1>2, FlattenSeqAppend
<1> QED
  BY <1>3, <1>4, Zenon

\* A line of two elements adds both.
LEMMA TwoAdded ==
  ASSUME NEW S, NEW lines \in Seq(Seq(S)), NEW a \in S, NEW b \in S
  PROVE  /\ lines \o << <<a, b>> >> \in Seq(Seq(S))
         /\ FlattenSeq(lines \o << <<a, b>> >>) = Append(Append(FlattenSeq(lines), a), b)
<1> DEFINE chain == FlattenSeq(lines)
           two == <<a, b>>
<1>1. chain \in Seq(S)
  BY FlattenSeqType
<1>2. two \in Seq(S)
  OBVIOUS
<1>3. chain \o two = Append(Append(chain, a), b)
  <2> HIDE DEF chain
  <2> QED
    BY <1>1
<1>4. /\ lines \o <<two>> = Append(lines, two) /\ Append(lines, two) \in Seq(Seq(S))
      /\ FlattenSeq(Append(lines, two)) = chain \o two
  <2> HIDE DEF two
  <2> QED
    BY <1>2, FlattenSeqAppend
<1> QED
  BY <1>3, <1>4, Zenon

\* A proxy of another make, after the first one: the trail goes on.
LEMMA ForeignTrail ==
  ASSUME NEW n \in Nat, NEW chain \in Seq(Elements), NEW p, IsAddress(p), Canonical(p) = V4(Host(n)),
         n > 0 => \E m \in 0 .. Len(chain) : Trail(chain, m, n - 1),
         NEW e, e = Junk \/ e = p
  PROVE  /\ \E m \in 0 .. Len(Append(chain, e)) : Trail(Append(chain, e), m, n)
         /\ n > 0 => \E m \in 0 .. Len(Append(chain, Blank)) : Trail(Append(chain, Blank), m, n - 1)
<1>1. Len(chain) \in 0 .. Len(Append(chain, e)) /\ Len(Append(chain, e)) = Len(chain) + 1
      /\ Len(Append(chain, Blank)) = Len(chain) + 1 /\ Len(chain) \in Nat
  OBVIOUS
<1>2. CASE n = 0
  <2>1. Canonical(p) = V4(Origin)
    BY <1>2 DEF Host
  <2>2. Trail(Append(chain, e), Len(chain), 0)
    BY <2>1, FirstTrail
  <2> QED
    BY <1>1, <1>2, <2>2
<1>3. CASE n > 0
  <2> DEFINE k == n - 1
  <2>1. k \in Nat /\ k + 1 = n
    BY <1>3
  <2>2. PICK m \in 0 .. Len(chain) : Trail(chain, m, k)
    BY <1>3
  <2> HIDE DEF k
  <2>3. Canonical(p) = V4(Host(k + 1))
    BY <2>1
  <2>4. Trail(Append(chain, e), m, k + 1)
    BY <2>1, <2>2, <2>3, AppendTrail
  <2>5. Trail(Append(chain, Blank), m, k)
    BY <2>1, <2>2, BlankTrail
  <2>6. m \in 0 .. Len(Append(chain, e)) /\ m \in 0 .. Len(Append(chain, Blank))
    BY <1>1
  <2> QED
    BY <2>1, <2>4, <2>5, <2>6 DEF k
<1> QED
  BY <1>2, <1>3

\* A proxy of another make that lists its peer keeps the client in its place.
LEMMA ForeignKept ==
  ASSUME NEW n \in 0 .. Len(Path), NEW chain \in Seq(Elements), NEW p, IsAddress(p), Canonical(p) = V4(Host(n)),
         n > 0 => \E m \in Nat : KeptTrail(chain, m, 2 * (n - 1))
  PROVE  /\ \E m \in Nat : KeptTrail(Append(chain, p), m, 2 * n)
         /\ \E m \in Nat : KeptTrail(Append(Append(chain, Blank), p), m, 2 * n)
<1> DEFINE wide == Append(chain, Blank)
<1>0. n \in Nat /\ Len(chain) \in Nat /\ Len(Append(chain, p)) \in Nat
  BY PathAssumption
<1>1. wide \in Seq(Elements) /\ Len(wide) \in Nat
  BY DEF Elements
<1>2. CASE n = 0
  <2>1. Canonical(p) = V4(Origin)
    BY <1>2 DEF Host
  <2>2. KeptTrail(Append(chain, p), Len(chain), 0)
    BY <2>1, FirstKept
  <2> HIDE DEF wide
  <2>3. KeptTrail(Append(wide, p), Len(wide), 0)
    BY <1>1, <2>1, FirstKept
  <2>4. 2 * n = 0
    BY <1>2
  <2> QED
    BY <1>0, <1>1, <2>2, <2>3, <2>4 DEF wide
<1>3. CASE n > 0
  <2> DEFINE most == 2 * (n - 1)
  <2>1. most \in Nat /\ most + 1 \in Nat /\ (most + 1) + 1 = 2 * n /\ most + 1 <= 2 * n /\ 2 * n \in Nat
    BY <1>0, <1>3
  <2>2. PICK m \in Nat : KeptTrail(chain, m, most)
    BY <1>3
  <2>3. n \in 1 .. Len(Path)
    BY <1>3
  <2>4. Canonical(p) \in TrustedNets(Trusted)
    BY <2>3, TrustFacts
  <2> HIDE DEF most
  <2>5. KeptTrail(Append(chain, p), m, most + 1)
    BY <2>1, <2>2, <2>4, AppendKept
  <2>6. KeptTrail(Append(chain, p), m, 2 * n)
    BY <1>0, <2>1, <2>5, KeptMore
  <2>7. KeptTrail(wide, m, most + 1)
    BY <2>1, <2>2, AppendKept
  <2> HIDE DEF wide
  <2> DEFINE next == most + 1
  <2> HIDE DEF next
  <2>8. KeptTrail(Append(wide, p), m, next + 1)
    BY <1>1, <2>1, <2>4, <2>7, AppendKept DEF next
  <2>9. KeptTrail(Append(wide, p), m, 2 * n)
    BY <2>1, <2>8 DEF next
  <2> QED
    BY <2>6, <2>9 DEF wide
<1> QED
  BY <1>0, <1>2, <1>3

\* A proxy of another make.
LEMMA ForeignPassInv ==
  ASSUME PathInv, NEW element \in {peer, Blank, Junk}, ForeignPass(element)
  PROVE  PathInv'
<1> DEFINE lines == headers["x-forwarded-for"]
           chain == FlattenSeq(lines)
<1>0. /\ at \in 0 .. Len(Path) /\ at \in Nat /\ at + 1 \in 0 .. Len(Path) /\ (at + 1) - 1 = at /\ at + 1 > 0
      /\ headers = [x \in Names |-> headers[x]] /\ "x-forwarded-for" \in Names /\ "x-real-ip" \in Names
  BY PathAssumption DEF PathInv, PathType, ForeignPass, Names
<1>1. /\ at' = at + 1 /\ client'.ip = NoAddress
      /\ last'.forward = "append" /\ last'.header = "none"
      /\ peer' = V4(Path[at + 1])
  BY DEF ForeignPass, Resolution
<1>2. /\ headers' = [x \in Names |-> headers'[x]]
      /\ headers'["x-forwarded-for"] = IF element = Blank THEN lines \o << <<Blank, peer>> >>
                                       ELSE Append(lines, <<element>>)
      /\ headers'["x-real-ip"] = <<>>
  BY <1>0 DEF ForeignPass
<1>3. honest' = (honest /\ last.forward # "preserve")
  BY DEF ForeignPass
<1>4. kept' => kept /\ element # Junk /\ (at = 0 \/ last.forward = "append")
  BY DEF ForeignPass
<1>5. kept' => honest'
  BY <1>3, <1>4 DEF PathInv, PathType
<1>6. PathType'
  BY <1>0, <1>1, <1>2, <1>5 DEF PathType
<1>7. Rewritten' /\ OriginKept'
  BY <1>1 DEF Rewritten, OriginKept
<1>8. ASSUME honest'
      PROVE  /\ Genuine'
             /\ kept' => \E m \in Nat : KeptTrail(Chain', m, 2 * at)
  <2>1. Arriving(peer, headers, at)
    BY <1>3, <1>8, ArrivingNext
  <2>2. /\ peer \in {V4(Host(at)), Mapped(Host(at))} /\ lines \in Seq(Seq(Elements))
        /\ at > 0 => \E m \in 0 .. Len(chain) : Trail(chain, m, at - 1)
    BY <2>1 DEF Arriving
  <2>3. IsAddress(peer) /\ Canonical(peer) = V4(Host(at)) /\ peer # Blank
    BY <2>2, AddressFacts
  <2>4. peer \in Elements /\ Blank \in Elements /\ Junk \in Elements
    BY <1>0, <2>2, RouteElements
  <2>5. chain \in Seq(Elements) /\ Append(chain, Blank) \in Seq(Elements)
    BY <2>2, <2>4, FlattenSeqType
  <2>6. kept' /\ at > 0 => \E m \in Nat : KeptTrail(chain, m, 2 * (at - 1))
    BY <1>4 DEF PathInv, OriginListed, Listing, Chain
  <2>7. /\ headers'["x-forwarded-for"] \in Seq(Seq(Elements))
        /\ element = Blank => Chain' = Append(Append(chain, Blank), peer)
        /\ element # Blank => Chain' = Append(chain, element)
    <3>0. Chain' = FlattenSeq(headers'["x-forwarded-for"])
      BY DEF Chain
    <3>1. CASE element = Blank
      <4>1. headers'["x-forwarded-for"] = lines \o << <<Blank, peer>> >>
        BY <1>2, <3>1
      <4> HIDE DEF lines
      <4>2. /\ lines \o << <<Blank, peer>> >> \in Seq(Seq(Elements))
            /\ FlattenSeq(lines \o << <<Blank, peer>> >>) = Append(Append(FlattenSeq(lines), Blank), peer)
        BY <2>2, <2>4, TwoAdded
      <4> QED
        BY <3>0, <3>1, <4>1, <4>2, Zenon
    <3>2. CASE element # Blank
      <4>1. headers'["x-forwarded-for"] = Append(lines, <<element>>) /\ element \in Elements
        BY <1>2, <2>4, <3>2
      <4> HIDE DEF lines
      <4>2. /\ Append(lines, <<element>>) \in Seq(Seq(Elements))
            /\ FlattenSeq(Append(lines, <<element>>)) = Append(FlattenSeq(lines), element)
        BY <2>2, <4>1, OneAdded, Zenon
      <4> QED
        BY <3>0, <3>2, <4>1, <4>2, Zenon
    <3> QED
      BY <3>1, <3>2
  <2> HIDE DEF lines, chain
  <2>8. \E m \in 0 .. Len(Chain') : Trail(Chain', m, at)
    <3>1. CASE element = Blank
      <4> DEFINE wide == Append(chain, Blank)
      <4>1. at > 0 => \E m \in 0 .. Len(wide) : Trail(wide, m, at - 1)
        BY <1>0, <2>2, <2>3, <2>5, ForeignTrail
      <4>2. wide \in Seq(Elements) /\ Chain' = Append(wide, peer)
        BY <2>5, <2>7, <3>1
      <4> HIDE DEF wide
      <4> QED
        BY <1>0, <2>3, <4>1, <4>2, ForeignTrail
    <3>2. CASE element # Blank
      BY <1>0, <2>2, <2>3, <2>5, <2>7, <3>2, ForeignTrail
    <3> QED
      BY <3>1, <3>2
  <2>9. Genuine'
    <3>1. peer' \in {V4(Host(at')), Mapped(Host(at'))}
      BY <1>0, <1>1 DEF Host
    <3>2. Reported(headers'["x-real-ip"], at)
      BY <1>2 DEF Reported
    <3> QED
      BY <1>0, <1>1, <2>7, <2>8, <3>1, <3>2 DEF Genuine
  <2>10. kept' => \E m \in Nat : KeptTrail(Chain', m, 2 * at)
    <3> SUFFICES ASSUME kept' PROVE \E m \in Nat : KeptTrail(Chain', m, 2 * at)
      OBVIOUS
    <3>1. element = Blank \/ (element = peer /\ element # Blank)
      BY <1>4, <2>3
    <3>2. /\ \E m \in Nat : KeptTrail(Append(chain, peer), m, 2 * at)
          /\ \E m \in Nat : KeptTrail(Append(Append(chain, Blank), peer), m, 2 * at)
      BY <1>0, <2>3, <2>5, <2>6, ForeignKept
    <3> QED
      BY <2>7, <3>1, <3>2
  <2> QED
    BY <2>9, <2>10
<1>9. Genuine'
  BY <1>8 DEF Genuine
<1>10. OriginListed'
  BY <1>0, <1>1, <1>5, <1>8 DEF OriginListed
<1> QED
  BY <1>6, <1>7, <1>9, <1>10 DEF PathInv

\* Every step keeps the invariant.
LEMMA PathNextInv == PathInv /\ [PathNext]_pathVars => PathInv'
<1> SUFFICES ASSUME PathInv, [PathNext]_pathVars PROVE PathInv'
  OBVIOUS
<1>1. ASSUME NEW conf \in Config, ProxyPass(conf) PROVE PathInv'
  BY <1>1, ProxyPassInv
<1>2. ASSUME NEW element \in {peer, Blank, Junk}, ForeignPass(element) PROVE PathInv'
  BY <1>2, ForeignPassInv
<1>3. CASE UNCHANGED pathVars
  BY <1>3 DEF pathVars, PathInv, PathType, Genuine, Rewritten, OriginListed, OriginKept, Chain, Listing
<1> QED
  BY <1>1, <1>2, <1>3, PoliciesAssumption DEF PathNext

\* The route as a list.
LEMMA RouteListed ==
  ASSUME NEW n \in Nat, n > 0, n <= Len(Path)
  PROVE  LET route == <<V4(Origin)>> \o [i \in 1 .. (n - 1) |-> V4(Path[i])]
         IN /\ Route(n - 1) \subseteq ToSet(route)
            /\ \A a, b : Before(a, b, n - 1) => \E k, l \in DOMAIN route : k < l /\ a = route[k] /\ b = route[l]
<1> DEFINE tail == [i \in 1 .. (n - 1) |-> V4(Path[i])]
           S == {V4(h) : h \in Hosts}
           route == <<V4(Origin)>> \o tail
<1>1. n - 1 \in Nat /\ \A i \in 1 .. (n - 1) : i \in 1 .. Len(Path) /\ V4(Path[i]) = V4(Host(i))
  BY PathAssumption DEF Host
<1>2. V4(Origin) \in S /\ \A i \in 1 .. (n - 1) : V4(Path[i]) \in S
  <2>1. Origin \in Hosts /\ \A i \in 1 .. Len(Path) : Path[i] \in Hosts
    BY PathAssumption DEF Hosts, Host
  <2> QED
    BY <1>1, <2>1
<1> HIDE DEF S
<1>3. tail \in Seq(S) /\ Len(tail) = n - 1
  BY <1>1, <1>2
<1>4. \A i \in 1 .. (n - 1) : tail[i] = V4(Host(i))
  BY <1>1
<1> HIDE DEF tail
<1>5. DOMAIN route = 1 .. n /\ route[1] = V4(Origin) /\ \A i \in 1 .. (n - 1) : route[i + 1] = tail[i]
  BY <1>1, <1>2, <1>3
<1>6. \A k \in 0 .. n - 1 : k + 1 \in DOMAIN route /\ route[k + 1] = V4(Host(k))
  <2> SUFFICES ASSUME NEW k \in 0 .. n - 1 PROVE k + 1 \in DOMAIN route /\ route[k + 1] = V4(Host(k))
    OBVIOUS
  <2>1. k = 0 \/ k \in 1 .. (n - 1)
    OBVIOUS
  <2> HIDE DEF route
  <2> QED
    BY <1>4, <1>5, <2>1 DEF Host
<1> HIDE DEF route
<1>7. Route(n - 1) \subseteq ToSet(route)
  BY <1>6 DEF Route, ToSet
<1>8. ASSUME NEW a, NEW b, Before(a, b, n - 1)
      PROVE  \E k, l \in DOMAIN route : k < l /\ a = route[k] /\ b = route[l]
  <2>1. PICK k \in 0 .. n - 1, l \in 0 .. n - 1 : k < l /\ a = V4(Host(k)) /\ b = V4(Host(l))
    BY <1>8 DEF Before
  <2>2. k + 1 < l + 1
    BY <2>1
  <2> QED
    BY <1>6, <2>1, <2>2
<1>9. /\ Route(n - 1) \subseteq ToSet(route)
      /\ \A a, b : Before(a, b, n - 1) => \E k, l \in DOMAIN route : k < l /\ a = route[k] /\ b = route[l]
  BY <1>7, <1>8
<1> QED
  BY <1>9 DEF route, tail

\* The invariant says what the client cannot do.
LEMMA PathNeverForged ==
  ASSUME PathInv
  PROVE  NeverForged
<1> SUFFICES ASSUME at > 0, honest PROVE NeverForged
  BY DEF NeverForged
<1> DEFINE route == <<V4(Origin)>> \o [i \in 1 .. (at - 1) |-> V4(Path[i])]
<1>1. at \in Nat /\ at <= Len(Path)
  BY PathAssumption DEF PathInv, PathType
<1>2. /\ Route(at - 1) \subseteq ToSet(route)
      /\ \A a, b : Before(a, b, at - 1) => \E k, l \in DOMAIN route : k < l /\ a = route[k] /\ b = route[l]
  BY <1>1, RouteListed
<1> HIDE DEF route
<1>3. client.ip \in {NoAddress} \cup ToSet(route)
  BY <1>2 DEF PathInv, Genuine
<1>4. ASSUME last.forward \in {"verified", "resolved"}
      PROVE  /\ Chain = <<>> <=> client.ip = NoAddress
             /\ Chain # <<>> => Chain[1] = client.ip
             /\ \A i \in DOMAIN Chain : Chain[i] \in ToSet(route)
             /\ \A i, j \in DOMAIN Chain : i < j =>
                  \E k, l \in DOMAIN route : k < l /\ Chain[i] = route[k] /\ Chain[j] = route[l]
  <2>1. /\ Listed(Chain, at - 1) /\ (Chain = <<>> <=> client.ip = NoAddress)
        /\ Chain # <<>> => Chain[1] = client.ip
    BY <1>4 DEF PathInv, Rewritten
  <2>2. Chain \in Seq(Route(at - 1)) /\ DOMAIN Chain = 1 .. Len(Chain)
    BY <2>1 DEF Listed
  <2>3. \A i, j \in DOMAIN Chain : i < j => Before(Chain[i], Chain[j], at - 1)
    BY <2>1, <2>2 DEF Listed
  <2>4. \A i \in DOMAIN Chain : Chain[i] \in Route(at - 1)
    BY <2>2
  <2> QED
    BY <1>2, <2>1, <2>3, <2>4
<1> QED
  BY <1>3, <1>4 DEF NeverForged, Chain, route

\* Resolver::walk behind any number of proxies, each appending to the list or
\* writing whom it resolved, finds the true client, whatever the client wrote and
\* for every MAX_HOPS; only a list longer than that is refused.
THEOREM OriginIsKept == PathSpec => []OriginKept
<1>1. PathInit => PathInv
  BY PathInitInv
<1>2. PathInv /\ [PathNext]_pathVars => PathInv'
  BY PathNextInv
<1>3. PathInv => OriginKept
  BY DEF PathInv
<1> QED
  BY <1>1, <1>2, <1>3, PTL DEF PathSpec

\* Whatever Resolver::resolve reads and however the proxies before rewrote the
\* headers, an address that resolves is the client's or a passed proxy's, and a
\* rewritten list (Resolver::apply) names the route in its order.
THEOREM ClientNeverForged == PathSpec => []NeverForged
<1>1. PathInit => PathInv
  BY PathInitInv
<1>2. PathInv /\ [PathNext]_pathVars => PathInv'
  BY PathNextInv
<1>3. PathInv => NeverForged
  BY PathNeverForged
<1> QED
  BY <1>1, <1>2, <1>3, PTL DEF PathSpec

-----------------------------------------------------------------------------
\* The guards.

\* Where a request goes once the gate, or a guard behind it, has let it through.
Later(guard) ==
  CASE guard = "gate" -> {"auth", "post", "authz", "decider", "inside"}
    [] guard = "auth" -> {"post", "authz", "decider", "inside"}
    [] guard = "post" -> {"authz", "decider", "inside"}
    [] guard = "authz" -> {"decider", "inside"}
    [] OTHER -> {"inside"}
Admitted == {"pre"} \cup Later("gate")
Vetting == {"auth", "authz", "decider"}
HeaderNames == {"address", "claim", "extra"}
Sources == {"client", "proxy", "jwt", "check", "decider"}
Buckets == Phases \X {"client", "user", "invalid", "unknown"}
Rate == [by : Phases \cup {"none"}, remaining : Nat, reset : Nat]
Speaker ==
  {"none", "require_client", "maintenance", "concurrency", "pre", "auth", "post", "authz", "decider",
   "inside"}
Answer ==
  [by : Speaker, status : Nat, code : GrpcCode \cup {"none"}, rate : Rate, retry : Nat,
   cors : {"none", "*", "origin"}, form : {"own", "status"}]

GuardType ==
  /\ cfg \in Configs /\ slots \in Nat /\ holding \in SUBSET Request
  /\ budget \in [Buckets -> Nat]
  /\ stage \in [Request -> {"idle", "preflight", "gate", "body"} \cup Admitted]
  /\ call \in [Request -> KindType]
  /\ reports \in [Request -> [Phases -> Rate]] /\ charged \in [Request -> [Phases -> Nat]]
  /\ passed \in [Request -> SUBSET Vetting] /\ carried \in [Request -> [HeaderNames -> SUBSET Sources]]
  /\ answer \in [Request -> Answer]

\* No bucket holds more than its limit: the wait a report names is never negative.
BudgetsWithin == \A b \in Buckets : budget[b] <= Limit[b[1]]

\* A permit is with a request that has passed the gate, and a request the limit
\* covers has one until it is answered.
PermitSound(r) ==
  /\ r \in holding => stage[r] \notin {"idle", "preflight", "gate"}
  /\ Working(r) /\ Applies("concurrency", call[r]) => r \in holding

\* What the gate let in is what it had to let in.
GateSound(r) ==
  stage[r] \in Admitted =>
    /\ Applies("require_client", call[r]) => call[r].client = "client"
    /\ Applies("maintenance", call[r]) => call[r].exempt

\* A request is only ever at a guard that covers it.
StageSound(r) == stage[r] \in Admitted \ {"inside"} => Applies(stage[r], call[r])

\* A guard the request is past was not skipped.
NoneSkipped(r) ==
  /\ \A guard \in Vetting : stage[r] \in Later(guard) /\ Applies(guard, call[r]) => guard \in passed[r]
  /\ stage[r] \in Later("post") /\ Applies("post", call[r]) => charged[r]["post"] = 1
  /\ stage[r] \in Later("gate") /\ Applies("pre", call[r]) => charged[r]["pre"] = 1

\* A guard has passed only what it covers, and what has come by it.
PassedSound(r) ==
  \A guard \in passed[r] :
    /\ stage[r] \in Later(guard) \cup {"body"} /\ Applies(guard, call[r])
    /\ guard = "auth" => AuthDecision(call[r]) = "allow"

\* Those whose refusals spend nothing of the phase's budget.
Sparing(phase) ==
  {"require_client", "maintenance", "concurrency", "pre"}
    \cup IF phase = "pre" THEN {} ELSE {"auth", "post"}

\* A phase has charged only what has come by it, and that once.
ChargesSound(r) ==
  \A phase \in Phases : charged[r][phase] # 0 =>
    /\ charged[r][phase] = 1
    /\ stage[r] \in Later(IF phase = "pre" THEN "gate" ELSE phase) \cup {"body"}
    /\ stage[r] = "body" => By(r) \notin Sparing(phase)

\* Whose words the headers are, at every stage.
HeadersSound(r) ==
  /\ carried[r]["address"] \subseteq {"proxy"}
  /\ "auth" \in passed[r] => "client" \notin carried[r]["claim"]
  /\ \A name \in HeaderNames : "decider" \in carried[r][name] =>
       "decider" \in passed[r] /\ carried[r][name] = {"decider"}

\* One budget is at least as tight as another.
Tighter(rate, other) ==
  other # NoRate =>
    /\ rate # NoRate
    /\ \/ rate.remaining < other.remaining
       \/ rate.remaining = other.remaining /\ rate.reset >= other.reset

\* TightestReported and RefusedInGrpc, of one request.
LimitsSound(r) ==
  Answered(r) =>
    /\ \A phase \in Phases : Tighter(answer[r].rate, reports[r][phase])
    /\ answer[r].retry # 0 /\ answer[r].rate.by # By(r) /\ answer[r].rate # NoRate =>
         answer[r].retry >= answer[r].rate.reset
StatusSound(r) ==
  Answered(r) =>
    /\ Class(call[r]) = "grpc" /\ Guarded("grpc") => answer[r].code # "none"
    /\ Class(call[r]) = "grpc" /\ By(r) # "inside" => answer[r].code # "ok"
    /\ answer[r].code = "ok" /\ Class(call[r]) = "grpc" => answer[r].form = "own"
    /\ call[r].speaks = "web" /\ cfg.webCors /\ cfg.cors = "any" => answer[r].cors = "*"
    /\ call[r].speaks = "web" /\ cfg.webCors /\ call[r].origin = "listed" => answer[r].cors # "none"

RequestSound(r) ==
  /\ PermitSound(r) /\ GateSound(r) /\ StageSound(r) /\ NoneSkipped(r) /\ PassedSound(r)
  /\ ChargesSound(r) /\ HeadersSound(r) /\ LimitsSound(r) /\ StatusSound(r)

\* Every permit is free or with one request.
PermitsAccounted == slots + Cardinality(holding) = MaxInFlight

GuardInv == GuardType /\ BudgetsWithin /\ PermitsAccounted /\ \A r \in Request : RequestSound(r)
-----------------------------------------------------------------------------
\* Facts about the operators.

\* The guards never change while requests are in progress.
LEMMA Frame ==
  ASSUME cfg' = cfg
  PROVE  /\ \A guard, kind : Applies(guard, kind)' <=> Applies(guard, kind)
         /\ \A kind : AuthDecision(kind)' = AuthDecision(kind)
         /\ \A traffic : Guarded(traffic)' <=> Guarded(traffic)
<1>1. \A guard, kind : Applies(guard, kind)' <=> Applies(guard, kind)
  BY DEF Applies, Covers
<1>2. \A kind : AuthDecision(kind)' = AuthDecision(kind)
  BY DEF AuthDecision
<1>3. \A traffic : Guarded(traffic)' <=> Guarded(traffic)
  BY DEF Guarded, Covers
<1> QED BY <1>1, <1>2, <1>3

\* After goes on to the next guard that covers the request, and skips none.
LEMMA AfterNext ==
  ASSUME NEW guard \in {"gate", "auth", "post", "authz", "decider"}, NEW kind
  PROVE  /\ After(guard, kind) \in Later(guard)
         /\ After(guard, kind) # "inside" => Applies(After(guard, kind), kind)
         /\ \A other \in Later(guard) \ {"inside"} :
              Applies(other, kind) => After(guard, kind) \notin Later(other)
<1> DEFINE here == Position(guard)
           left == {i \in DOMAIN Inner : i > here /\ Applies(Inner[i], kind)}
           next == CHOOSE i \in left : \A j \in left : i <= j
<1>1. DOMAIN Inner = 1 .. 4 /\ Inner[1] = "auth" /\ Inner[2] = "post" /\ Inner[3] = "authz"
      /\ Inner[4] = "decider"
  BY DEF Inner
<1>2. /\ guard = "gate" => here = 0
      /\ guard = "auth" => here = 1
      /\ guard = "post" => here = 2
      /\ guard = "authz" => here = 3
      /\ guard = "decider" => here = 4
  <2>1. guard # "gate" => here \in DOMAIN Inner /\ Inner[here] = guard
    BY <1>1 DEF Position
  <2> QED BY <1>1, <2>1 DEF Position
<1>3. left \in SUBSET (1 .. 4)
  BY <1>1
<1>4. left # {} => next \in left /\ \A j \in left : next <= j
  <2> SUFFICES ASSUME left # {} PROVE \E i \in left : \A j \in left : i <= j
    OBVIOUS
  <2> HIDE DEF left
  <2>1. \A i \in left : i \in {1, 2, 3, 4}
    BY <1>3
  <2>2. CASE 1 \in left BY <2>1, <2>2
  <2>3. CASE 1 \notin left /\ 2 \in left BY <2>1, <2>3
  <2>4. CASE 1 \notin left /\ 2 \notin left /\ 3 \in left BY <2>1, <2>4
  <2>5. CASE left = {4} BY <2>5
  <2> QED BY <2>1, <2>2, <2>3, <2>4, <2>5
<1>5. After(guard, kind) = IF left = {} THEN "inside" ELSE Inner[next]
  BY DEF After
<1>6. CASE left = {}
  <2>1. \A i \in 1 .. 4 : i > here => ~Applies(Inner[i], kind)
    BY <1>1, <1>6
  <2>2. /\ ~(1 > here) \/ ~Applies("auth", kind)
        /\ ~(2 > here) \/ ~Applies("post", kind)
        /\ ~(3 > here) \/ ~Applies("authz", kind)
        /\ ~(4 > here) \/ ~Applies("decider", kind)
    BY <1>1, <2>1
  <2> HIDE DEF here
  <2> QED BY <1>2, <1>5, <1>6, <2>2 DEF Later
<1>7. CASE left # {}
  <2>1. next \in 1 .. 4 /\ next > here /\ Applies(Inner[next], kind)
    BY <1>1, <1>4, <1>7
  <2>2. \A j \in 1 .. 4 : j > here /\ j < next => ~Applies(Inner[j], kind)
    <3> SUFFICES ASSUME NEW j \in 1 .. 4, j > here, j < next, Applies(Inner[j], kind) PROVE FALSE
      OBVIOUS
    <3>1. j \in left BY <1>1
    <3>2. next <= j BY <1>4, <1>7, <3>1
    <3> HIDE DEF next, left
    <3> QED BY <3>2, <2>1
  <2>3. After(guard, kind) = Inner[next]
    BY <1>5, <1>7
  <2> HIDE DEF next, here, left
  <2>4. /\ 1 > here /\ 1 < next => ~Applies("auth", kind)
        /\ 2 > here /\ 2 < next => ~Applies("post", kind)
        /\ 3 > here /\ 3 < next => ~Applies("authz", kind)
    BY <1>1, <2>2
  <2>5. next = 1 \/ next = 2 \/ next = 3 \/ next = 4
    BY <2>1
  <2> QED BY <1>1, <1>2, <2>1, <2>3, <2>4, <2>5 DEF Later
<1> QED BY <1>6, <1>7

\* HTTP never stands for a gRPC success, nor for no status.
LEMMA HttpNeverOk ==
  ASSUME NEW status
  PROVE  HttpToGrpc(status) \in
           {"invalid_argument", "unauthenticated", "permission_denied", "not_found", "aborted",
            "resource_exhausted", "cancelled", "unimplemented", "unavailable", "deadline_exceeded",
            "internal", "unknown"}
<1>1. CASE status \in {400, 401, 403, 404, 409, 429}
  BY <1>1 DEF HttpToGrpc
<1>2. CASE status \in {499, 501, 503, 504}
  BY <1>2 DEF HttpToGrpc
<1>3. CASE status \in (500 .. 599) \ {501, 503, 504}
  BY <1>3 DEF HttpToGrpc
<1>4. CASE status \notin {400, 401, 403, 404, 409, 429, 499, 501, 503, 504} \cup (500 .. 599)
  BY <1>4 DEF HttpToGrpc
<1> QED BY <1>1, <1>2, <1>3, <1>4

\* Tighter is an order.
LEMMA TighterStill ==
  ASSUME NEW a \in Rate, NEW b \in Rate, NEW c \in Rate, Tighter(a, b), Tighter(b, c)
  PROVE  Tighter(a, c)
BY DEF Tighter, Rate

\* Past a limiter a response shows the tighter of its budget and the limiter's,
\* and if that is the limiter's, no wait that is shorter.
LEMMA PastTightens ==
  ASSUME NEW limits \in [rate : Rate, retry : Nat], NEW report \in Rate
  PROVE  /\ Past(limits, report) \in [rate : Rate, retry : Nat]
         /\ Tighter(Past(limits, report).rate, limits.rate)
         /\ Tighter(Past(limits, report).rate, report)
         /\ \/ Past(limits, report) = limits
            \/ Past(limits, report).retry = 0
            \/ Past(limits, report).retry >= Past(limits, report).rate.reset
<1> DEFINE anew == [rate |-> report, retry |-> Widened(limits.retry, report.reset)]
           stays == /\ limits.rate # NoRate
                    /\ \/ limits.rate.remaining < report.remaining
                       \/ limits.rate.remaining = report.remaining /\ limits.rate.reset >= report.reset
<1>1. /\ limits.rate \in Rate /\ limits.retry \in Nat
      /\ limits.rate.remaining \in Nat /\ limits.rate.reset \in Nat
      /\ report.remaining \in Nat /\ report.reset \in Nat
  BY DEF Rate
<1>2. Tighter(report, report) /\ Tighter(limits.rate, limits.rate)
  BY <1>1 DEF Tighter
<1>3. CASE report = NoRate
  <2>1. Past(limits, report) = limits
    BY <1>3 DEF Past
  <2> QED BY <1>1, <1>2, <1>3, <2>1 DEF Tighter
<1>4. CASE report # NoRate /\ stays
  <2>1. Past(limits, report) = limits
    BY <1>4 DEF Past, Tighten
  <2>2. Tighter(limits.rate, report)
    BY <1>1, <1>4 DEF Tighter
  <2> QED BY <1>2, <2>1, <2>2
<1>5. CASE report # NoRate /\ ~stays
  <2>1. Past(limits, report) = anew
    BY <1>5 DEF Past, Tighten
  <2>2. Widened(limits.retry, report.reset) \in Nat
    BY <1>1 DEF Widened
  <2>3. anew \in [rate : Rate, retry : Nat] /\ anew.rate = report
        /\ anew.retry = Widened(limits.retry, report.reset)
    BY <2>2
  <2>4. anew.retry = 0 \/ anew.retry >= report.reset
    BY <1>1, <2>3 DEF Widened
  <2>5. Tighter(report, limits.rate)
    BY <1>1, <1>5 DEF Tighter
  <2> QED BY <1>2, <2>1, <2>3, <2>4, <2>5
<1> QED BY <1>3, <1>4, <1>5

\* A response on its way out: its budget is the one of who gave it, if any, and
\* only what is behind the guards says OK.
Fair(response) ==
  /\ response \in [by : Speaker, status : Nat, code : GrpcCode \cup {"none"}, rate : Rate, retry : Nat]
  /\ response.rate = NoRate \/ response.rate.by = response.by
  /\ response.by # "inside" => response.code # "ok"

\* A browser the policy admits is granted its origin.
LEMMA GrantedReadable ==
  ASSUME cfg \in Configs, NEW kind \in KindType
  PROVE  /\ Granted(kind) \in {"none", "*", "origin"}
         /\ kind.speaks = "web" /\ cfg.webCors /\ cfg.cors = "any" => Granted(kind) = "*"
         /\ kind.speaks = "web" /\ cfg.webCors /\ kind.origin = "listed" => Granted(kind) # "none"
<1> DEFINE applied == \/ kind.speaks \in {"http", "preflight"} /\ kind.route # "fallback"
                      \/ kind.speaks \in {"web", "web_preflight"} /\ cfg.webCors
<1>1. cfg.cors \in {"any", "listed"}
  BY GuardAssumption
<1>2. /\ kind.speaks = "web" /\ cfg.webCors => applied
      /\ Granted(kind) = CASE applied /\ cfg.cors = "any" -> "*"
                           [] applied /\ cfg.cors = "listed" /\ kind.origin = "listed" -> "origin"
                           [] OTHER -> "none"
  BY DEF Granted
<1> HIDE DEF applied
<1>3. CASE applied /\ cfg.cors = "any"
  BY <1>1, <1>2, <1>3
<1>4. CASE applied /\ cfg.cors = "listed" /\ kind.origin = "listed"
  BY <1>1, <1>2, <1>4
<1>5. CASE ~(applied /\ cfg.cors = "any") /\ ~(applied /\ cfg.cors = "listed" /\ kind.origin = "listed")
  BY <1>1, <1>2, <1>5
<1> QED BY <1>3, <1>4, <1>5

\* What Outbound makes of a fair response.
LEMMA OutboundSound ==
  ASSUME GuardType, NEW r \in Request, NEW response, Fair(response),
         NEW out, out = Outbound(r, response)
  PROVE  /\ out \in Answer /\ out.by = response.by
         /\ out.form = "own" <=> ~Converts(call[r], response)
         /\ \A phase \in Phases : Tighter(out.rate, reports[r][phase])
         /\ out.retry # 0 /\ out.rate.by # out.by /\ out.rate # NoRate => out.retry >= out.rate.reset
         /\ Class(call[r]) = "grpc" /\ Guarded("grpc") => out.code # "none"
         /\ Class(call[r]) = "grpc" /\ out.by # "inside" => out.code # "ok"
         /\ out.code = "ok" /\ Class(call[r]) = "grpc" => out.form = "own"
         /\ out.cors = Granted(call[r])
<1> DEFINE first == [rate |-> response.rate, retry |-> response.retry]
           second == Past(first, reports[r]["post"])
           third == Past(second, reports[r]["pre"])
           anew == Converts(call[r], response)
           code == IF anew /\ response.code = "none" THEN HttpToGrpc(response.status) ELSE response.code
<1>1. /\ response.by \in Speaker /\ response.status \in Nat /\ response.code \in GrpcCode \cup {"none"}
      /\ response.rate \in Rate /\ response.retry \in Nat
      /\ response.rate = NoRate \/ response.rate.by = response.by
      /\ response.by # "inside" => response.code # "ok"
  BY DEF Fair
<1>2. call[r] \in KindType /\ reports[r]["post"] \in Rate /\ reports[r]["pre"] \in Rate
  BY DEF GuardType, Phases
<1>3. first \in [rate : Rate, retry : Nat] /\ first.rate = response.rate
  BY <1>1
<1>4. /\ second \in [rate : Rate, retry : Nat]
      /\ Tighter(second.rate, reports[r]["post"])
      /\ second = first \/ second.retry = 0 \/ second.retry >= second.rate.reset
  BY <1>2, <1>3, PastTightens
<1>5. /\ third \in [rate : Rate, retry : Nat]
      /\ Tighter(third.rate, second.rate)
      /\ Tighter(third.rate, reports[r]["pre"])
      /\ third = second \/ third.retry = 0 \/ third.retry >= third.rate.reset
  <2> HIDE DEF second
  <2> QED BY <1>2, <1>4, PastTightens
<1>6. out = [by |-> response.by, status |-> IF anew THEN 200 ELSE response.status, code |-> code,
             rate |-> third.rate, retry |-> third.retry, cors |-> Granted(call[r]),
             form |-> IF anew THEN "status" ELSE "own"]
  BY DEF Outbound
<1>7. code \in GrpcCode \cup {"none"} /\ (anew => code # "none") /\ (response.by # "inside" => code # "ok")
      /\ (code = "ok" => ~anew \/ response.by # "inside") /\ (~anew => code = response.code)
  <2>1. HttpToGrpc(response.status) \in GrpcCode /\ HttpToGrpc(response.status) \notin {"none", "ok"}
    BY HttpNeverOk DEF GrpcCode
  <2> HIDE DEF anew
  <2>2. CASE anew /\ response.code = "none" BY <1>1, <2>1, <2>2
  <2>3. CASE ~(anew /\ response.code = "none")
    <3>1. code = response.code BY <2>3
    <3>2. anew => response.code # "none" BY <2>3
    <3>3. code = "ok" /\ anew => response.by # "inside"
      BY <3>1 DEF Converts, anew
    <3> QED BY <1>1, <3>1, <3>2, <3>3
  <2> QED BY <2>2, <2>3
<1>8. third.rate \in Rate /\ second.rate \in Rate /\ third.retry \in Nat /\ second.retry \in Nat
  <2> HIDE DEF second, third
  <2> QED BY <1>4, <1>5
<1>9. Granted(call[r]) \in {"none", "*", "origin"}
  BY <1>2, GrantedReadable DEF GuardType
<1>10. out \in Answer /\ out.by = response.by /\ out.code = code /\ out.cors = Granted(call[r])
       /\ out.rate = third.rate /\ out.retry = third.retry /\ (out.form = "own" <=> ~anew)
  <2> HIDE DEF third, anew, code
  <2> QED BY <1>1, <1>6, <1>7, <1>8, <1>9 DEF Answer
<1>11. \A phase \in Phases : Tighter(out.rate, reports[r][phase])
  <2> HIDE DEF second, third
  <2>1. Tighter(third.rate, reports[r]["post"])
    BY <1>2, <1>4, <1>5, <1>8, TighterStill
  <2> QED BY <1>5, <1>10, <2>1 DEF Phases
<1>12. out.retry # 0 /\ out.rate.by # out.by /\ out.rate # NoRate => out.retry >= out.rate.reset
  <2> HIDE DEF second, third
  <2>1. third.rate = response.rate \/ third.retry = 0 \/ third.retry >= third.rate.reset
    BY <1>3, <1>4, <1>5
  <2> QED BY <1>1, <1>10, <2>1
<1>13. Class(call[r]) = "grpc" /\ Guarded("grpc") => out.code # "none"
  <2>1. Class(call[r]) = "grpc" /\ Guarded("grpc") => anew \/ response.code # "none"
    BY DEF Converts
  <2> HIDE DEF anew, code
  <2> QED BY <1>7, <1>10, <2>1
<1>14. Class(call[r]) = "grpc" /\ out.by # "inside" => out.code # "ok"
  <2> HIDE DEF code, anew
  <2> QED BY <1>7, <1>10
<1>15. out.code = "ok" /\ Class(call[r]) = "grpc" => out.form = "own"
  <2> HIDE DEF code, anew
  <2> QED BY <1>7, <1>10
<1> QED BY <1>10, <1>11, <1>12, <1>13, <1>14, <1>15

-----------------------------------------------------------------------------
\* What a step does to the requests it is not about, and to the permits.

\* A request none of whose state changes stays sound.
LEMMA OthersSound ==
  ASSUME cfg' = cfg, NEW q, RequestSound(q), stage'[q] = stage[q], call'[q] = call[q],
         q \in holding' <=> q \in holding, reports'[q] = reports[q], charged'[q] = charged[q],
         passed'[q] = passed[q], carried'[q] = carried[q], answer'[q] = answer[q]
  PROVE  RequestSound(q)'
<1>1. PermitSound(q)' BY Frame DEF RequestSound, PermitSound, Working
<1>2. GateSound(q)' BY Frame DEF RequestSound, GateSound
<1>3. StageSound(q)' BY Frame DEF RequestSound, StageSound
<1>4. NoneSkipped(q)' BY Frame DEF RequestSound, NoneSkipped
<1>5. PassedSound(q)' BY Frame DEF RequestSound, PassedSound
<1>6. ChargesSound(q)' BY DEF RequestSound, ChargesSound, By
<1>7. HeadersSound(q)' BY DEF RequestSound, HeadersSound
<1>8. LimitsSound(q)' BY DEF RequestSound, LimitsSound, Answered, By
<1>9. StatusSound(q)' BY Frame DEF RequestSound, StatusSound, Answered, By
<1> QED BY <1>1, <1>2, <1>3, <1>4, <1>5, <1>6, <1>7, <1>8, <1>9 DEF RequestSound

\* There are no more permits out than requests.
LEMMA HoldingFinite ==
  ASSUME GuardType
  PROVE  IsFiniteSet(holding) /\ Cardinality(holding) \in Nat
<1>1. IsFiniteSet(Request) /\ holding \subseteq Request
  BY GuardAssumption DEF GuardType
<1>2. IsFiniteSet(holding)
  BY <1>1, FS_Subset
<1> QED BY <1>2, FS_CardinalityType

\* A permit given back is a permit free.
LEMMA ReleaseKeeps ==
  ASSUME GuardType, PermitsAccounted, NEW r \in Request, Release(r)
  PROVE  /\ slots' \in Nat /\ holding' \in SUBSET Request /\ PermitsAccounted'
         /\ r \notin holding' /\ \A q : q # r => (q \in holding' <=> q \in holding)
<1>1. holding' = holding \ {r} /\ slots' = IF r \in holding THEN slots + 1 ELSE slots
  BY DEF Release
<1>2. IsFiniteSet(holding) /\ Cardinality(holding) \in Nat /\ slots \in Nat /\ MaxInFlight \in Nat
  BY HoldingFinite, GuardAssumption DEF GuardType
<1>3. r \in holding => Cardinality(holding \ {r}) = Cardinality(holding) - 1
  BY <1>2, FS_RemoveElement
<1>4. r \notin holding => holding \ {r} = holding
  OBVIOUS
<1>5. Cardinality(holding') = IF r \in holding THEN Cardinality(holding) - 1 ELSE Cardinality(holding)
  BY <1>1, <1>3, <1>4
<1>6. slots' + Cardinality(holding') = MaxInFlight
  BY <1>1, <1>2, <1>5 DEF PermitsAccounted
<1>7. PermitsAccounted'
  BY <1>6 DEF PermitsAccounted
<1> QED BY <1>1, <1>2, <1>7 DEF GuardType

-----------------------------------------------------------------------------
\* The steps.

\* An answer, whoever gives it: what has to be known of it is that it is fair,
\* that only the service behind the guards speaks as "inside", and that no
\* phase has charged a request that somebody in front of it refuses.
LEMMA RespondSound ==
  ASSUME GuardInv, NEW r \in Request, NEW response, Fair(response),
         Respond(r, response), cfg' = cfg, stage[r] # "idle",
         response.by = "inside" => stage[r] = "inside",
         \A phase \in Phases : charged[r][phase] # 0 => response.by \notin Sparing(phase),
         budget' \in [Buckets -> Nat], BudgetsWithin'
  PROVE  GuardInv'
<1> DEFINE out == Outbound(r, response)
<1>1. GuardType /\ PermitsAccounted /\ \A q \in Request : RequestSound(q)
  BY DEF GuardInv
<1>2. /\ out \in Answer /\ out.by = response.by
      /\ out.form = "own" <=> ~Converts(call[r], response)
      /\ \A phase \in Phases : Tighter(out.rate, reports[r][phase])
      /\ out.retry # 0 /\ out.rate.by # out.by /\ out.rate # NoRate => out.retry >= out.rate.reset
      /\ Class(call[r]) = "grpc" /\ Guarded("grpc") => out.code # "none"
      /\ Class(call[r]) = "grpc" /\ out.by # "inside" => out.code # "ok"
      /\ out.code = "ok" /\ Class(call[r]) = "grpc" => out.form = "own"
      /\ out.cors = Granted(call[r])
  BY <1>1, OutboundSound
<1> HIDE DEF out
<1>3. /\ stage' = [stage EXCEPT ![r] = "body"] /\ answer' = [answer EXCEPT ![r] = out]
      /\ UNCHANGED <<call, reports, charged, passed, carried>>
  BY DEF Respond, out
<1>4. /\ slots' \in Nat /\ holding' \in SUBSET Request /\ PermitsAccounted'
      /\ \A q : q # r => (q \in holding' <=> q \in holding)
      /\ response.by # "pre" /\ ~Converts(call[r], response) => holding' = holding
      /\ r \in holding' => r \in holding
  <2>1. CASE response.by # "pre" /\ ~Converts(call[r], response)
    <3>1. holding' = holding /\ slots' = slots
      BY <2>1 DEF Respond
    <3> QED BY <1>1, <2>1, <3>1 DEF GuardType, PermitsAccounted
  <2>2. CASE ~(response.by # "pre" /\ ~Converts(call[r], response))
    <3>1. Release(r)
      BY <2>2 DEF Respond
    <3> QED BY <1>1, <2>2, <3>1, ReleaseKeeps
  <2> QED BY <2>1, <2>2
<1>5. GuardType'
  BY <1>1, <1>2, <1>3, <1>4 DEF GuardType
<1>6. /\ stage'[r] = "body" /\ answer'[r] = out
      /\ \A q \in Request : q # r => stage'[q] = stage[q] /\ answer'[q] = answer[q]
  BY <1>1, <1>3 DEF GuardType
<1>7. ASSUME NEW q \in Request, q # r PROVE RequestSound(q)'
  BY <1>1, <1>3, <1>4, <1>6, <1>7, OthersSound
<1>8. RequestSound(r)'
  <2>1. PermitSound(r)'
    <3>1. Working(r)' => response.by = "inside" /\ ~Converts(call[r], response)
      BY <1>2, <1>6 DEF Working
    <3>2. stage[r] = "inside" => Working(r)
      BY DEF Working
    <3>3. Applies("concurrency", call[r])' <=> Applies("concurrency", call[r])
      BY <1>3, Frame
    <3> QED BY <1>1, <1>4, <1>6, <3>1, <3>2, <3>3 DEF PermitSound, RequestSound
  <2>2. GateSound(r)' /\ StageSound(r)' /\ NoneSkipped(r)'
    BY <1>6 DEF GateSound, StageSound, NoneSkipped, Admitted, Later, Vetting
  <2>3. PassedSound(r)'
    BY <1>1, <1>3, <1>6, Frame DEF RequestSound, PassedSound
  <2>4. ChargesSound(r)'
    BY <1>1, <1>2, <1>3, <1>6 DEF RequestSound, ChargesSound, By
  <2>5. HeadersSound(r)'
    BY <1>1, <1>3 DEF RequestSound, HeadersSound
  <2>6. LimitsSound(r)'
    BY <1>2, <1>3, <1>6 DEF LimitsSound, By
  <2>7. StatusSound(r)'
    <3>1. call[r] \in KindType /\ cfg \in Configs
      BY <1>1 DEF GuardType
    <3>2. /\ call[r].speaks = "web" /\ cfg.webCors /\ cfg.cors = "any" => out.cors = "*"
          /\ call[r].speaks = "web" /\ cfg.webCors /\ call[r].origin = "listed" => out.cors # "none"
      BY <1>2, <3>1, GrantedReadable
    <3> QED BY <1>2, <1>3, <1>6, <3>2, Frame DEF StatusSound, By
  <2> QED BY <2>1, <2>2, <2>3, <2>4, <2>5, <2>6, <2>7 DEF RequestSound
<1> QED BY <1>4, <1>5, <1>7, <1>8 DEF GuardInv

\* A request that ends, or is dropped, leaves nothing behind.
LEMMA ClearSound ==
  ASSUME GuardInv, NEW r \in Request, Clear(r), UNCHANGED <<cfg, budget>>
  PROVE  GuardInv'
<1>1. GuardType /\ BudgetsWithin /\ PermitsAccounted /\ \A q \in Request : RequestSound(q)
  BY DEF GuardInv
<1>2. /\ stage' = [stage EXCEPT ![r] = "idle"] /\ call' = [call EXCEPT ![r] = NoCall]
      /\ reports' = [reports EXCEPT ![r] = NoReports] /\ charged' = [charged EXCEPT ![r] = NoCharges]
      /\ passed' = [passed EXCEPT ![r] = {}] /\ carried' = [carried EXCEPT ![r] = NoHeaders]
      /\ answer' = [answer EXCEPT ![r] = NoAnswer] /\ Release(r)
  BY DEF Clear
<1>3. /\ slots' \in Nat /\ holding' \in SUBSET Request /\ PermitsAccounted'
      /\ r \notin holding' /\ \A q : q # r => (q \in holding' <=> q \in holding)
  BY <1>1, <1>2, ReleaseKeeps
<1>4. GuardType'
  <2>1. NoCall \in KindType
    BY DEF NoCall, KindType
  <2>2. NoRate \in Rate
    BY DEF NoRate, Rate
  <2>3. NoReports \in [Phases -> Rate] /\ NoCharges \in [Phases -> Nat]
    BY <2>2 DEF NoReports, NoCharges
  <2>4. NoHeaders \in [HeaderNames -> SUBSET Sources]
    BY DEF NoHeaders, HeaderNames
  <2>5. NoAnswer \in Answer
    BY <2>2 DEF NoAnswer, Answer, Speaker
  <2> QED BY <1>1, <1>2, <1>3, <2>1, <2>3, <2>4, <2>5 DEF GuardType
<1>5. BudgetsWithin'
  BY <1>1 DEF BudgetsWithin
<1>6. ASSUME NEW q \in Request, q # r PROVE RequestSound(q)'
  <2>1. /\ stage'[q] = stage[q] /\ call'[q] = call[q] /\ reports'[q] = reports[q]
        /\ charged'[q] = charged[q] /\ passed'[q] = passed[q] /\ carried'[q] = carried[q]
        /\ answer'[q] = answer[q]
    BY <1>1, <1>2, <1>6 DEF GuardType
  <2> QED BY <1>1, <1>3, <1>6, <2>1, OthersSound
<1>7. RequestSound(r)'
  <2>1. /\ stage'[r] = "idle" /\ charged'[r] = NoCharges /\ passed'[r] = {} /\ carried'[r] = NoHeaders
    BY <1>1, <1>2 DEF GuardType
  <2>2. PermitSound(r)' /\ GateSound(r)' /\ StageSound(r)' /\ NoneSkipped(r)'
    BY <1>3, <2>1 DEF PermitSound, Working, GateSound, StageSound, NoneSkipped, Admitted, Later, Vetting
  <2>3. PassedSound(r)' /\ ChargesSound(r)'
    BY <2>1 DEF PassedSound, ChargesSound, NoCharges
  <2>4. HeadersSound(r)'
    BY <2>1 DEF HeadersSound, NoHeaders, HeaderNames
  <2>5. LimitsSound(r)' /\ StatusSound(r)'
    BY <2>1 DEF LimitsSound, StatusSound, Answered
  <2> QED BY <2>2, <2>3, <2>4, <2>5 DEF RequestSound
<1> QED BY <1>3, <1>4, <1>5, <1>6, <1>7 DEF GuardInv

\* A new request brings headers of its own, but no address.
LEMMA ArriveSound ==
  ASSUME GuardInv, NEW r \in Request, NEW kind \in Kinds, Arrive(r, kind)
  PROVE  GuardInv'
<1> DEFINE carry == [address |-> IF kind.client = "client" THEN {"proxy"} ELSE {},
                       claim |-> {"client"}, extra |-> {"client"}]
           start == IF Class(kind) = "none" THEN "preflight" ELSE "gate"
<1>1. GuardType /\ BudgetsWithin /\ PermitsAccounted /\ \A q \in Request : RequestSound(q)
  BY DEF GuardInv
<1>2. /\ stage[r] = "idle" /\ stage' = [stage EXCEPT ![r] = start]
      /\ call' = [call EXCEPT ![r] = kind] /\ carried' = [carried EXCEPT ![r] = carry]
      /\ UNCHANGED <<cfg, slots, budget, holding, reports, charged, passed, answer>>
  BY DEF Arrive
<1>3. start \in {"preflight", "gate"}
  OBVIOUS
<1>4. carry \in [HeaderNames -> SUBSET Sources] /\ carry["address"] \subseteq {"proxy"}
      /\ \A name \in HeaderNames : "decider" \notin carry[name]
  BY DEF HeaderNames, Sources
<1> HIDE DEF carry, start
<1>5. GuardType'
  BY <1>1, <1>2, <1>3, <1>4, GuardAssumption DEF GuardType
<1>6. BudgetsWithin' /\ PermitsAccounted'
  BY <1>1, <1>2 DEF BudgetsWithin, PermitsAccounted
<1>7. ASSUME NEW q \in Request, q # r PROVE RequestSound(q)'
  <2>1. stage'[q] = stage[q] /\ call'[q] = call[q] /\ carried'[q] = carried[q]
    BY <1>1, <1>2, <1>7 DEF GuardType
  <2> QED BY <1>1, <1>2, <2>1, OthersSound
<1>8. RequestSound(r)'
  <2>1. stage'[r] \in {"preflight", "gate"} /\ carried'[r] = carry
    BY <1>1, <1>2, <1>3 DEF GuardType
  <2>2. PermitSound(r)' /\ GateSound(r)' /\ StageSound(r)' /\ NoneSkipped(r)'
    BY <1>1, <1>2, <2>1
       DEF RequestSound, PermitSound, Working, GateSound, StageSound, NoneSkipped, Admitted, Later, Vetting
  <2>3. passed[r] = {} /\ \A phase \in Phases : charged[r][phase] = 0
    BY <1>1, <1>2 DEF RequestSound, PassedSound, ChargesSound, Later
  <2>4. PassedSound(r)' /\ ChargesSound(r)'
    BY <1>2, <2>3 DEF PassedSound, ChargesSound
  <2>5. HeadersSound(r)'
    BY <1>2, <1>4, <2>1, <2>3 DEF HeadersSound
  <2>6. LimitsSound(r)' /\ StatusSound(r)'
    BY <2>1 DEF LimitsSound, StatusSound, Answered
  <2> QED BY <2>2, <2>4, <2>5, <2>6 DEF RequestSound
<1> QED BY <1>5, <1>6, <1>7, <1>8 DEF GuardInv

\* Budgets are replenished up to their limits, and requests see nothing of it.
LEMMA ReplenishSound ==
  ASSUME GuardInv, NEW b \in DOMAIN budget, Replenish(b)
  PROVE  GuardInv'
<1>1. GuardType /\ BudgetsWithin /\ PermitsAccounted /\ \A q \in Request : RequestSound(q)
  BY DEF GuardInv
<1>2. /\ budget[b] < Limit[b[1]] /\ budget' = [budget EXCEPT ![b] = budget[b] + 1]
      /\ UNCHANGED <<cfg, slots, stage, call, holding, reports, charged, passed, carried, answer>>
  BY DEF Replenish, requests
<1>3. b \in Buckets /\ budget[b] \in Nat /\ DOMAIN budget = Buckets
  BY <1>1 DEF GuardType
<1>4. GuardType'
  BY <1>1, <1>2, <1>3 DEF GuardType
<1>5. Limit[b[1]] \in Nat
  BY <1>3, GuardAssumption DEF Buckets
<1>6. BudgetsWithin'
  <2> SUFFICES ASSUME NEW c \in Buckets PROVE budget'[c] <= Limit[c[1]]
    BY DEF BudgetsWithin
  <2>1. CASE c = b BY <1>1, <1>2, <1>3, <1>5, <2>1 DEF GuardType
  <2>2. CASE c # b BY <1>1, <1>2, <1>3, <2>2 DEF GuardType, BudgetsWithin
  <2> QED BY <2>1, <2>2
<1>7. PermitsAccounted'
  BY <1>1, <1>2 DEF PermitsAccounted
<1>8. \A q \in Request : RequestSound(q)'
  BY <1>1, <1>2, OthersSound
<1> QED BY <1>4, <1>6, <1>7, <1>8 DEF GuardInv

\* What a guard says when it refuses is fair.
LEMMA RefusalFair ==
  ASSUME NEW by \in Speaker \ {"inside"}, NEW code \in DOMAIN HttpOf \ {"ok"}, NEW rate \in Rate,
         NEW retry \in Nat, rate = NoRate \/ rate.by = by
  PROVE  Fair(Refusal(by, code, rate, retry)) /\ Refusal(by, code, rate, retry).by = by
<1>1. HttpOf[code] \in Nat /\ code \in GrpcCode
  BY DEF HttpOf, GrpcCode
<1> QED BY <1>1 DEF Fair, Refusal, Response

\* No budget at all is a report too.
LEMMA NoRateIsRate == NoRate \in Rate
BY DEF NoRate, Rate

\* A guard that lets a request through sends it on to the next.
LEMMA PassSound ==
  ASSUME GuardInv, NEW r \in Request, NEW guard \in Vetting, NEW carry,
         stage[r] = guard, Pass(r, guard, carry), UNCHANGED <<cfg, budget>>,
         guard = "auth" => AuthDecision(call[r]) = "allow",
         carry \in [HeaderNames -> SUBSET Sources], carry["address"] \subseteq {"proxy"},
         guard = "auth" \/ "auth" \in passed[r] => "client" \notin carry["claim"],
         \A name \in HeaderNames : "decider" \in carry[name] =>
           (guard = "decider" \/ "decider" \in passed[r]) /\ carry[name] = {"decider"}
  PROVE  GuardInv'
<1> DEFINE next == After(guard, call[r])
<1>1. GuardType /\ BudgetsWithin /\ PermitsAccounted /\ \A q \in Request : RequestSound(q)
  BY DEF GuardInv
<1>2. /\ stage' = [stage EXCEPT ![r] = next] /\ carried' = [carried EXCEPT ![r] = carry]
      /\ passed' = [passed EXCEPT ![r] = passed[r] \cup {guard}]
      /\ UNCHANGED <<slots, call, holding, reports, charged, answer>>
  BY DEF Pass
<1>3. /\ next \in Later(guard) /\ (next # "inside" => Applies(next, call[r]))
      /\ \A other \in Later(guard) \ {"inside"} : Applies(other, call[r]) => next \notin Later(other)
  BY AfterNext DEF Vetting
<1> HIDE DEF next
<1>4. guard \in {"auth", "authz", "decider"}
  BY DEF Vetting
<1>5. GuardType'
  <2>1. next \in Admitted
    BY <1>3, <1>4 DEF Later, Admitted
  <2> QED BY <1>1, <1>2, <2>1 DEF GuardType
<1>6. BudgetsWithin' /\ PermitsAccounted'
  BY <1>1, <1>2 DEF BudgetsWithin, PermitsAccounted
<1>7. ASSUME NEW q \in Request, q # r PROVE RequestSound(q)'
  <2>1. stage'[q] = stage[q] /\ passed'[q] = passed[q] /\ carried'[q] = carried[q]
    BY <1>1, <1>2, <1>7 DEF GuardType
  <2> QED BY <1>1, <1>2, <2>1, OthersSound
<1>8. RequestSound(r)'
  <2>1. stage'[r] = next /\ passed'[r] = passed[r] \cup {guard} /\ carried'[r] = carry
    BY <1>1, <1>2 DEF GuardType
  <2>2. /\ PermitSound(r) /\ GateSound(r) /\ StageSound(r) /\ NoneSkipped(r) /\ PassedSound(r)
        /\ ChargesSound(r) /\ HeadersSound(r)
    BY <1>1 DEF RequestSound
  <2>3. stage[r] \in Admitted /\ next \in Admitted /\ next # "body" /\ Working(r)
    BY <1>3, <1>4 DEF Later, Admitted, Working
  <2>4. PermitSound(r)'
    BY <1>2, <1>3, <1>4, <2>1, <2>2, <2>3, Frame DEF PermitSound, Later
  <2>5. GateSound(r)'
    BY <1>2, <2>1, <2>2, <2>3, Frame DEF GateSound
  <2>6. StageSound(r)'
    BY <1>2, <1>3, <2>1, Frame DEF StageSound
  <2>7. NoneSkipped(r)'
    <3>1. ASSUME NEW other \in Vetting, next \in Later(other), Applies(other, call[r])
          PROVE  other \in passed[r] \cup {guard}
      BY <1>3, <1>4, <2>2, <3>1 DEF NoneSkipped, Vetting, Later
    <3>2. next \in Later("post") /\ Applies("post", call[r]) => charged[r]["post"] = 1
      BY <1>3, <1>4, <2>2 DEF NoneSkipped, Later
    <3>3. Applies("pre", call[r]) => charged[r]["pre"] = 1
      BY <1>4, <2>2 DEF NoneSkipped, Later
    <3> QED BY <1>2, <2>1, <3>1, <3>2, <3>3, Frame DEF NoneSkipped
  <2>8. PassedSound(r)'
    <3>1. ASSUME NEW other \in passed[r] \cup {guard}
          PROVE  /\ next \in Later(other) /\ Applies(other, call[r])
                 /\ other = "auth" => AuthDecision(call[r]) = "allow"
      <4>1. CASE other = guard
        BY <1>3, <1>4, <2>2, <2>3, <4>1 DEF StageSound, Admitted
      <4>2. CASE other \in passed[r]
        <5>1. other \in {"auth", "authz", "decider"}
          BY <1>1, <4>2 DEF GuardType, Vetting
        <5>2. stage[r] \in Later(other) /\ Applies(other, call[r])
              /\ (other = "auth" => AuthDecision(call[r]) = "allow")
          BY <1>4, <2>2, <4>2 DEF PassedSound
        <5> QED BY <1>3, <1>4, <5>1, <5>2 DEF Later
      <4> QED BY <4>1, <4>2
    <3> QED BY <1>2, <2>1, <3>1, Frame DEF PassedSound
  <2>9. ChargesSound(r)'
    <3>1. ASSUME NEW phase \in Phases, charged[r][phase] # 0
          PROVE  charged[r][phase] = 1 /\ next \in Later(IF phase = "pre" THEN "gate" ELSE phase)
      <4>1. charged[r][phase] = 1 /\ stage[r] \in Later(IF phase = "pre" THEN "gate" ELSE phase)
        BY <1>4, <2>2, <3>1 DEF ChargesSound
      <4> QED BY <1>3, <1>4, <4>1 DEF Later, Phases
    <3> QED BY <1>2, <2>1, <2>3, <3>1 DEF ChargesSound
  <2>10. HeadersSound(r)'
    BY <2>1 DEF HeadersSound
  <2>11. LimitsSound(r)' /\ StatusSound(r)'
    BY <2>1, <2>3 DEF LimitsSound, StatusSound, Answered
  <2> QED BY <2>4, <2>5, <2>6, <2>7, <2>8, <2>9, <2>10, <2>11 DEF RequestSound
<1> QED BY <1>5, <1>6, <1>7, <1>8 DEF GuardInv

\* The gate refuses, or lets the request in with a permit if it needs one.
LEMMA GateStep ==
  ASSUME GuardInv, NEW r \in Request, Gate(r)
  PROVE  GuardInv'
<1> DEFINE kind == call[r]
           unresolved == Applies("require_client", kind) /\ kind.client # "client"
           closed == Applies("maintenance", kind) /\ ~kind.exempt
           limited == Applies("concurrency", kind)
           next == PastGate(kind)
<1>1. GuardType /\ BudgetsWithin /\ PermitsAccounted /\ \A q \in Request : RequestSound(q)
  BY DEF GuardInv
<1>2. stage[r] = "gate" /\ UNCHANGED <<cfg, budget>>
  BY DEF Gate
<1>3. /\ budget' \in [Buckets -> Nat] /\ BudgetsWithin'
  BY <1>1, <1>2 DEF GuardType, BudgetsWithin
<1>4. passed[r] = {} /\ \A phase \in Phases : charged[r][phase] = 0
  BY <1>1, <1>2 DEF RequestSound, PassedSound, ChargesSound, Later
<1>5. ASSUME NEW by \in {"require_client", "maintenance", "concurrency"},
             NEW code \in DOMAIN HttpOf \ {"ok"}, NEW retry \in Nat,
             Respond(r, Refusal(by, code, NoRate, retry))
      PROVE  GuardInv'
  <2>1. Fair(Refusal(by, code, NoRate, retry)) /\ Refusal(by, code, NoRate, retry).by = by
    BY RefusalFair, NoRateIsRate DEF Speaker
  <2>2. by # "inside"
    OBVIOUS
  <2> QED BY <1>2, <1>3, <1>4, <1>5, <2>1, <2>2, RespondSound
<1>6. CASE unresolved /\ Respond(r, Reject("require_client",
                                           IF kind.client = "invalid" THEN "invalid_argument"
                                           ELSE "internal"))
  <2>1. CASE kind.client = "invalid"
    <3>1. Respond(r, Refusal("require_client", "invalid_argument", NoRate, 0))
      BY <1>6, <2>1 DEF Reject
    <3> QED BY <1>5, <3>1 DEF HttpOf
  <2>2. CASE kind.client # "invalid"
    <3>1. Respond(r, Refusal("require_client", "internal", NoRate, 0))
      BY <1>6, <2>2 DEF Reject
    <3> QED BY <1>5, <3>1 DEF HttpOf
  <2> QED BY <2>1, <2>2
<1>7. CASE Respond(r, Refusal("maintenance", "unavailable", NoRate, 300))
  BY <1>5, <1>7 DEF HttpOf
<1>8. CASE Respond(r, Refusal("concurrency", "unavailable", NoRate, 1))
  BY <1>5, <1>8 DEF HttpOf
<1>9. CASE /\ ~unresolved /\ ~closed /\ (limited => slots > 0)
           /\ stage' = [stage EXCEPT ![r] = next]
           /\ IF limited THEN slots' = slots - 1 /\ holding' = holding \cup {r}
              ELSE UNCHANGED <<slots, holding>>
           /\ UNCHANGED <<call, reports, charged, passed, carried, answer>>
  <2>1. /\ next \in Admitted /\ (next # "inside" => Applies(next, kind))
        /\ \A other \in Admitted \ {"inside", "pre"} : Applies(other, kind) => next \notin Later(other)
        /\ Applies("pre", kind) => next = "pre"
    <3>1. CASE Applies("pre", kind)
      <4>1. next = "pre" BY <3>1 DEF PastGate
      <4> QED BY <3>1, <4>1 DEF Admitted, Later
    <3>2. CASE ~Applies("pre", kind)
      <4>1. next = After("gate", kind) BY <3>2 DEF PastGate
      <4>2. /\ next \in Later("gate") /\ (next # "inside" => Applies(next, kind))
            /\ \A other \in Later("gate") \ {"inside"} : Applies(other, kind) => next \notin Later(other)
        BY <4>1, AfterNext
      <4> QED BY <3>2, <4>2 DEF Admitted
    <3> QED BY <3>1, <3>2
  <2>2. next \in {"pre", "auth", "post", "authz", "decider", "inside"}
    BY <2>1 DEF Admitted, Later
  <2>3. r \notin holding
    BY <1>1, <1>2 DEF RequestSound, PermitSound
  <2>4. IsFiniteSet(holding) /\ Cardinality(holding) \in Nat /\ slots \in Nat /\ MaxInFlight \in Nat
    BY <1>1, HoldingFinite, GuardAssumption DEF GuardType
  <2>5. Cardinality(holding \cup {r}) = Cardinality(holding) + 1
    BY <2>3, <2>4, FS_AddElement
  <2>6. /\ slots' \in Nat /\ holding' \in SUBSET Request /\ PermitsAccounted'
        /\ (limited => r \in holding') /\ \A q : q # r => (q \in holding' <=> q \in holding)
    <3>1. CASE limited
      <4>1. slots' = slots - 1 /\ holding' = holding \cup {r} /\ slots > 0
        BY <1>9, <3>1
      <4>2. Cardinality(holding') = Cardinality(holding) + 1
        BY <2>5, <4>1
      <4>3. slots' + Cardinality(holding') = MaxInFlight
        BY <1>1, <2>4, <4>1, <4>2 DEF PermitsAccounted
      <4> QED BY <1>1, <2>4, <4>1, <4>3 DEF GuardType, PermitsAccounted
    <3>2. CASE ~limited
      <4>1. slots' = slots /\ holding' = holding
        BY <1>9, <3>2
      <4> QED BY <1>1, <3>2, <4>1 DEF GuardType, PermitsAccounted
    <3> QED BY <3>1, <3>2
  <2> HIDE DEF next
  <2>7. GuardType'
    BY <1>1, <1>2, <1>9, <2>1, <2>6 DEF GuardType
  <2>8. ASSUME NEW q \in Request, q # r PROVE RequestSound(q)'
    <3>1. stage'[q] = stage[q]
      BY <1>1, <1>9, <2>8 DEF GuardType
    <3> QED BY <1>1, <1>2, <1>9, <2>6, <2>8, <3>1, OthersSound
  <2>9. RequestSound(r)'
    <3>1. stage'[r] = next
      BY <1>1, <1>9 DEF GuardType
    <3>2. PermitSound(r)'
      BY <1>2, <1>9, <2>2, <2>6, <3>1, Frame DEF PermitSound
    <3>3. GateSound(r)'
      BY <1>2, <1>9, <3>1, Frame DEF GateSound
    <3>4. StageSound(r)'
      BY <1>2, <1>9, <2>1, <3>1, Frame DEF StageSound
    <3>5. NoneSkipped(r)'
      <4>1. ASSUME NEW other \in Vetting, Applies(other, kind) PROVE next \notin Later(other)
        BY <2>1, <4>1 DEF Vetting, Admitted, Later
      <4>2. Applies("post", kind) => next \notin Later("post")
        BY <2>1 DEF Admitted, Later
      <4>3. Applies("pre", kind) => next \notin Later("gate")
        BY <2>1 DEF Later
      <4> QED BY <1>2, <1>9, <3>1, <4>1, <4>2, <4>3, Frame DEF NoneSkipped
    <3>6. PassedSound(r)' /\ ChargesSound(r)'
      BY <1>4, <1>9 DEF PassedSound, ChargesSound
    <3>7. HeadersSound(r)'
      BY <1>1, <1>9 DEF RequestSound, HeadersSound
    <3>8. LimitsSound(r)' /\ StatusSound(r)'
      BY <2>2, <3>1 DEF LimitsSound, StatusSound, Answered
    <3> QED BY <3>2, <3>3, <3>4, <3>5, <3>6, <3>7, <3>8 DEF RequestSound
  <2> QED BY <1>3, <2>6, <2>7, <2>8, <2>9 DEF GuardInv
<1> QED BY <1>6, <1>7, <1>8, <1>9 DEF Gate

\* A phase of the shield refuses, or charges the request and sends it on.
LEMMA ChargeStep ==
  ASSUME GuardInv, NEW r \in Request, NEW phase \in Phases, NEW fleet \in 0 .. 2,
         Charge(r, phase, fleet)
  PROVE  GuardInv'
<1> DEFINE bucket == Bucket(r, phase)
           left == budget[bucket] - 1
           reset == (Limit[phase] - left) * Period[phase]
           binds == cfg.fleet /\ fleet - 1 <= left
           report == IF binds THEN Shown(phase, fleet - 1, IF reset > Backoff THEN reset ELSE Backoff)
                     ELSE Shown(phase, left, reset)
           spent == cfg.fleet /\ fleet = 0
           guard == IF phase = "pre" THEN "gate" ELSE phase
           next == After(guard, call[r])
<1>1. GuardType /\ BudgetsWithin /\ PermitsAccounted /\ \A q \in Request : RequestSound(q)
  BY DEF GuardInv
<1>2. stage[r] = phase /\ cfg' = cfg /\ phase \in {"pre", "post"}
  BY DEF Charge, Phases
<1>3. bucket \in Buckets /\ bucket[1] = phase
  <2>1. call[r].client \in {"client", "invalid", "unknown"}
    BY <1>1 DEF GuardType, KindType
  <2> QED BY <2>1 DEF Bucket, Buckets
<1>4. budget[bucket] \in Nat /\ budget[bucket] <= Limit[phase] /\ Limit[phase] \in Nat
      /\ Period[phase] \in Nat
  BY <1>1, <1>3, GuardAssumption DEF GuardType, BudgetsWithin
<1>5. \A other \in Phases : charged[r][other] # 0 => other # phase /\ phase \notin Sparing(other)
  BY <1>1, <1>2 DEF RequestSound, ChargesSound, Sparing, Later, Phases
<1>6. ASSUME NEW wait \in Nat, NEW retry \in Nat, UNCHANGED budget,
             Respond(r, Refusal(phase, "resource_exhausted", Shown(phase, 0, wait), retry))
      PROVE  GuardInv'
  <2> DEFINE refusal == Refusal(phase, "resource_exhausted", Shown(phase, 0, wait), retry)
  <2>1. Shown(phase, 0, wait) \in Rate /\ Shown(phase, 0, wait).by = phase
    BY DEF Shown, Rate
  <2>2. Fair(refusal) /\ refusal.by = phase
    <3>1. phase \in Speaker \ {"inside"} /\ "resource_exhausted" \in DOMAIN HttpOf \ {"ok"}
      BY <1>2 DEF Speaker, HttpOf
    <3> QED BY <2>1, <3>1, RefusalFair
  <2>3. budget' \in [Buckets -> Nat] /\ BudgetsWithin'
    BY <1>1, <1>6 DEF GuardType, BudgetsWithin
  <2> HIDE DEF refusal
  <2>4. Respond(r, refusal)
    BY <1>6 DEF refusal
  <2> QED BY <1>2, <1>5, <2>2, <2>3, <2>4, RespondSound
<1>7. CASE /\ spent /\ UNCHANGED budget
           /\ Respond(r, Refusal(phase, "resource_exhausted", Shown(phase, 0, Backoff), Backoff))
  BY <1>6, <1>7 DEF Backoff
<1>8. CASE /\ UNCHANGED budget
           /\ Respond(r, Refusal(phase, "resource_exhausted",
                                Shown(phase, 0, Limit[phase] * Period[phase]), Period[phase]))
  <2>1. Limit[phase] * Period[phase] \in Nat
    BY <1>4
  <2> QED BY <1>4, <1>6, <1>8, <2>1
<1>9. CASE /\ ~spent /\ budget[bucket] > 0 /\ budget' = [budget EXCEPT ![bucket] = left]
           /\ reports' = [reports EXCEPT ![r][phase] = report]
           /\ charged' = [charged EXCEPT ![r][phase] = charged[r][phase] + 1]
           /\ stage' = [stage EXCEPT ![r] = next]
           /\ UNCHANGED <<slots, call, holding, passed, carried, answer>>
  <2>1. left \in Nat /\ left <= Limit[phase] /\ reset \in Nat
    <3>1. left \in Nat /\ left <= Limit[phase]
      BY <1>4, <1>9
    <3>2. Limit[phase] - left \in Nat
      BY <1>4, <3>1
    <3> HIDE DEF left
    <3> QED BY <1>4, <3>1, <3>2
  <2>2. report \in Rate
    <3>1. CASE binds
      <4>1. fleet - 1 \in Nat
        BY <1>9, <3>1
      <4>2. (IF reset > Backoff THEN reset ELSE Backoff) \in Nat
        BY <2>1 DEF Backoff
      <4> QED BY <3>1, <4>1, <4>2 DEF Shown, Rate
    <3>2. CASE ~binds
      BY <2>1, <3>2 DEF Shown, Rate
    <3> QED BY <3>1, <3>2
  <2>3. /\ next \in Later(guard) /\ (next # "inside" => Applies(next, call[r]))
        /\ \A other \in Later(guard) \ {"inside"} : Applies(other, call[r]) => next \notin Later(other)
    BY <1>2, AfterNext
  <2> HIDE DEF next, report, left, reset, binds, spent, bucket
  <2>4. next \in Admitted
    BY <1>2, <2>3 DEF Admitted, Later
  <2>5. charged[r][phase] = 0 /\ charged[r] \in [Phases -> Nat]
    BY <1>1, <1>5 DEF GuardType
  <2>6. GuardType'
    BY <1>1, <1>2, <1>3, <1>9, <2>1, <2>2, <2>4, <2>5 DEF GuardType
  <2>7. BudgetsWithin'
    <3> SUFFICES ASSUME NEW b \in Buckets PROVE budget'[b] <= Limit[b[1]]
      BY DEF BudgetsWithin
    <3>1. CASE b = bucket BY <1>1, <1>3, <1>9, <2>1, <3>1 DEF GuardType
    <3>2. CASE b # bucket BY <1>1, <1>9, <3>2 DEF GuardType, BudgetsWithin
    <3> QED BY <3>1, <3>2
  <2>8. PermitsAccounted'
    BY <1>1, <1>9 DEF PermitsAccounted
  <2>9. ASSUME NEW q \in Request, q # r PROVE RequestSound(q)'
    <3>1. stage'[q] = stage[q] /\ charged'[q] = charged[q] /\ reports'[q] = reports[q]
      BY <1>1, <1>9, <2>9 DEF GuardType
    <3> QED BY <1>1, <1>2, <1>9, <3>1, OthersSound
  <2>10. RequestSound(r)'
    <3>1. stage'[r] = next /\ charged'[r] = [charged[r] EXCEPT ![phase] = 1]
      BY <1>1, <1>9, <2>5 DEF GuardType
    <3>2. charged'[r][phase] = 1 /\ \A other \in Phases : other # phase => charged'[r][other] = charged[r][other]
      BY <2>5, <3>1
    <3>3. /\ PermitSound(r) /\ GateSound(r) /\ StageSound(r) /\ NoneSkipped(r) /\ PassedSound(r)
          /\ ChargesSound(r) /\ HeadersSound(r)
      BY <1>1 DEF RequestSound
    <3>4. next \in {"auth", "post", "authz", "decider", "inside"} /\ stage[r] \in Admitted /\ Working(r)
      BY <1>2, <2>3 DEF Later, Admitted, Working
    <3>5. PermitSound(r)'
      BY <1>2, <1>9, <3>1, <3>3, <3>4, Frame DEF PermitSound
    <3>6. GateSound(r)'
      BY <1>2, <1>9, <3>1, <3>3, <3>4, Frame DEF GateSound
    <3>7. StageSound(r)'
      BY <1>2, <1>9, <2>3, <3>1, Frame DEF StageSound
    <3>8. NoneSkipped(r)'
      <4>1. ASSUME NEW other \in Vetting, next \in Later(other), Applies(other, call[r])
            PROVE  other \in passed[r]
        BY <1>2, <2>3, <3>3, <4>1 DEF NoneSkipped, Vetting, Later
      <4>2. next \in Later("post") /\ Applies("post", call[r]) => charged'[r]["post"] = 1
        BY <1>2, <2>3, <3>2 DEF Later
      <4>3. Applies("pre", call[r]) => charged'[r]["pre"] = 1
        BY <1>2, <3>2, <3>3 DEF NoneSkipped, Later, Phases
      <4> QED BY <1>2, <1>9, <3>1, <4>1, <4>2, <4>3, Frame DEF NoneSkipped
    <3>9. PassedSound(r)'
      <4>1. ASSUME NEW other \in passed[r]
            PROVE  /\ next \in Later(other) /\ Applies(other, call[r])
                   /\ other = "auth" => AuthDecision(call[r]) = "allow"
        <5>1. other \in {"auth", "authz", "decider"}
          BY <1>1, <4>1 DEF GuardType, Vetting
        <5>2. stage[r] \in Later(other) /\ Applies(other, call[r])
              /\ (other = "auth" => AuthDecision(call[r]) = "allow")
          BY <1>2, <3>3, <4>1 DEF PassedSound
        <5> QED BY <1>2, <2>3, <5>1, <5>2 DEF Later
      <4> QED BY <1>2, <1>9, <3>1, <4>1, Frame DEF PassedSound
    <3>10. ChargesSound(r)'
      <4>1. ASSUME NEW other \in Phases, charged'[r][other] # 0
            PROVE  charged'[r][other] = 1 /\ next \in Later(IF other = "pre" THEN "gate" ELSE other)
        <5>1. CASE other = phase
          BY <1>2, <2>3, <3>2, <5>1
        <5>2. CASE other # phase
          <6>1. charged[r][other] = 1 /\ charged'[r][other] = 1
                /\ stage[r] \in Later(IF other = "pre" THEN "gate" ELSE other)
            BY <1>2, <3>2, <3>3, <4>1, <5>2 DEF ChargesSound
          <6> QED BY <1>2, <2>3, <5>2, <6>1 DEF Later, Phases
        <5> QED BY <5>1, <5>2
      <4>2. next # "body"
        BY <3>4
      <4> QED BY <3>1, <4>1, <4>2 DEF ChargesSound
    <3>11. HeadersSound(r)'
      BY <1>9, <3>3 DEF HeadersSound
    <3>12. LimitsSound(r)' /\ StatusSound(r)'
      BY <3>1, <3>4 DEF LimitsSound, StatusSound, Answered
    <3> QED BY <3>5, <3>6, <3>7, <3>8, <3>9, <3>10, <3>11, <3>12 DEF RequestSound
  <2> QED BY <2>6, <2>7, <2>8, <2>9, <2>10 DEF GuardInv
<1> QED BY <1>7, <1>8, <1>9 DEF Charge

\* The token policy allows, or refuses with one of two codes.
LEMMA AuthDecisionType ==
  ASSUME NEW kind \in KindType
  PROVE  AuthDecision(kind) \in {"allow", "unauthenticated", "permission_denied"}
<1>1. kind.token \in {"none", "invalid", "weak", "valid"}
  BY DEF KindType
<1>2. CASE kind.token = "invalid" BY <1>2 DEF AuthDecision
<1>3. CASE kind.token = "none" BY <1>3 DEF AuthDecision
<1>4. CASE kind.token = "weak" BY <1>4 DEF AuthDecision
<1>5. CASE kind.token = "valid" BY <1>5 DEF AuthDecision
<1> QED BY <1>1, <1>2, <1>3, <1>4, <1>5

\* What any answer that no phase is spared by keeps.
LEMMA AnswerSound ==
  ASSUME GuardInv, NEW r \in Request, stage[r] \notin {"idle", "body"},
         NEW by \in {"none", "auth", "authz", "decider", "inside"},
         by = "inside" => stage[r] = "inside", by = "auth" => stage[r] = "auth",
         NEW status \in Nat, NEW code \in GrpcCode \cup {"none"}, by # "inside" => code # "ok",
         Respond(r, Response(by, status, code, NoRate, 0)), UNCHANGED <<cfg, budget>>
  PROVE  GuardInv'
<1> DEFINE response == Response(by, status, code, NoRate, 0)
<1>1. GuardType /\ BudgetsWithin /\ RequestSound(r)
  BY DEF GuardInv
<1>2. Fair(response) /\ response.by = by
  BY NoRateIsRate DEF Fair, Response, Speaker
<1>3. \A phase \in Phases : charged[r][phase] # 0 => by \notin Sparing(phase)
  BY <1>1 DEF RequestSound, ChargesSound, Sparing, Later, Phases
<1>4. budget' \in [Buckets -> Nat] /\ BudgetsWithin'
  BY <1>1 DEF GuardType, BudgetsWithin
<1> HIDE DEF response
<1>5. Respond(r, response)
  BY DEF response
<1> QED BY <1>2, <1>3, <1>4, <1>5, RespondSound

\* A rejection is an answer that reports no budget.
LEMMA RejectIsAnswer ==
  ASSUME NEW by, NEW code \in {"unauthenticated", "permission_denied", "unavailable"}
  PROVE  \E status \in Nat : Reject(by, code) = Response(by, status, code, NoRate, 0)
<1>1. HttpOf[code] \in Nat
  BY DEF HttpOf
<1> QED BY <1>1 DEF Reject, Refusal

\* The token gate refuses, or replaces the claim headers and passes the request.
LEMMA AuthenticateStep ==
  ASSUME GuardInv, NEW r \in Request, Authenticate(r)
  PROVE  GuardInv'
<1> DEFINE decision == AuthDecision(call[r])
           carry == ClaimHeaders(call[r], carried[r])
<1>1. GuardType /\ RequestSound(r) /\ stage[r] = "auth" /\ UNCHANGED <<cfg, budget>>
  BY DEF GuardInv, Authenticate
<1>2. decision \in {"allow", "unauthenticated", "permission_denied"}
  BY <1>1, AuthDecisionType DEF GuardType
<1>3. CASE decision # "allow" /\ Respond(r, Reject("auth", decision))
  <2>1. PICK status \in Nat : Reject("auth", decision) = Response("auth", status, decision, NoRate, 0)
    BY <1>2, <1>3, RejectIsAnswer
  <2>2. decision \in GrpcCode \cup {"none"} /\ decision # "ok"
    BY <1>2, <1>3 DEF GrpcCode
  <2> HIDE DEF decision
  <2> QED BY <1>1, <1>3, <2>1, <2>2, AnswerSound
<1>4. CASE decision = "allow" /\ Pass(r, "auth", carry)
  <2>1. /\ carry = [carried[r] EXCEPT !["claim"] = IF call[r].token = "none" THEN {} ELSE {"jwt"}]
        /\ carried[r] \in [HeaderNames -> SUBSET Sources]
    BY <1>1 DEF ClaimHeaders, GuardType
  <2>2. /\ carry \in [HeaderNames -> SUBSET Sources] /\ carry["claim"] \in SUBSET {"jwt"}
        /\ carry["address"] = carried[r]["address"] /\ carry["extra"] = carried[r]["extra"]
    BY <2>1 DEF HeaderNames, Sources
  <2> HIDE DEF carry
  <2>3. \A name \in HeaderNames : "decider" \in carry[name] =>
          "decider" \in passed[r] /\ carry[name] = {"decider"}
    BY <1>1, <2>2 DEF RequestSound, HeadersSound, HeaderNames
  <2>4. carry["address"] \subseteq {"proxy"} /\ "client" \notin carry["claim"]
    BY <1>1, <2>2 DEF RequestSound, HeadersSound
  <2>5. "auth" \in Vetting
    BY DEF Vetting
  <2> QED BY <1>1, <1>4, <2>2, <2>3, <2>4, <2>5, PassSound
<1> QED BY <1>3, <1>4 DEF Authenticate

\* The authorization server refuses, fails, or passes the request with headers appended.
LEMMA AuthorizeStep ==
  ASSUME GuardInv, NEW r \in Request, NEW check \in Checks, Authorize(r, check)
  PROVE  GuardInv'
<1>1. GuardType /\ RequestSound(r) /\ stage[r] = "authz" /\ UNCHANGED <<cfg, budget>>
  BY DEF GuardInv, Authorize
<1>2. carried[r] \in [HeaderNames -> SUBSET Sources] /\ "authz" \in Vetting
  BY <1>1 DEF GuardType, Vetting
<1>3. "decider" \notin passed[r]
  BY <1>1 DEF RequestSound, PassedSound, Later
<1>4. \A name \in HeaderNames : "decider" \notin carried[r][name]
  BY <1>1, <1>3 DEF RequestSound, HeadersSound
<1>5. carried[r]["address"] \subseteq {"proxy"} /\ ("auth" \in passed[r] => "client" \notin carried[r]["claim"])
  BY <1>1 DEF RequestSound, HeadersSound
<1>6. CASE Pass(r, "authz", carried[r])
  BY <1>1, <1>2, <1>4, <1>5, <1>6, PassSound
<1>7. CASE Respond(r, Reject("authz", "unavailable"))
  <2>1. PICK status \in Nat :
          Reject("authz", "unavailable") = Response("authz", status, "unavailable", NoRate, 0)
    BY RejectIsAnswer
  <2>2. "unavailable" \in GrpcCode \cup {"none"}
    BY DEF GrpcCode
  <2> QED BY <1>1, <1>7, <2>1, <2>2, AnswerSound
<1>8. CASE Pass(r, "authz", ApplyHeaders(carried[r], check.headers))
  <2> DEFINE carry == ApplyHeaders(carried[r], check.headers)
  <2>1. carry = [name \in HeaderNames |-> carried[r][name] \cup
                     IF name \in check.headers \ {"address"} THEN {"check"} ELSE {}]
    BY <1>2 DEF ApplyHeaders
  <2>2. \A name \in HeaderNames : /\ carry[name] \subseteq carried[r][name] \cup {"check"}
                            /\ carry[name] \in SUBSET Sources
    BY <1>2, <2>1 DEF Sources
  <2>3. carry \in [HeaderNames -> SUBSET Sources]
    <3>1. carry = [name \in HeaderNames |-> carry[name]]
      BY <2>1
    <3> HIDE DEF carry
    <3> QED BY <2>2, <3>1
  <2>4. carry["address"] = carried[r]["address"] \cup {}
    BY <2>1 DEF HeaderNames
  <2> HIDE DEF carry
  <2>5. carry["address"] \subseteq {"proxy"} /\ ("auth" \in passed[r] => "client" \notin carry["claim"])
    BY <1>5, <2>2, <2>4 DEF HeaderNames
  <2>6. \A name \in HeaderNames : "decider" \notin carry[name]
    BY <1>4, <2>2
  <2>7. Pass(r, "authz", carry)
    BY <1>8 DEF carry
  <2> QED BY <1>1, <1>2, <2>3, <2>5, <2>6, <2>7, PassSound
<1>9. CASE check.code # "failed" /\ ~Evaluate(check) /\ Respond(r, Denial(check))
  <2>1. check.http \in Nat /\ check.code \in GrpcCode \cup {"none"} /\ check.code # "ok"
    BY <1>9, GuardAssumption DEF Evaluate
  <2>2. CASE check.http = 0
    <3>1. PICK status \in Nat :
            Reject("authz", "permission_denied") = Response("authz", status, "permission_denied", NoRate, 0)
      BY RejectIsAnswer
    <3>2. "permission_denied" \in GrpcCode \cup {"none"}
      BY DEF GrpcCode
    <3>3. Denial(check) = Reject("authz", "permission_denied")
      BY <2>2 DEF Denial
    <3> QED BY <1>1, <1>9, <3>1, <3>2, <3>3, AnswerSound
  <2>3. CASE check.http # 0
    <3> DEFINE code == IF check.code = "none" THEN HttpToGrpc(check.http) ELSE check.code
    <3>1. HttpToGrpc(check.http) \in GrpcCode /\ HttpToGrpc(check.http) # "ok"
      BY HttpNeverOk DEF GrpcCode
    <3>2. code \in GrpcCode \cup {"none"} /\ code # "ok"
      BY <2>1, <3>1
    <3>3. Denial(check) = Response("authz", check.http, code, NoRate, 0)
      BY <2>3 DEF Denial
    <3> HIDE DEF code
    <3> QED BY <1>1, <1>9, <2>1, <3>2, <3>3, AnswerSound
  <2> QED BY <2>2, <2>3
<1> QED BY <1>6, <1>7, <1>8, <1>9 DEF Authorize

\* The decider answers itself, or passes the request with headers of its own.
LEMMA DeciderStep ==
  ASSUME GuardInv, NEW r \in Request, NEW decision \in Decisions, Decider(r, decision)
  PROVE  GuardInv'
<1>1. GuardType /\ RequestSound(r) /\ stage[r] = "decider" /\ UNCHANGED <<cfg, budget>> /\ decision.http \in Nat
  BY GuardAssumption DEF GuardInv, Decider
<1>2. CASE Pass(r, "decider", StripThenInsert(carried[r], decision.headers))
  <2> DEFINE carry == StripThenInsert(carried[r], decision.headers)
  <2>1. carried[r] \in [HeaderNames -> SUBSET Sources] /\ "decider" \in Vetting
    BY <1>1 DEF GuardType, Vetting
  <2>2. carry = [name \in HeaderNames |-> IF name \in decision.headers \ {"address"} THEN {"decider"}
                                      ELSE carried[r][name]]
    BY <2>1 DEF StripThenInsert
  <2>3. \A name \in HeaderNames : carry[name] = {"decider"} \/ carry[name] = carried[r][name]
    BY <2>2
  <2>4. carry \in [HeaderNames -> SUBSET Sources]
    BY <2>1, <2>2 DEF Sources
  <2>5. carry["address"] = carried[r]["address"]
    BY <2>2 DEF HeaderNames
  <2> HIDE DEF carry
  <2>6. \A name \in HeaderNames : "decider" \in carry[name] => carry[name] = {"decider"}
    BY <1>1, <2>3 DEF RequestSound, HeadersSound
  <2>7. carry["address"] \subseteq {"proxy"} /\ ("auth" \in passed[r] => "client" \notin carry["claim"])
    BY <1>1, <2>3, <2>5 DEF RequestSound, HeadersSound, HeaderNames
  <2>8. Pass(r, "decider", carry)
    BY <1>2 DEF carry
  <2> QED BY <1>1, <2>1, <2>4, <2>6, <2>7, <2>8, PassSound
<1>3. CASE Respond(r, Response("decider", decision.http, HttpToGrpc(decision.http), NoRate, 0))
  <2>1. HttpToGrpc(decision.http) \in GrpcCode \cup {"none"} /\ HttpToGrpc(decision.http) # "ok"
    BY HttpNeverOk DEF GrpcCode
  <2> QED BY <1>1, <1>3, <2>1, AnswerSound
<1>4. CASE Respond(r, Response("decider", 302, "unauthenticated", NoRate, 0))
  <2>1. "unauthenticated" \in GrpcCode \cup {"none"}
    BY DEF GrpcCode
  <2> QED BY <1>1, <1>4, <2>1, AnswerSound
<1> QED BY <1>2, <1>3, <1>4 DEF Decider

\* The verify endpoint answers as the gate it stands for would.
LEMMA VerifyStep ==
  ASSUME GuardInv, NEW r \in Request, Verify(r)
  PROVE  GuardInv'
<1> DEFINE decision == AuthDecision(call[r])
           status(d) == CASE d.is = "allow" -> 200 [] d.is = "deny" -> d.http [] OTHER -> 401
<1>1. GuardType /\ stage[r] = "inside" /\ UNCHANGED <<cfg, budget>>
  BY DEF GuardInv, Verify
<1>2. CASE \E d \in Decisions : Respond(r, Response("inside", status(d), "none", NoRate, 0))
  <2>1. PICK d \in Decisions : Respond(r, Response("inside", status(d), "none", NoRate, 0))
    BY <1>2
  <2>2. status(d) \in Nat
    <3>1. d.http \in Nat BY GuardAssumption
    <3>2. CASE d.is = "allow" BY <3>2
    <3>3. CASE d.is = "deny" BY <3>1, <3>3
    <3>4. CASE d.is \notin {"allow", "deny"} BY <3>4
    <3> QED BY <3>2, <3>3, <3>4
  <2> HIDE DEF status
  <2> QED BY <1>1, <2>1, <2>2, AnswerSound
<1>3. CASE Respond(r, IF decision = "allow" THEN Response("inside", 200, "none", NoRate, 0)
                      ELSE Reject("inside", decision))
  <2>1. CASE decision = "allow"
    <3>1. Respond(r, Response("inside", 200, "none", NoRate, 0))
      BY <1>3, <2>1
    <3> QED BY <1>1, <3>1, AnswerSound
  <2>2. CASE decision # "allow"
    <3>1. decision \in {"unauthenticated", "permission_denied"}
      BY <1>1, <2>2, AuthDecisionType DEF GuardType
    <3>2. decision \in GrpcCode \cup {"none"}
      BY <3>1 DEF GrpcCode
    <3>3. Respond(r, Reject("inside", decision))
      BY <1>3, <2>2
    <3>4. PICK code \in Nat : Reject("inside", decision) = Response("inside", code, decision, NoRate, 0)
      BY <3>1, RejectIsAnswer
    <3> HIDE DEF decision
    <3> QED BY <1>1, <3>2, <3>3, <3>4, AnswerSound
  <2> QED BY <2>1, <2>2
<1> QED BY <1>2, <1>3 DEF Verify

\* Everything else behind the guards answers in its own protocol.
LEMMA ServeStep ==
  ASSUME GuardInv, NEW r \in Request, Serve(r)
  PROVE  GuardInv'
<1> DEFINE status(code) == IF Class(call[r]) = "grpc" \/ code = "none" THEN 200 ELSE HttpOf[code]
<1>1. stage[r] = "inside" /\ UNCHANGED <<cfg, budget>>
  BY DEF Serve
<1>2. PICK code \in {"ok", "unavailable", "none"} :
        Respond(r, Response("inside", status(code), code, NoRate, 0))
  BY DEF Serve
<1>3. status(code) \in Nat /\ code \in GrpcCode \cup {"none"}
  BY DEF HttpOf, GrpcCode
<1> HIDE DEF status
<1> QED BY <1>1, <1>2, <1>3, AnswerSound

\* Preflights meet no guard.
LEMMA PreflightStep ==
  ASSUME GuardInv, NEW r \in Request, Preflight(r)
  PROVE  GuardInv'
<1>1. /\ stage[r] = "preflight" /\ Respond(r, Response("none", 200, "none", NoRate, 0))
      /\ UNCHANGED <<cfg, budget>>
  BY DEF Preflight
<1> QED BY <1>1, AnswerSound

-----------------------------------------------------------------------------
\* The inductive invariant, and what follows from it.

\* The invariant holds before the first request.
LEMMA InitSound ==
  ASSUME GuardInit
  PROVE  GuardInv
<1>1. NoCall \in KindType
  BY DEF NoCall, KindType
<1>2. NoReports \in [Phases -> Rate] /\ NoCharges \in [Phases -> Nat]
  BY NoRateIsRate DEF NoReports, NoCharges
<1>3. NoHeaders \in [HeaderNames -> SUBSET Sources]
  BY DEF NoHeaders, HeaderNames
<1>4. NoAnswer \in Answer
  BY NoRateIsRate DEF NoAnswer, Answer, Speaker
<1>5. \A b \in Buckets : b[1] \in Phases /\ Limit[b[1]] \in Nat
  BY GuardAssumption DEF Buckets
<1>6. budget = [b \in Buckets |-> Limit[b[1]]]
  BY DEF GuardInit, Buckets
<1>7. budget \in [Buckets -> Nat] /\ BudgetsWithin
  BY <1>5, <1>6 DEF BudgetsWithin
<1>8. GuardType
  BY <1>1, <1>2, <1>3, <1>4, <1>7, GuardAssumption DEF GuardType, GuardInit
<1>9. PermitsAccounted
  <2>1. holding = {} /\ slots = MaxInFlight /\ MaxInFlight \in Nat
    BY GuardAssumption DEF GuardInit
  <2> QED BY <2>1, FS_EmptySet DEF PermitsAccounted
<1>10. ASSUME NEW r \in Request PROVE RequestSound(r)
  <2>1. /\ stage[r] = "idle" /\ holding = {} /\ charged[r] = NoCharges /\ passed[r] = {}
        /\ carried[r] = NoHeaders
    BY DEF GuardInit
  <2>2. PermitSound(r) /\ GateSound(r) /\ StageSound(r) /\ NoneSkipped(r)
    BY <2>1 DEF PermitSound, Working, GateSound, StageSound, NoneSkipped, Admitted, Later, Vetting
  <2>3. PassedSound(r) /\ ChargesSound(r)
    BY <2>1 DEF PassedSound, ChargesSound, NoCharges
  <2>4. HeadersSound(r)
    BY <2>1 DEF HeadersSound, NoHeaders, HeaderNames
  <2>5. LimitsSound(r) /\ StatusSound(r)
    BY <2>1 DEF LimitsSound, StatusSound, Answered
  <2> QED BY <2>2, <2>3, <2>4, <2>5 DEF RequestSound
<1> QED BY <1>7, <1>8, <1>9, <1>10 DEF GuardInv

\* Every step keeps the invariant.
LEMMA NextSound ==
  ASSUME GuardInv, [GuardNext]_guardVars
  PROVE  GuardInv'
<1>1. ASSUME NEW r \in Request, Step(r) PROVE GuardInv'
  <2>1. CASE \E kind \in Kinds : Arrive(r, kind) BY <2>1, ArriveSound
  <2>2. CASE Preflight(r) BY <2>2, PreflightStep
  <2>3. CASE Gate(r) BY <2>3, GateStep
  <2>4. CASE Authenticate(r) BY <2>4, AuthenticateStep
  <2>5. CASE Verify(r) BY <2>5, VerifyStep
  <2>6. CASE Serve(r) BY <2>6, ServeStep
  <2>7. CASE BodyEnds(r) BY <2>7, ClearSound DEF BodyEnds
  <2>8. CASE Leaves(r) BY <2>8, ClearSound DEF Leaves
  <2>9. CASE \E phase \in Phases, fleet \in 0 .. 2 : Charge(r, phase, fleet) BY <2>9, ChargeStep
  <2>10. CASE \E check \in Checks : Authorize(r, check) BY <2>10, AuthorizeStep
  <2>11. CASE \E decision \in Decisions : Decider(r, decision) BY <2>11, DeciderStep
  <2> QED BY <1>1, <2>1, <2>2, <2>3, <2>4, <2>5, <2>6, <2>7, <2>8, <2>9, <2>10, <2>11 DEF Step
<1>2. ASSUME NEW b \in DOMAIN budget, Replenish(b) PROVE GuardInv'
  BY <1>2, ReplenishSound
<1>3. CASE UNCHANGED guardVars
  <2>1. UNCHANGED <<cfg, slots, budget, stage, call, holding, reports, charged, passed, carried, answer>>
    BY <1>3 DEF guardVars, requests
  <2>2. \A r \in Request : RequestSound(r)'
    BY <2>1, OthersSound DEF GuardInv
  <2> QED BY <2>1, <2>2 DEF GuardInv, GuardType, BudgetsWithin, PermitsAccounted
<1> QED BY <1>1, <1>2, <1>3 DEF GuardNext

\* The guards' variables keep their types and no bucket, permit count or charge
\* leaves its range (service.rs, guard/*.rs, shield/mod.rs).
THEOREM GuardsSound == GuardSpec => []GuardInv
<1>1. GuardInit => GuardInv
  BY InitSound
<1>2. GuardInv /\ [GuardNext]_guardVars => GuardInv'
  BY NextSound
<1> QED BY <1>1, <1>2, PTL DEF GuardSpec

\* Permits (guard/concurrency.rs, held.rs): for any number of requests and any
\* limit, none is lost or given back twice, and the requests the limit covers
\* that are being worked on or whose bodies are on their way never exceed it.
THEOREM PermitsKept == GuardSpec => []PermitsConserved
<1>1. GuardInv => PermitsConserved
  <2> SUFFICES ASSUME GuardInv PROVE PermitsConserved
    OBVIOUS
  <2> DEFINE covered == {r \in Request : Working(r) /\ Applies("concurrency", call[r])}
  <2>1. GuardType /\ PermitsAccounted /\ \A r \in Request : RequestSound(r)
    BY DEF GuardInv
  <2>2. covered \subseteq holding
    BY <2>1 DEF RequestSound, PermitSound
  <2>3. IsFiniteSet(holding) /\ Cardinality(holding) \in Nat /\ slots \in Nat /\ MaxInFlight \in Nat
    BY <2>1, HoldingFinite, GuardAssumption DEF GuardType
  <2> HIDE DEF covered
  <2>4. IsFiniteSet(covered) /\ Cardinality(covered) <= Cardinality(holding)
    BY <2>2, <2>3, FS_Subset
  <2>5. Cardinality(covered) \in Nat
    BY <2>4, FS_CardinalityType
  <2>6. Cardinality(covered) <= MaxInFlight
    BY <2>1, <2>3, <2>4, <2>5 DEF PermitsAccounted
  <2> QED BY <2>1, <2>6 DEF PermitsConserved, PermitsAccounted, covered
<1> QED BY <1>1, GuardsSound, PTL

\* The order of the guards (service.rs guard_stack, guard/gate.rs, auth/mod.rs,
\* auth/authz.rs, embed.rs): nothing behind them sees a request one of them would
\* have refused, and no budget is spent on one refused before it.
THEOREM NothingUnvetted == GuardSpec => []VettedInOrder
<1>1. GuardInv => VettedInOrder
  <2> SUFFICES ASSUME GuardInv, NEW r \in Request
               PROVE  LET kind == call[r]
                      IN /\ stage[r] = "inside" =>
                              /\ Applies("require_client", kind) => kind.client = "client"
                              /\ Applies("maintenance", kind) => kind.exempt
                              /\ Applies("concurrency", kind) => r \in holding
                              /\ Applies("auth", kind) => AuthDecision(kind) = "allow"
                              /\ {g \in {"auth", "authz", "decider"} : Applies(g, kind)} \subseteq passed[r]
                              /\ \A phase \in Phases : Applies(phase, kind) => charged[r][phase] = 1
                              /\ kind.route = "verify" /\ kind.speaks = "http" => passed[r] = {}
                         /\ \A phase \in Phases : charged[r][phase] <= 1
                         /\ Answered(r) /\ By(r) \in {"require_client", "maintenance", "concurrency", "pre"} =>
                              charged[r] = NoCharges
                         /\ Answered(r) /\ By(r) \in {"auth", "post"} => charged[r]["post"] = 0
    BY DEF VettedInOrder
  <2>1. /\ GuardType /\ PermitSound(r) /\ GateSound(r) /\ NoneSkipped(r) /\ PassedSound(r)
        /\ ChargesSound(r)
    BY DEF GuardInv, RequestSound
  <2>2. charged[r] \in [Phases -> Nat] /\ passed[r] \subseteq Vetting
    BY <2>1 DEF GuardType
  <2>3. ASSUME stage[r] = "inside"
        PROVE  /\ Applies("require_client", call[r]) => call[r].client = "client"
               /\ Applies("maintenance", call[r]) => call[r].exempt
               /\ Applies("concurrency", call[r]) => r \in holding
               /\ Applies("auth", call[r]) => AuthDecision(call[r]) = "allow"
               /\ {g \in {"auth", "authz", "decider"} : Applies(g, call[r])} \subseteq passed[r]
               /\ \A phase \in Phases : Applies(phase, call[r]) => charged[r][phase] = 1
               /\ call[r].route = "verify" /\ call[r].speaks = "http" => passed[r] = {}
    <3>1. /\ Applies("require_client", call[r]) => call[r].client = "client"
          /\ Applies("maintenance", call[r]) => call[r].exempt
      BY <2>1, <2>3 DEF GateSound, Admitted, Later
    <3>2. Applies("concurrency", call[r]) => r \in holding
      BY <2>1, <2>3 DEF PermitSound, Working
    <3>3. \A guard \in Vetting : Applies(guard, call[r]) => guard \in passed[r]
      BY <2>1, <2>3 DEF NoneSkipped, Vetting, Later
    <3>4. Applies("auth", call[r]) => AuthDecision(call[r]) = "allow"
      BY <2>1, <3>3 DEF PassedSound, Vetting
    <3>5. \A phase \in Phases : Applies(phase, call[r]) => charged[r][phase] = 1
      BY <2>1, <2>3 DEF NoneSkipped, Phases, Later
    <3>6. call[r].route = "verify" /\ call[r].speaks = "http" => passed[r] = {}
      <4> SUFFICES ASSUME call[r].route = "verify", call[r].speaks = "http", NEW guard \in passed[r]
                   PROVE  FALSE
        OBVIOUS
      <4>1. Class(call[r]) = "verify"
        BY DEF Class
      <4>2. guard \in Authenticating /\ Applies(guard, call[r])
        BY <2>1, <2>2 DEF PassedSound, Authenticating, Vetting
      <4> QED BY <4>1, <4>2 DEF Applies
    <3>7. {g \in {"auth", "authz", "decider"} : Applies(g, call[r])} \subseteq passed[r]
      BY <3>3 DEF Vetting
    <3> QED BY <3>1, <3>2, <3>4, <3>5, <3>6, <3>7
  <2>4. \A phase \in Phases : charged[r][phase] <= 1
    BY <2>1, <2>2 DEF ChargesSound
  <2>5. Answered(r) /\ By(r) \in {"require_client", "maintenance", "concurrency", "pre"} =>
          charged[r] = NoCharges
    BY <2>1, <2>2 DEF ChargesSound, Sparing, Answered, NoCharges
  <2>6. Answered(r) /\ By(r) \in {"auth", "post"} => charged[r]["post"] = 0
    BY <2>1 DEF ChargesSound, Sparing, Answered, Phases
  <2> QED BY <2>3, <2>4, <2>5, <2>6
<1> QED BY <1>1, GuardsSound, PTL

\* Identity headers (client_ip.rs apply, auth/mod.rs strip_claim_headers,
\* auth/authz.rs apply_headers, embed.rs strip_then_insert) are never the
\* client's own words once they are behind the guards.
THEOREM HeadersProxyOwned == GuardSpec => []HeadersGenuine
<1>1. GuardInv => HeadersGenuine
  <2> SUFFICES ASSUME GuardInv, NEW r \in Request, stage[r] = "inside"
               PROVE  /\ carried[r]["address"] \subseteq {"proxy"}
                      /\ Applies("auth", call[r]) => "client" \notin carried[r]["claim"]
                      /\ \A name \in DOMAIN carried[r] :
                           "decider" \in carried[r][name] => carried[r][name] = {"decider"}
    BY DEF HeadersGenuine
  <2>1. GuardType /\ NoneSkipped(r) /\ HeadersSound(r)
    BY DEF GuardInv, RequestSound
  <2>2. Applies("auth", call[r]) => "auth" \in passed[r]
    BY <2>1 DEF NoneSkipped, Later, Vetting
  <2>3. DOMAIN carried[r] = HeaderNames
    BY <2>1 DEF GuardType
  <2> QED BY <2>1, <2>2, <2>3 DEF HeadersSound
<1> QED BY <1>1, GuardsSound, PTL

\* Rate headers (shield/mod.rs maybe_tighten_rate_headers): a response names the
\* tightest budget of every phase it passed, and no shorter wait than that.
THEOREM BudgetsTightest == GuardSpec => []TightestReported
<1>1. GuardInv => TightestReported
  BY DEF GuardInv, RequestSound, LimitsSound, TightestReported, Tighter
<1> QED BY <1>1, GuardsSound, PTL

\* gRPC answers (guard/grpc.rs, cors.rs): a gRPC call some guard covers always
\* ends in a gRPC status, in OK only when the upstream said so, and a browser
\* the policy admits can read it.
THEOREM GrpcAnswersTrue == GuardSpec => []RefusedInGrpc
<1>1. GuardInv => RefusedInGrpc
  <2> SUFFICES ASSUME GuardInv, NEW r \in Request, StatusSound(r)
               PROVE  Answered(r) =>
                        LET kind == call[r]
                            response == answer[r]
                        IN /\ Class(kind) = "grpc" /\ Guarded("grpc") => response.code # "none"
                           /\ Class(kind) = "grpc" /\ response.by # "inside" => response.code # "ok"
                           /\ response.code = "ok" /\ Class(kind) = "grpc" => response.form = "own"
                           /\ (kind.speaks = "web" /\ cfg.webCors /\ cfg.cors = "any") => response.cors = "*"
                           /\ (kind.speaks = "web" /\ cfg.webCors /\ kind.origin = "listed") =>
                                response.cors # "none"
    BY DEF GuardInv, RequestSound, RefusedInGrpc
  <2> QED BY DEF StatusSound, By
<1> QED BY <1>1, GuardsSound, PTL
=============================================================================
