---------------------------- MODULE ClaimsCache ----------------------------
(***************************************************************************)
(* The cache of verified claims (auth/cache.rs) under concurrent requests  *)
(* of Auth::verify (auth/mod.rs).  The cache's size is kept in an atomic   *)
(* counter beside the map, so an insert, a lookup that drops an expired    *)
(* entry and a sweep each change the two in separate steps, and all of     *)
(* them act on clock readings taken when the request began.                *)
(***************************************************************************)
EXTENDS Naturals, FiniteSets

CONSTANTS
  Token,       \* tokens short enough to be cached (ClaimsCache::admits)
  Proc,        \* requests verified concurrently
  Exp, Nbf,    \* Exp[t], Nbf[t]: the token's claims; 0 when absent
  MaxEntries,  \* max_entries
  MaxTtl,      \* max_ttl_secs
  MaxMono,     \* bound: the monotonic clock stops here
  MaxUnix      \* bound: the wall clock's largest value

ASSUME CacheAssumption ==
  /\ IsFiniteSet(Token) /\ IsFiniteSet(Proc)
  /\ Exp \in [Token -> Nat] /\ Nbf \in [Token -> Nat]
  /\ MaxEntries \in Nat \ {0} /\ MaxTtl \in Nat \ {0}
  /\ MaxMono \in Nat /\ MaxUnix \in Nat

VARIABLES
  mono, unix,  \* the two clocks, in seconds
  entries,     \* token |-> [exp, deadline], for the tokens cached
  taken,       \* slots taken
  nextSweep,   \* next_sweep
  pc,          \* where each request is inside Auth::verify
  token, now,  \* its token and its reading of both clocks
  todo,        \* tokens its sweep has not visited yet
  freed,       \* tokens its sweep has dropped
  verified     \* history: the monotonic second of each token's last verification

local == <<pc, token, now, todo, freed>>
vars == <<mono, unix, entries, taken, nextSweep, local, verified>>

Cached == DOMAIN entries

\* Fault: only the token's own expiry ends an entry.
LiveByExp(entry, t) == t.unix < entry.exp

\* Entry::live.
Live(entry, t) == t.unix < entry.exp /\ t.mono < entry.deadline

\* The map with `t` stored, and with `t` dropped.
Stored(f, t, e) == [x \in DOMAIN f \cup {t} |-> IF x = t THEN e ELSE f[x]]
Dropped(f, t) == [x \in DOMAIN f \ {t} |-> f[x]]

Goto(p, label) == pc' = [pc EXCEPT ![p] = label]

Init ==
  /\ mono = 0 /\ unix \in 0..MaxUnix
  /\ entries = [t \in {} |-> [exp |-> 0, deadline |-> 0]]
  /\ taken = 0 /\ nextSweep = 0
  /\ pc = [p \in Proc |-> "idle"]
  /\ token \in [Proc -> Token]
  /\ now = [p \in Proc |-> [unix |-> 0, mono |-> 0]]
  /\ todo = [p \in Proc |-> {}] /\ freed = [p \in Proc |-> {}]
  /\ verified = [t \in Token |-> 0]

\* A second passes on the monotonic clock; the wall clock may be set to
\* anything, back included.
Tick ==
  /\ mono < MaxMono /\ mono' = mono + 1
  /\ unix' \in 0..MaxUnix
  /\ UNCHANGED <<entries, taken, nextSweep, local, verified>>

\* Auth::verify begins with a reading of both clocks.
Begin(p, t) ==
  /\ pc[p] = "idle" /\ Goto(p, "get")
  /\ token' = [token EXCEPT ![p] = t]
  /\ now' = [now EXCEPT ![p] = [unix |-> unix, mono |-> mono]]
  /\ UNCHANGED <<mono, unix, entries, taken, nextSweep, todo, freed, verified>>

\* `get`: a live entry answers the request.
GetHit(p) ==
  /\ pc[p] = "get" /\ token[p] \in Cached
  /\ Live(entries[token[p]], now[p])
  /\ Goto(p, "idle")
  /\ UNCHANGED <<mono, unix, entries, taken, nextSweep, token, now, todo, freed, verified>>

\* `get` lets go of the entry's lock before it removes an expired one.
GetMiss(p) ==
  /\ pc[p] = "get"
  /\ token[p] \in Cached => ~Live(entries[token[p]], now[p])
  /\ Goto(p, IF token[p] \in Cached THEN "purge" ELSE "verify")
  /\ UNCHANGED <<mono, unix, entries, taken, nextSweep, token, now, todo, freed, verified>>

\* `get`: remove_if, which looks at the entry again.
Purge(p) ==
  LET t == token[p]
  IN /\ pc[p] = "purge"
     /\ IF t \in Cached /\ ~Live(entries[t], now[p])
        THEN entries' = Dropped(entries, t) /\ Goto(p, "drop")
        ELSE entries' = entries /\ Goto(p, "verify")
     /\ UNCHANGED <<mono, unix, taken, nextSweep, token, now, todo, freed, verified>>

\* `get` gives the slot of the entry it removed back.
DropSlot(p) ==
  /\ pc[p] = "drop" /\ Goto(p, "verify")
  /\ taken' = taken - 1
  /\ UNCHANGED <<mono, unix, entries, nextSweep, token, now, todo, freed, verified>>

\* verify_builtin, the one await: it accepts the token, or rejects it or is
\* dropped with its request, and then nothing is stored.
Accept(p) ==
  /\ pc[p] = "verify" /\ Goto(p, "reserve")
  /\ verified' = [verified EXCEPT ![token[p]] = mono]
  /\ UNCHANGED <<mono, unix, entries, taken, nextSweep, token, now, todo, freed>>

Refuse(p) ==
  /\ pc[p] = "verify" /\ Goto(p, "idle")
  /\ UNCHANGED <<mono, unix, entries, taken, nextSweep, token, now, todo, freed, verified>>

\* `insert` stores nothing for a token that has expired or is not valid yet.
Storable(p) == Exp[token[p]] > now[p].unix /\ Nbf[token[p]] <= now[p].unix

\* Fault: one slot too many.
ReserveOver(p, full) ==
  /\ IF taken <= MaxEntries
     THEN taken' = taken + 1 /\ Goto(p, "store")
     ELSE taken' = taken /\ Goto(p, full)
  /\ UNCHANGED <<mono, unix, entries, nextSweep, token, now, todo, freed, verified>>

\* reserve, at one of its two call sites: a slot is taken unless all are, and
\* the request goes on to `full` when they are.
Reserve(p, full) ==
  /\ IF taken < MaxEntries
     THEN taken' = taken + 1 /\ Goto(p, "store")
     ELSE taken' = taken /\ Goto(p, full)
  /\ UNCHANGED <<mono, unix, entries, nextSweep, token, now, todo, freed, verified>>

InsertSkip(p) ==
  /\ pc[p] = "reserve" /\ ~Storable(p) /\ Goto(p, "idle")
  /\ UNCHANGED <<mono, unix, entries, taken, nextSweep, token, now, todo, freed, verified>>

InsertReserve(p) == pc[p] = "reserve" /\ Storable(p) /\ Reserve(p, "claim")
InsertRetry(p) == pc[p] = "again" /\ Reserve(p, "idle")

\* claim_sweep: the caller sweeps if its second is past the last sweep.
ClaimSweep(p) ==
  /\ pc[p] = "claim"
  /\ IF now[p].mono >= nextSweep
     THEN /\ nextSweep' = now[p].mono + 1
          /\ todo' = [todo EXCEPT ![p] = Token]
          /\ Goto(p, "sweep")
     ELSE UNCHANGED <<nextSweep, todo>> /\ Goto(p, "idle")
  /\ UNCHANGED <<mono, unix, entries, taken, token, now, freed, verified>>

\* sweep: `retain` visits one entry under its lock.
SweepEntry(p, t) ==
  /\ pc[p] = "sweep" /\ t \in todo[p]
  /\ todo' = [todo EXCEPT ![p] = @ \ {t}]
  /\ IF t \in Cached /\ ~Live(entries[t], now[p])
     THEN entries' = Dropped(entries, t) /\ freed' = [freed EXCEPT ![p] = @ \cup {t}]
     ELSE UNCHANGED <<entries, freed>>
  /\ UNCHANGED <<mono, unix, taken, nextSweep, pc, token, now, verified>>

\* sweep gives all the slots it freed back at once.
SweepEnd(p) ==
  /\ pc[p] = "sweep" /\ todo[p] = {} /\ Goto(p, "again")
  /\ taken' = taken - Cardinality(freed[p])
  /\ freed' = [freed EXCEPT ![p] = {}]
  /\ UNCHANGED <<mono, unix, entries, nextSweep, token, now, todo, verified>>

\* `insert` stores the entry; one it replaces gives a slot back.
Store(p) ==
  LET t == token[p]
  IN /\ pc[p] = "store"
     /\ entries' = Stored(entries, t, [exp |-> Exp[t], deadline |-> now[p].mono + MaxTtl])
     /\ Goto(p, IF t \in Cached THEN "give" ELSE "idle")
     /\ UNCHANGED <<mono, unix, taken, nextSweep, token, now, todo, freed, verified>>

GiveBack(p) ==
  /\ pc[p] = "give" /\ Goto(p, "idle")
  /\ taken' = taken - 1
  /\ UNCHANGED <<mono, unix, entries, nextSweep, token, now, todo, freed, verified>>

Next ==
  \/ Tick
  \/ \E p \in Proc :
       \/ \E t \in Token : Begin(p, t) \/ SweepEntry(p, t)
       \/ GetHit(p) \/ GetMiss(p) \/ Purge(p) \/ DropSlot(p)
       \/ Accept(p) \/ Refuse(p) \/ InsertSkip(p) \/ InsertReserve(p)
       \/ ClaimSweep(p) \/ SweepEnd(p) \/ InsertRetry(p) \/ Store(p) \/ GiveBack(p)

Spec == Init /\ [][Next]_vars

-----------------------------------------------------------------------------
Labels == {"idle", "get", "purge", "drop", "verify", "reserve", "claim", "sweep",
           "again", "store", "give"}

\* Types: the slot counter, a usize in the code, never goes below zero, and a
\* request is at one of the steps of Auth::verify.
TypeOK ==
  /\ mono \in Nat /\ unix \in Nat /\ taken \in Nat /\ nextSweep \in Nat
  /\ Cached \subseteq Token
  /\ entries \in [Cached -> [exp : Nat, deadline : Nat]]
  /\ pc \in [Proc -> Labels]
  /\ token \in [Proc -> Token] /\ now \in [Proc -> [unix : Nat, mono : Nat]]
  /\ todo \in [Proc -> SUBSET Token] /\ freed \in [Proc -> SUBSET Token]
  /\ verified \in [Token -> Nat]

\* Besides the entries, a slot is held by each request that has reserved one
\* or has one to give back, and for each entry a sweep has dropped and not yet
\* accounted for.
Pledged == {p \in Proc : pc[p] \in {"drop", "store", "give"}}
Swept == {x \in Proc \X Token : x[2] \in freed[x[1]]}

\* The counter and the map agree up to the steps still to come: no slot is
\* leaked, none is given back twice (which would wrap the counter), and
\* inserts racing with one another, with lookups and with sweeps never take
\* the map past max_entries.
SlotsAccounted ==
  /\ taken = Cardinality(Cached) + Cardinality(Pledged) + Cardinality(Swept)
  /\ taken <= MaxEntries

\* A cached answer is no older than max_ttl_secs on the monotonic clock and
\* never outlives the token's exp, whatever is done to the wall clock and
\* however late the claims were stored.
CachedAnswerFresh ==
  [][\A p \in Proc : GetHit(p) =>
       /\ now[p].mono < verified[token[p]] + MaxTtl
       /\ now[p].unix < Exp[token[p]]]_vars
=============================================================================
