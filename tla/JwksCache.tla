----------------------------- MODULE JwksCache -----------------------------
(***************************************************************************)
(* The key cache of auth/jwks.rs: concurrent lookups (key_for) that share  *)
(* one refresh slot, an async mutex held across the fetch.  The provider   *)
(* rotates its keys and may be unreachable, and a lookup is dropped at any *)
(* of its awaits when its request goes away.                               *)
(***************************************************************************)
EXTENDS Naturals

CONSTANTS
  Kid,         \* key ids tokens name
  Proc,        \* lookups under way at once
  NoProc,      \* nobody holds the refresh slot
  Never,       \* no time: None
  MaxAge,      \* max_age
  MinRefresh,  \* min_refresh_interval
  Timeout,     \* JWKS_HTTP_TIMEOUT
  MaxTtl,      \* auth.jwt.cache.max_ttl_secs
  Outages,     \* may the provider be unreachable
  MaxClock     \* bound: the clock stops here

ASSUME JwksAssumption ==
  /\ NoProc \notin Proc /\ Never \notin Nat
  /\ MinRefresh \in Nat \ {0} /\ Timeout \in Nat /\ MaxTtl \in Nat /\ MaxClock \in Nat
  \* ConfigVerifier::build refuses a shorter age.
  /\ MaxAge \in Nat /\ MaxAge >= MinRefresh
  /\ Outages \in BOOLEAN

VARIABLES
  clock,      \* monotonic time
  published,  \* the keys the provider publishes
  up,         \* whether it answers
  keys,       \* set.keys: the kids of the last successful fetch
  fetched,    \* set.fetched
  last,       \* last_refresh
  slot,       \* who holds the lock on last_refresh
  pc, kid,    \* where each lookup is, and the key it looks for
  started,    \* when its fetch began
  answer,     \* what its fetch was answered
  leftAt,     \* history: when each key left the JWKS
  upSince,    \* history: when the provider last became reachable
  usedAt,     \* history: when key_for last returned each key
  abandoned   \* history: a request went away during its fetch

vars == <<clock, published, up, keys, fetched, last, slot, pc, kid, started, answer,
          leftAt, upSince, usedAt, abandoned>>
lookups == <<slot, pc, kid, started, answer>>
cache == <<keys, fetched, last>>
provider == <<published, up, leftAt, upSince>>
history == <<usedAt, abandoned>>

Init ==
  /\ clock = 0 /\ published = Kid /\ up = TRUE
  /\ keys = {} /\ fetched = Never /\ last = Never /\ slot = NoProc
  /\ pc = [p \in Proc |-> "idle"] /\ kid \in [Proc -> Kid]
  /\ started = [p \in Proc |-> 0] /\ answer = [p \in Proc |-> {}]
  /\ leftAt = [k \in Kid |-> 0] /\ upSince = 0 /\ usedAt = [k \in Kid |-> 0]
  /\ abandoned = FALSE

\* Time passes.  A fetch is over by its timeout, and a lookup that has done its
\* refresh reads the set without a delay on the scale of this clock.
Tick ==
  /\ clock < MaxClock /\ clock' = clock + 1
  /\ \A p \in Proc : /\ pc[p] # "reread"
                     /\ pc[p] \in {"fetch", "decode"} => clock < started[p] + Timeout
  /\ UNCHANGED <<provider, cache, lookups, history>>

\* The provider removes a key, or publishes one again.
Remove(k) ==
  /\ k \in published
  /\ published' = published \ {k} /\ leftAt' = [leftAt EXCEPT ![k] = clock]
  /\ UNCHANGED <<clock, up, upSince, cache, lookups, history>>

Publish(k) ==
  /\ k \notin published /\ published' = published \cup {k}
  /\ UNCHANGED <<clock, up, leftAt, upSince, cache, lookups, history>>

GoDown ==
  /\ Outages /\ up /\ up' = FALSE
  /\ UNCHANGED <<clock, published, leftAt, upSince, cache, lookups, history>>

ComeUp ==
  /\ ~up /\ up' = TRUE /\ upSince' = clock
  /\ UNCHANGED <<clock, published, leftAt, cache, lookups, history>>

Use(k) == usedAt' = [usedAt EXCEPT ![k] = clock] /\ UNCHANGED abandoned
Elapsed(since) == clock - since
\* Fault: a loaded set never ages.
FreshForever == fetched # Never

Fresh == fetched # Never /\ Elapsed(fetched) < MaxAge

\* key_for: a known key of a fresh set is returned at once; otherwise the
\* lookup asks for a refresh.
LookupHit(p, k) ==
  /\ pc[p] = "idle" /\ Fresh /\ k \in keys
  /\ Use(k)
  /\ UNCHANGED <<clock, provider, cache, lookups>>

LookupMiss(p, k) ==
  /\ pc[p] = "idle" /\ ~(Fresh /\ k \in keys)
  /\ pc' = [pc EXCEPT ![p] = "wait"] /\ kid' = [kid EXCEPT ![p] = k]
  /\ UNCHANGED <<clock, provider, cache, slot, started, answer, history>>

\* Fault: the spacing holds only until the first set is loaded.
ThrottledFirst == last # Never /\ fetched = Never /\ Elapsed(last) < MinRefresh

\* refresh: with the slot, a loaded set refreshed too recently is left alone;
\* otherwise the time is noted and the fetch begins.
Throttled ==
  last # Never /\ fetched # Never /\ Elapsed(last) < MinRefresh

Acquire(p) ==
  /\ pc[p] = "wait" /\ slot = NoProc
  /\ IF Throttled
     THEN pc' = [pc EXCEPT ![p] = "reread"] /\ UNCHANGED <<slot, last, started>>
     ELSE /\ slot' = p /\ last' = clock
          /\ started' = [started EXCEPT ![p] = clock]
          /\ pc' = [pc EXCEPT ![p] = "fetch"]
  /\ UNCHANGED <<clock, provider, keys, fetched, kid, answer, history>>

\* The provider answers with the keys it publishes now; the answer is under
\* way until it is decoded.
Respond(p) ==
  /\ pc[p] = "fetch" /\ up
  /\ answer' = [answer EXCEPT ![p] = published]
  /\ pc' = [pc EXCEPT ![p] = "decode"]
  /\ UNCHANGED <<clock, provider, cache, slot, kid, started, history>>

\* refresh: the new set replaces the old one, then the slot is released.
Install(p) ==
  /\ pc[p] = "decode"
  /\ keys' = answer[p] /\ fetched' = clock
  /\ slot' = NoProc /\ pc' = [pc EXCEPT ![p] = "reread"]
  /\ answer' = [answer EXCEPT ![p] = {}] /\ started' = [started EXCEPT ![p] = 0]
  /\ UNCHANGED <<clock, provider, last, kid, history>>

\* refresh fails: the set stays as it was.
FetchFail(p) ==
  /\ pc[p] \in {"fetch", "decode"} /\ ~up
  /\ slot' = NoProc /\ pc' = [pc EXCEPT ![p] = "reread"]
  /\ answer' = [answer EXCEPT ![p] = {}] /\ started' = [started EXCEPT ![p] = 0]
  /\ UNCHANGED <<clock, provider, cache, kid, history>>

\* key_for answers from the current set, whatever the refresh did.
Reread(p) ==
  /\ pc[p] = "reread" /\ pc' = [pc EXCEPT ![p] = "idle"]
  /\ IF kid[p] \in keys THEN Use(kid[p]) ELSE UNCHANGED history
  /\ UNCHANGED <<clock, provider, cache, slot, kid, started, answer>>

\* Fault: a dropped lookup leaves the slot taken.
CancelKeepsSlot(p) ==
  /\ pc[p] \in {"wait", "fetch", "decode"}
  /\ pc' = [pc EXCEPT ![p] = "idle"]
  /\ answer' = [answer EXCEPT ![p] = {}] /\ started' = [started EXCEPT ![p] = 0]
  /\ UNCHANGED <<clock, provider, cache, slot, kid, history>>

\* The request goes away: its lookup is dropped where it waits, and a slot it
\* holds is released; last_refresh keeps the time of the fetch it began.
Cancel(p) ==
  /\ pc[p] \in {"wait", "fetch", "decode"}
  /\ slot' = IF slot = p THEN NoProc ELSE slot
  /\ abandoned' = (abandoned \/ slot = p)
  /\ pc' = [pc EXCEPT ![p] = "idle"]
  /\ answer' = [answer EXCEPT ![p] = {}] /\ started' = [started EXCEPT ![p] = 0]
  /\ UNCHANGED <<clock, provider, cache, kid, usedAt>>

Next ==
  \/ Tick \/ GoDown \/ ComeUp
  \/ \E k \in Kid : Remove(k) \/ Publish(k)
  \/ \E p \in Proc :
       \/ \E k \in Kid : LookupHit(p, k) \/ LookupMiss(p, k)
       \/ Acquire(p) \/ Respond(p) \/ Install(p) \/ FetchFail(p) \/ Reread(p) \/ Cancel(p)

Spec == Init /\ [][Next]_vars

\* A fetch ends, by its answer or its timeout, and a task that can run is run.
\* tokio's mutex hands the slot to its waiters in turn, so one that waits is
\* not passed over for ever.
FairSpec ==
  /\ Spec
  /\ \A p \in Proc : /\ SF_vars(Acquire(p))
                     /\ WF_vars(Respond(p) \/ Install(p) \/ FetchFail(p) \/ Reread(p))

-----------------------------------------------------------------------------
Times == Nat \cup {Never}

\* Types: at most one lookup holds the refresh slot, and the recorded times are
\* times of the clock.
TypeOK ==
  /\ clock \in Nat /\ published \subseteq Kid /\ up \in BOOLEAN
  /\ keys \subseteq Kid /\ fetched \in Times /\ last \in Times
  /\ slot \in Proc \cup {NoProc}
  /\ pc \in [Proc -> {"idle", "wait", "fetch", "decode", "reread"}]
  /\ kid \in [Proc -> Kid] /\ started \in [Proc -> Nat] /\ answer \in [Proc -> SUBSET Kid]
  /\ leftAt \in [Kid -> Nat] /\ upSince \in Nat /\ usedAt \in [Kid -> Nat] /\ abandoned \in BOOLEAN

\* A key that has left the JWKS was last returned less than `d` after it left,
\* or after the provider last became reachable, when that is later.
RetiredWithin(d) ==
  up => \A k \in Kid \ published :
          usedAt[k] < (IF leftAt[k] >= upSince THEN leftAt[k] ELSE upSince) + d

\* While no fetch is abandoned, a removed key stops verifying tokens once the
\* cached set has aged out, allowing for a fetch that was in flight when it
\* was removed: concurrent lookups never answer from an aged set.
RevokedKeyRetired == ~abandoned => RetiredWithin(MaxAge + Timeout)

\* The README's bound on a token whose signing key leaves the JWKS: it stops
\* passing within jwks_max_age_secs + max_ttl_secs (and a fetch in flight).
RevocationBound == RetiredWithin(MaxAge + MaxTtl + Timeout)

\* Once a set is loaded, fetches begin at least min_refresh_interval apart,
\* however many lookups name unknown keys or are dropped half-way.
RefreshSpaced ==
  [][last' # last /\ fetched # Never => last' >= last + MinRefresh]_last

\* Every lookup that waits for the refresh slot gets past it: no fetch, failure
\* or dropped request leaves the slot taken.
NoLookupStuck == \A p \in Proc : pc[p] = "wait" ~> pc[p] # "wait"
=============================================================================
