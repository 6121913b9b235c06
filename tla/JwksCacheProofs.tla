--------------------------- MODULE JwksCacheProofs ---------------------------
(***************************************************************************)
(* A removed key stops verifying tokens in time, and fetches stay spaced,  *)
(* for any number of keys and concurrent lookups, any outage and any       *)
(* interleaving of fetches, failures and dropped requests.                 *)
(***************************************************************************)
EXTENDS JwksCache, TLAPS

\* The recorded times lie in the past, and a set is only ever loaded by a
\* refresh that noted its time.
PastTimes ==
  /\ \A k \in Kid : leftAt[k] <= clock /\ usedAt[k] <= clock
  /\ upSince <= clock
  /\ last # Never => last <= clock
  /\ fetched # Never => fetched <= clock /\ last # Never
  /\ keys # {} => fetched # Never

\* The refresh slot belongs to the one lookup that fetches, whose time is the
\* one noted in last_refresh and whose timeout has not passed.
SlotOwned ==
  \A p \in Proc :
    /\ pc[p] \in {"fetch", "decode"} <=> slot = p
    /\ slot = p => last = started[p] /\ started[p] <= clock /\ clock <= started[p] + Timeout

\* A removed key that an answer under way, or the installed set, still names
\* left after that fetch had begun.
AnswersCurrent ==
  /\ \A p \in Proc : pc[p] = "decode" =>
       \A k \in answer[p] \ published : leftAt[k] >= started[p]
  /\ fetched # Never => \A k \in keys \ published : leftAt[k] + Timeout >= fetched

\* While nobody holds the slot and no fetch was abandoned, the last fetch has
\* installed its set, or met an outage that lasts or ended since.
LastSettled ==
  ~abandoned /\ slot = NoProc /\ last # Never =>
    \/ fetched # Never /\ fetched >= last
    \/ ~up
    \/ upSince >= last

\* A lookup past its refresh answers from a fresh set, or there is an outage
\* or was one within the last max_age.
RereadSettled ==
  ~abandoned =>
    \A p \in Proc : pc[p] = "reread" => Fresh \/ ~up \/ clock < upSince + MaxAge

\* The inductive invariant.
JwksInv ==
  /\ TypeOK /\ PastTimes /\ SlotOwned /\ AnswersCurrent
  /\ LastSettled /\ RereadSettled /\ RevokedKeyRetired

-----------------------------------------------------------------------------
\* Steps of time and of the provider.

\* Time moves no fetch past its timeout, and waits for a lookup that is about
\* to read the set.
LEMMA TickStep ==
  ASSUME JwksInv, Tick
  PROVE  JwksInv'
<1> USE JwksAssumption DEF JwksInv, Tick, provider, cache, lookups, history, TypeOK, Times
<1>1. TypeOK' /\ PastTimes'
  BY DEF PastTimes
<1>2. SlotOwned'
  BY DEF SlotOwned
<1>3. AnswersCurrent' /\ LastSettled'
  BY DEF AnswersCurrent, LastSettled
<1>4. RereadSettled'
  BY DEF RereadSettled
<1>5. RevokedKeyRetired'
  BY DEF RevokedKeyRetired, RetiredWithin
<1> QED
  BY <1>1, <1>2, <1>3, <1>4, <1>5 DEF JwksInv

\* A key leaves now, after every fetch that may still name it began, or comes
\* back; and an outage starts, or ends now.
LEMMA ProviderStep ==
  ASSUME JwksInv, GoDown \/ ComeUp \/ \E k \in Kid : Remove(k) \/ Publish(k)
  PROVE  JwksInv'
<1> USE JwksAssumption DEF JwksInv, cache, lookups, history, TypeOK, Times
<1>1. CASE GoDown
  BY <1>1 DEF GoDown, PastTimes, SlotOwned, AnswersCurrent, LastSettled, RereadSettled, Fresh,
              Elapsed, RevokedKeyRetired, RetiredWithin
<1>2. CASE ComeUp
  <2> USE <1>2 DEF ComeUp
  <2>1. TypeOK' /\ PastTimes' /\ SlotOwned' /\ AnswersCurrent'
    BY DEF PastTimes, SlotOwned, AnswersCurrent
  <2>2. LastSettled' /\ RereadSettled'
    BY DEF LastSettled, RereadSettled, PastTimes, Fresh, Elapsed
  <2>3. RevokedKeyRetired'
    BY DEF RevokedKeyRetired, RetiredWithin, PastTimes
  <2> QED
    BY <2>1, <2>2, <2>3 DEF JwksInv
<1>3. ASSUME NEW k \in Kid, Remove(k) PROVE JwksInv'
  <2> USE <1>3 DEF Remove
  <2>1. TypeOK' /\ PastTimes' /\ SlotOwned'
    BY DEF PastTimes, SlotOwned
  <2>2. AnswersCurrent'
    BY DEF AnswersCurrent, PastTimes, SlotOwned
  <2>3. LastSettled' /\ RereadSettled'
    BY DEF LastSettled, RereadSettled, Fresh, Elapsed
  <2>4. RevokedKeyRetired'
    BY DEF RevokedKeyRetired, RetiredWithin, PastTimes
  <2> QED
    BY <2>1, <2>2, <2>3, <2>4 DEF JwksInv
<1>4. ASSUME NEW k \in Kid, Publish(k) PROVE JwksInv'
  BY <1>4 DEF Publish, PastTimes, SlotOwned, AnswersCurrent, LastSettled, RereadSettled, Fresh,
              Elapsed, RevokedKeyRetired, RetiredWithin
<1> QED
  BY <1>1, <1>2, <1>3, <1>4

-----------------------------------------------------------------------------
\* Steps of a lookup.

\* A hit answers from a fresh set: a removed key it names left less than
\* max_age and a fetch ago.
LEMMA LookupStep ==
  ASSUME JwksInv, NEW p \in Proc, NEW k \in Kid, LookupHit(p, k) \/ LookupMiss(p, k)
  PROVE  JwksInv'
<1> USE JwksAssumption DEF JwksInv, provider, cache, lookups, history, TypeOK, Times
<1>1. CASE LookupHit(p, k)
  <2> USE <1>1 DEF LookupHit, Use
  <2>1. TypeOK' /\ PastTimes' /\ SlotOwned' /\ AnswersCurrent'
    BY DEF PastTimes, SlotOwned, AnswersCurrent
  <2>2. LastSettled' /\ RereadSettled'
    BY DEF LastSettled, RereadSettled, Fresh, Elapsed
  <2>3. k \in Kid \ published => clock < leftAt[k] + Timeout + MaxAge
    BY DEF AnswersCurrent, PastTimes, Fresh, Elapsed
  <2>4. RevokedKeyRetired'
    BY <2>3 DEF RevokedKeyRetired, RetiredWithin
  <2> QED
    BY <2>1, <2>2, <2>4 DEF JwksInv
<1>2. CASE LookupMiss(p, k)
  <2> USE <1>2 DEF LookupMiss
  <2>1. TypeOK' /\ PastTimes' /\ SlotOwned' /\ AnswersCurrent'
    BY DEF PastTimes, SlotOwned, AnswersCurrent
  <2>2. LastSettled' /\ RereadSettled' /\ RevokedKeyRetired'
    BY DEF LastSettled, RereadSettled, Fresh, Elapsed, RevokedKeyRetired, RetiredWithin
  <2> QED
    BY <2>1, <2>2 DEF JwksInv
<1> QED
  BY <1>1, <1>2

\* The spacing sends a lookup on to the set as it is: its last fetch began less
\* than min_refresh_interval <= max_age ago, and LastSettled says how it ended.
LEMMA AcquireStep ==
  ASSUME JwksInv, NEW p \in Proc, Acquire(p)
  PROVE  JwksInv'
<1> USE JwksAssumption DEF JwksInv, Acquire, provider, history, TypeOK, Times
<1>1. TypeOK' /\ PastTimes'
  BY DEF PastTimes
<1>2. SlotOwned'
  BY DEF SlotOwned, PastTimes
<1>3. AnswersCurrent' /\ LastSettled'
  BY DEF AnswersCurrent, LastSettled
<1>4. RereadSettled'
  BY DEF RereadSettled, LastSettled, PastTimes, Throttled, Fresh, Elapsed
<1>5. RevokedKeyRetired'
  BY DEF RevokedKeyRetired, RetiredWithin
<1> QED
  BY <1>1, <1>2, <1>3, <1>4, <1>5 DEF JwksInv

\* An answer, its set installed, or the failure of the fetch.
LEMMA FetchStep ==
  ASSUME JwksInv, NEW p \in Proc, Respond(p) \/ Install(p) \/ FetchFail(p)
  PROVE  JwksInv'
<1> USE JwksAssumption DEF JwksInv, provider, cache, history, TypeOK, Times
<1>1. CASE Respond(p)
  <2> USE <1>1 DEF Respond
  <2>1. TypeOK' /\ PastTimes' /\ SlotOwned' /\ AnswersCurrent'
    BY DEF PastTimes, SlotOwned, AnswersCurrent
  <2>2. LastSettled' /\ RereadSettled' /\ RevokedKeyRetired'
    BY DEF LastSettled, RereadSettled, Fresh, Elapsed, RevokedKeyRetired, RetiredWithin
  <2> QED
    BY <2>1, <2>2 DEF JwksInv
<1>2. CASE Install(p)
  <2> USE <1>2 DEF Install
  <2>1. TypeOK' /\ PastTimes' /\ SlotOwned'
    BY DEF PastTimes, SlotOwned
  <2>2. AnswersCurrent'
    BY DEF AnswersCurrent, SlotOwned
  <2>3. LastSettled' /\ RereadSettled'
    BY DEF LastSettled, RereadSettled, PastTimes, Fresh, Elapsed
  <2>4. RevokedKeyRetired'
    BY DEF RevokedKeyRetired, RetiredWithin
  <2> QED
    BY <2>1, <2>2, <2>3, <2>4 DEF JwksInv
<1>3. CASE FetchFail(p)
  <2> USE <1>3 DEF FetchFail
  <2>1. TypeOK' /\ PastTimes' /\ SlotOwned' /\ AnswersCurrent'
    BY DEF PastTimes, SlotOwned, AnswersCurrent
  <2>2. LastSettled' /\ RereadSettled' /\ RevokedKeyRetired'
    BY DEF LastSettled, RereadSettled, Fresh, Elapsed, RevokedKeyRetired, RetiredWithin
  <2> QED
    BY <2>1, <2>2 DEF JwksInv
<1> QED
  BY <1>1, <1>2, <1>3

\* A lookup answers after its refresh, or is dropped.
LEMMA EndStep ==
  ASSUME JwksInv, NEW p \in Proc, Reread(p) \/ Cancel(p)
  PROVE  JwksInv'
<1> USE JwksAssumption DEF JwksInv, provider, cache, history, TypeOK, Times
<1>1. CASE Reread(p)
  <2> USE <1>1 DEF Reread, Use
  <2>1. TypeOK' /\ PastTimes' /\ SlotOwned' /\ AnswersCurrent'
    BY DEF PastTimes, SlotOwned, AnswersCurrent
  <2>2. LastSettled' /\ RereadSettled'
    BY DEF LastSettled, RereadSettled, Fresh, Elapsed
  <2>3. RevokedKeyRetired'
    <3>1. ~abandoned /\ up /\ kid[p] \in keys \ published =>
            \/ clock < leftAt[kid[p]] + Timeout + MaxAge
            \/ clock < upSince + MaxAge
      BY DEF RereadSettled, AnswersCurrent, PastTimes, Fresh, Elapsed
    <3> QED
      BY <3>1 DEF RevokedKeyRetired, RetiredWithin
  <2> QED
    BY <2>1, <2>2, <2>3 DEF JwksInv
<1>2. CASE Cancel(p)
  <2> USE <1>2 DEF Cancel
  <2>1. TypeOK' /\ PastTimes' /\ SlotOwned' /\ AnswersCurrent'
    BY DEF PastTimes, SlotOwned, AnswersCurrent
  <2>2. LastSettled' /\ RereadSettled' /\ RevokedKeyRetired'
    BY DEF LastSettled, SlotOwned, RereadSettled, Fresh, Elapsed, RevokedKeyRetired, RetiredWithin
  <2> QED
    BY <2>1, <2>2 DEF JwksInv
<1> QED
  BY <1>1, <1>2

-----------------------------------------------------------------------------
\* The cache starts in the invariant.
LEMMA InvInit ==
  ASSUME Init
  PROVE  JwksInv
<1> USE JwksAssumption DEF Init
<1>1. TypeOK
  BY DEF TypeOK, Times
<1>2. PastTimes /\ SlotOwned
  BY DEF PastTimes, SlotOwned
<1>3. AnswersCurrent /\ LastSettled /\ RereadSettled
  BY DEF AnswersCurrent, LastSettled, RereadSettled
<1>4. RevokedKeyRetired
  BY DEF RevokedKeyRetired, RetiredWithin
<1> QED
  BY <1>1, <1>2, <1>3, <1>4 DEF JwksInv

\* Every step of a lookup, of the provider or of time keeps the invariant.
LEMMA InvStep ==
  ASSUME JwksInv, [Next]_vars
  PROVE  JwksInv'
<1>1. CASE UNCHANGED vars
  BY <1>1 DEF vars, JwksInv, TypeOK, PastTimes, SlotOwned, AnswersCurrent, LastSettled,
              RereadSettled, Fresh, Elapsed, RevokedKeyRetired, RetiredWithin
<1>2. CASE Next
  BY <1>2, TickStep, ProviderStep, LookupStep, AcquireStep, FetchStep, EndStep DEF Next
<1> QED
  BY <1>1, <1>2

\* The invariant holds throughout.
LEMMA InvHolds == Spec => []JwksInv
  BY InvInit, InvStep, PTL DEF Spec

\* The key cache keeps its types: one lookup at most holds the refresh slot.
THEOREM TypeCorrect == Spec => []TypeOK
<1>1. JwksInv => TypeOK
  BY DEF JwksInv
<1> QED
  BY <1>1, InvHolds, PTL

\* key_for never returns a removed key once max_age and a fetch have passed
\* since it left the JWKS, or since the provider could be reached again, as
\* long as no request went away during its fetch.
THEOREM RevocationHonoured == Spec => []RevokedKeyRetired
<1>1. JwksInv => RevokedKeyRetired
  BY DEF JwksInv
<1> QED
  BY <1>1, InvHolds, PTL

\* refresh begins no fetch of a loaded set within min_refresh_interval of the
\* one before, dropped or failed fetches included.
THEOREM FetchesSpaced == Spec => RefreshSpaced
<1>1. ASSUME JwksInv, [Next]_vars
      PROVE  [last' # last /\ fetched # Never => last' >= last + MinRefresh]_last
  <2>1. last' # last => \E p \in Proc : Acquire(p)
    BY <1>1 DEF Next, vars, Tick, GoDown, ComeUp, Remove, Publish, LookupHit, LookupMiss, Respond,
                Install, FetchFail, Reread, Cancel, cache
  <2>2. ASSUME NEW p \in Proc, Acquire(p), last' # last, fetched # Never
        PROVE  last' >= last + MinRefresh
    BY <1>1, <2>2, JwksAssumption DEF Acquire, Throttled, Elapsed, JwksInv, TypeOK, Times, PastTimes
  <2> QED
    BY <2>1, <2>2
<1> QED
  BY <1>1, InvHolds, PTL DEF Spec, RefreshSpaced
=============================================================================
