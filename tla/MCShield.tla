------------------------------ MODULE MCShield ------------------------------
(***************************************************************************)
(* What one instance of the shield keeps, part by part in one run: its     *)
(* rate-limit store, or the limits it knows from the limit service.        *)
(***************************************************************************)
EXTENDS GcraStore, LimitService, TLC

\* A key that moves between a slow tier without bursts and a faster one.
TwoTiers == {FromProfile(1, 3, 1), FromProfile(2, 3, 2)}

VARIABLE part
mcVars == <<part, storeVars, vars>>

MCInit == part \in {"store", "limits"} /\ StoreInit /\ Init
StoreStep == part = "store" /\ StoreNext /\ UNCHANGED <<part, vars>>
LimitStep == part = "limits" /\ Next /\ UNCHANGED <<part, storeVars>>
MCNext == StoreStep \/ LimitStep
MCSpec == MCInit /\ [][MCNext]_mcVars

\* Keys, requests and tasks of the limit service are interchangeable: the model never
\* tells two of a kind apart.
Sym == Permutations(Key) \cup Permutations(Proc) \cup Permutations(Task)

\* Of the limits: requests overlap on two keys, or one at a time meets all of them.
\* The store's tiers are of no account there.
Focus ==
  part = "limits" =>
    /\ tier = [b \in Bucket |-> FromProfile(1, 3, 1)]
    /\ \/ Cardinality({p \in Proc : pc[p] # "idle"}) <= 1
       \/ Cardinality((Cached \cup inflight \cup {key[p] : p \in Proc}) \ {NoKey}) <= 2
=============================================================================
