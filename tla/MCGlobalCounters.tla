-------------------------- MODULE MCGlobalCounters --------------------------
(***************************************************************************)
(* Small fleets for GlobalCounters.                                        *)
(***************************************************************************)
EXTENDS GlobalCounters, FiniteSetsExt, TLC

\* Requests are interchangeable, and so are instances.
FleetSymmetry == Permutations(Req) \cup Permutations(Inst)

\* What the fleet published of `k` in epoch `e` and the one before.
Fleet(k, e) == MapThenSumSet(LAMBDA i : published[i][k][e], Inst)
UpTo(k, e) == Fleet(k, e) + Fleet(k, IF e > 0 THEN e - 1 ELSE 0)

\* The fleet's consumption an entry is gated by was read for its own window: it is
\* covered by what the fleet published in two adjacent epochs of that window up to
\* now, although the pass holds no lock from the claim to the read and the update,
\* and requests reset the entry to another window meanwhile (apply_estimates).
EstimateOfWindow ==
  \A i \in Inst, k \in Key :
    LET s == states[i][k]
    IN s.tracked => \E e \in 0 .. EpochAt(clock, s.window) : s.remote_estimate <= UpTo(k, e)
=============================================================================
