----------------------------- MODULE IdleTimer -----------------------------
(***************************************************************************)
(* When an idle connection closes (serve/idle.rs): requests count          *)
(* themselves in and out of an atomic counter and signal the edges to and  *)
(* from zero through a tokio Notify, one step each; the connection's task  *)
(* (idle_for) measures the quiet time between them.                        *)
(***************************************************************************)
EXTENDS Naturals, FiniteSets

CONSTANTS
  Req,         \* requests in flight at once
  Timeout,     \* idle_timeout
  MaxCarried   \* bound: requests the connection carries

\* What the constants are.
ASSUME IdleAssumption == IsFiniteSet(Req) /\ Timeout \in Nat \ {0} /\ MaxCarried \in Nat

VARIABLES
  active,   \* Activity::active
  permit,   \* the permit notify_one keeps
  req,      \* where each request is
  carried,  \* requests carried so far
  task,     \* where idle_for is
  left,     \* what is left of its sleep
  disturbed \* history: a request started after idle_for found none and before its sleep ended

idleVars == <<active, permit, req, carried, task, left, disturbed>>

IdleInit ==
  /\ active = 0 /\ permit = FALSE /\ carried = 0
  /\ req = [r \in Req |-> "out"]
  /\ task = "check" /\ left = 0 /\ disturbed = FALSE

Runnable == task \in {"check", "arming", "parking"} \/ permit \/ (task = "armed" /\ left = 0)

\* Time passes.  A task that can run is polled, and a request between its
\* count and its signal goes on, before it does.
Tick ==
  /\ task # "done" /\ ~Runnable /\ \A r \in Req : req[r] \in {"out", "in"}
  /\ left' = IF left > 0 THEN left - 1 ELSE 0
  /\ UNCHANGED <<active, permit, req, carried, task, disturbed>>

\* Activity::enter counts, then signals the first request.
Enter(r) ==
  /\ task # "done" /\ req[r] = "out" /\ carried < MaxCarried
  /\ carried' = carried + 1 /\ active' = active + 1
  /\ req' = [req EXCEPT ![r] = IF active = 0 THEN "entered" ELSE "in"]
  /\ disturbed' = (disturbed \/ task = "arming" \/ (task = "armed" /\ left > 0))
  /\ UNCHANGED <<permit, task, left>>

\* Fault: only the end of the last request is signalled.
EnterSignalLost(r) ==
  /\ req[r] = "entered" /\ req' = [req EXCEPT ![r] = "in"]
  /\ UNCHANGED <<active, permit, carried, task, left, disturbed>>

EnterSignal(r) ==
  /\ req[r] = "entered" /\ permit' = TRUE /\ req' = [req EXCEPT ![r] = "in"]
  /\ UNCHANGED <<active, carried, task, left, disturbed>>

\* InFlight drops, with the response's body or with a request cut short:
\* it counts, then signals the last request.
Leave(r) ==
  /\ task # "done" /\ req[r] = "in"
  /\ active' = active - 1
  /\ req' = [req EXCEPT ![r] = IF active = 1 THEN "left" ELSE "out"]
  /\ UNCHANGED <<permit, carried, task, left, disturbed>>

\* Fault: the signal keeps no permit and
\* reaches only a task that already waits (notify_waiters).
LeaveSignalWaiters(r) ==
  /\ req[r] = "left" /\ req' = [req EXCEPT ![r] = "out"]
  /\ permit' = (permit \/ task = "parked")
  /\ UNCHANGED <<active, carried, task, left, disturbed>>

LeaveSignal(r) ==
  /\ req[r] = "left" /\ permit' = TRUE /\ req' = [req EXCEPT ![r] = "out"]
  /\ UNCHANGED <<active, carried, task, left, disturbed>>

\* idle_for loads the count, and a step later sleeps and listens, or only
\* listens.
Check ==
  /\ task = "check"
  /\ task' = IF active = 0 THEN "arming" ELSE "parking"
  /\ disturbed' = FALSE
  /\ UNCHANGED <<active, permit, req, carried, left>>

Await ==
  /\ \/ task = "arming" /\ task' = "armed" /\ left' = Timeout
     \/ task = "parking" /\ task' = "parked" /\ left' = left
  /\ UNCHANGED <<active, permit, req, carried, disturbed>>

\* `notified` takes the permit; the loop measures again.
Notified ==
  /\ task \in {"armed", "parked"} /\ permit
  /\ permit' = FALSE /\ task' = "check" /\ left' = 0
  /\ UNCHANGED <<active, req, carried, disturbed>>

\* The sleep is over; with a permit there too, `select` may still take it.
Expire ==
  /\ task = "armed" /\ left = 0
  /\ task' = IF active = 0 THEN "done" ELSE "check"
  /\ UNCHANGED <<active, permit, req, carried, left, disturbed>>

IdleNext ==
  \/ Tick \/ Check \/ Await \/ Notified \/ Expire
  \/ \E r \in Req : Enter(r) \/ EnterSignal(r) \/ Leave(r) \/ LeaveSignal(r)

IdleSpec == IdleInit /\ [][IdleNext]_idleVars

\* Time passes, tasks that can run do, and requests end.
FairIdle ==
  /\ IdleSpec /\ WF_idleVars(Tick) /\ WF_idleVars(Check \/ Await) /\ WF_idleVars(Notified \/ Expire)
  /\ \A r \in Req : WF_idleVars(EnterSignal(r) \/ Leave(r) \/ LeaveSignal(r))

-----------------------------------------------------------------------------
\* Types: the count of requests in flight never wraps below zero.
IdleTypeOK ==
  /\ active \in Nat /\ permit \in BOOLEAN /\ carried \in Nat
  /\ req \in [Req -> {"out", "entered", "in", "left"}]
  /\ task \in {"check", "arming", "armed", "parking", "parked", "done"}
  /\ left \in 0..Timeout /\ disturbed \in BOOLEAN

\* A request that starts while idle_for sleeps, or between its load and its
\* sleep, is never overlooked, even one that ends before the task is polled:
\* idle_for resolves only on a sleep nothing disturbed.
SleepUndisturbed == task = "done" => ~disturbed

\* No signal is lost: once requests end and no more come, idle_for resolves.
EventuallyIdle == <>(task = "done")
=============================================================================
