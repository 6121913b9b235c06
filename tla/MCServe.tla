------------------------------ MODULE MCServe ------------------------------
(***************************************************************************)
(* The server, part by part in one run: its loop with several connections, *)
(* or the idle timer of one connection, step by step.                      *)
(***************************************************************************)
EXTENDS Serve, IdleTimer

VARIABLE part
mcVars == <<part, vars, idleVars>>

\* Where the loop runs, the idle timer is that of a connection long closed.
MCInit ==
  /\ part \in {"loop", "idle"} /\ Init
  /\ IF part = "idle" THEN IdleInit
     ELSE /\ active = 0 /\ permit = FALSE /\ carried = 0 /\ req = [r \in Req |-> "out"]
          /\ task = "done" /\ left = 0 /\ disturbed = FALSE

LoopStep == part = "loop" /\ Next /\ UNCHANGED <<part, idleVars>>
IdleStep == part = "idle" /\ IdleNext /\ UNCHANGED <<part, vars>>
MCNext == LoopStep \/ IdleStep

\* The fairness of Serve and of IdleTimer, each where its part runs.
InLoop(A) == part = "loop" /\ A /\ UNCHANGED <<part, idleVars>>
InIdle(A) == part = "idle" /\ A /\ UNCHANGED <<part, vars>>
LoopFair ==
  /\ WF_mcVars(InLoop(TakeSlot \/ Resume \/ Shutdown \/ Drained \/ StopStreams \/ Stopped))
  /\ WF_mcVars(InLoop(DrainExpires))
  /\ \A c \in Conn : /\ WF_mcVars(InLoop(Reap(c)))
                     /\ WF_mcVars(InLoop(HandshakeEnds(c) \/ HandshakeDone(c)))
                     /\ WF_mcVars(InLoop(CancelStream(c))) /\ WF_mcVars(InLoop(Wind(c)))
                     /\ SF_mcVars(InLoop(Accept(c) \/ AcceptPauses))
IdleFair ==
  /\ WF_mcVars(InIdle(Tick)) /\ WF_mcVars(InIdle(Check \/ Await))
  /\ WF_mcVars(InIdle(Notified \/ Expire))
  /\ \A r \in Req :
       WF_mcVars(InIdle(EnterSignal(r) \/ Leave(r) \/ LeaveSignal(r)))
MCSpec == MCInit /\ [][MCNext]_mcVars /\ LoopFair /\ IdleFair
=============================================================================
