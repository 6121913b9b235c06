---------------------------- MODULE ServeProofs ----------------------------
(***************************************************************************)
(* The server loop leaks no connection slot and leaves nothing running     *)
(* behind a shutdown, for any number of clients, slots and requests and    *)
(* with every option on or off; and the idle timer of a connection counts  *)
(* its requests right and overlooks none.                                  *)
(***************************************************************************)
EXTENDS Serve, IdleTimer, FiniteSetTheorems, TLAPS

\* The sockets that hold a slot, and the slot the loop itself holds.
Held == {c \in Conn : conn[c] \in Holding}
InHand == IF loop \in {"accept", "pause"} THEN 1 ELSE 0

\* Every running connection is a task of the JoinSet, so joining or aborting
\* the set reaches all of them.
Owned == \A c \in Conn : conn[c] \in Live => c \in tasks

\* No client waits in the backlog of a closed listener.
BacklogClosed == loop \notin Running => \A c \in Conn : conn[c] # "backlog"

\* Past the drain timeout no connection task is left; only stream tasks are.
AbortJoined == loop = "abort" => tasks = {}

\* The inductive invariant.
ServeInv ==
  TypeOK /\ Owned /\ BacklogClosed /\ AbortJoined /\ SlotsConserved /\ DrainComplete

-----------------------------------------------------------------------------
\* The sockets that hold a slot are counted by a number.
LEMMA HeldFinite ==
  /\ IsFiniteSet(Held) /\ Cardinality(Held) \in Nat
  /\ IsFiniteSet(Held') /\ Cardinality(Held') \in Nat
<1>1. IsFiniteSet(Conn)
  BY ServeAssumption
<1>2. Held \in SUBSET Conn /\ Held' \in SUBSET Conn
  BY DEF Held
<1> QED
  BY <1>1, <1>2, FS_Subset, FS_CardinalityType

\* The connections AbortAll ends are counted by a number.
LEMMA EndedFinite ==
  LET ended == {c \in tasks : conn[c] \in Live}
  IN  TypeOK => IsFiniteSet(ended) /\ Cardinality(ended) \in Nat
<1> DEFINE ended == {c \in tasks : conn[c] \in Live}
<1> SUFFICES ASSUME TypeOK PROVE IsFiniteSet(ended) /\ Cardinality(ended) \in Nat
  OBVIOUS
<1>1. ended \in SUBSET Conn
  BY DEF TypeOK
<1> HIDE DEF ended
<1> QED
  BY <1>1, ServeAssumption, FS_Subset, FS_CardinalityType

\* The loop as serve_with_shutdown starts it is well typed.
LEMMA TypeInit == Init => TypeOK
<1> SUFFICES ASSUME Init PROVE TypeOK
  OBVIOUS
<1>1. MaxConns \in Nat
  BY ServeAssumption
<1>2. loop \in Running /\ permits \in Nat /\ sent \in Nat /\ tasks \subseteq Conn
  BY <1>1 DEF Init, Running
<1>3. signal \in BOOLEAN /\ stop \in BOOLEAN /\ cancelled \in BOOLEAN
  BY DEF Init
<1>4. /\ conn \in [Conn -> Holding \cup {"away", "backlog", "closed"}]
      /\ proto \in [Conn -> {"h1", "h2"}] /\ inflight \in [Conn -> Nat]
  BY DEF Init
<1> QED
  BY <1>2, <1>3, <1>4 DEF TypeOK

\* Aborting every connection task keeps the types.
LEMMA AbortTyped ==
  ASSUME TypeOK, AbortAll
  PROVE  /\ conn' \in [Conn -> Holding \cup {"away", "backlog", "closed"}]
         /\ inflight' \in [Conn -> Nat] /\ permits' \in Nat /\ tasks' = {}
<1> DEFINE ended == {c \in tasks : conn[c] \in Live}
<1>1. Cardinality(ended) \in Nat
  BY EndedFinite
<1>2. /\ conn' = [c \in Conn |-> IF c \in ended THEN "closed"
                                ELSE IF conn[c] = "backlog" THEN "away" ELSE conn[c]]
      /\ inflight' = [c \in Conn |-> IF c \in ended /\ proto[c] = "h1" THEN 0 ELSE inflight[c]]
      /\ permits' = permits + Cardinality(ended)
                    + (IF loop \in {"accept", "pause"} THEN 1 ELSE 0)
      /\ tasks' = {}
  BY DEF AbortAll
<1> HIDE DEF ended
<1> QED
  BY <1>1, <1>2 DEF TypeOK

\* Every step of the loop, of a connection or of a client keeps the types.
LEMMA TypeStep == TypeOK /\ [Next]_vars => TypeOK'
<1> SUFFICES ASSUME TypeOK, [Next]_vars PROVE TypeOK'
  OBVIOUS
<1> USE DEF TypeOK, Running, Holding, Live
<1>1. CASE Signal \/ TakeSlot \/ AcceptPauses \/ Resume \/ Shutdown \/ Drained \/ StopStreams \/ Stopped
  <2>1. CASE Signal \/ Drained \/ StopStreams \/ Stopped \/ AcceptPauses \/ Resume
    BY <2>1 DEF Signal, Drained, StopStreams, Stopped, AcceptPauses, Resume
  <2>2. CASE TakeSlot
    BY <2>2 DEF TakeSlot
  <2>3. CASE Shutdown
    BY <2>3 DEF Shutdown
  <2> QED
    BY <1>1, <2>1, <2>2, <2>3
<1>2. CASE DrainExpires
  BY <1>2, AbortTyped DEF DrainExpires
<1>3. CASE Drop
  BY <1>3, AbortTyped DEF Drop
<1>4. ASSUME NEW c \in Conn,
             \/ Connect(c) \/ Reap(c) \/ Accept(c) \/ AcceptSkips(c) \/ HandshakeDone(c)
             \/ StartRequest(c) \/ EndRequest(c) \/ CancelStream(c) \/ Wind(c) \/ Upgrade(c)
      PROVE  TypeOK'
  BY <1>4 DEF Connect, Reap, Accept, AcceptSkips, HandshakeDone, StartRequest, EndRequest,
              CancelStream, Wind, Upgrade, Waiting, StreamTasks, Finished
<1>5. ASSUME NEW c \in Conn,
             ClientCloses(c) \/ HandshakeEnds(c) \/ Finish(c) \/ UpgradedCloses(c)
      PROVE  TypeOK'
  BY <1>5 DEF ClientCloses, HandshakeEnds, Finish, UpgradedCloses, Closed
<1>6. CASE UNCHANGED vars
  BY <1>6 DEF vars
<1> QED
  BY <1>1, <1>2, <1>3, <1>4, <1>5, <1>6 DEF Next

\* The server loop keeps its types: the slot semaphore never goes below zero.
THEOREM TypeCorrect == Spec => []TypeOK
  BY TypeInit, TypeStep, PTL DEF Spec

-----------------------------------------------------------------------------
\* A closed socket gives back the one slot it held.
LEMMA ClosedReleases ==
  ASSUME TypeOK, SlotsConserved, NEW c \in Conn, conn[c] \in Holding, Closed(c), loop' = loop
  PROVE  SlotsConserved'
<1>1. Held' = Held \ {c} /\ c \in Held
  BY DEF TypeOK, Held, Closed, Holding, Live
<1>2. Cardinality(Held') = Cardinality(Held) - 1
  BY <1>1, HeldFinite, FS_RemoveElement
<1>3. permits' = permits + 1 /\ permits \in Nat /\ MaxConns \in Nat
  BY ServeAssumption DEF Closed, TypeOK
<1>4. permits + Cardinality(Held) + InHand = MaxConns /\ InHand' = InHand /\ InHand \in Nat
  BY DEF SlotsConserved, Held, InHand
<1>5. permits' + Cardinality(Held') + InHand' = MaxConns
  BY <1>2, <1>3, <1>4, HeldFinite
<1> QED
  BY <1>5 DEF SlotsConserved, Held, InHand

\* Aborting the connection tasks gives back a slot for each, and the one the
\* loop held when it ends with them.
LEMMA AbortReleases ==
  ASSUME TypeOK, Owned, SlotsConserved, AbortAll, loop' \notin {"accept", "pause"}
  PROVE  SlotsConserved'
<1> DEFINE ended == {c \in tasks : conn[c] \in Live}
<1>1. ended \subseteq Held /\ Held' = Held \ ended /\ permits' = permits + Cardinality(ended) + InHand
  BY DEF TypeOK, Held, Holding, Live, AbortAll, InHand
<1>2. Cardinality(ended) \in Nat
  BY EndedFinite
<1> HIDE DEF ended
<1>3. Held \cap ended = ended
  BY <1>1
<1>4. Cardinality(Held') = Cardinality(Held) - Cardinality(ended)
  BY <1>1, <1>3, HeldFinite, FS_Difference
<1>5. permits + Cardinality(Held) + InHand = MaxConns /\ InHand' = 0 /\ InHand \in Nat
  BY DEF SlotsConserved, Held, InHand
<1>6. permits \in Nat /\ MaxConns \in Nat
  BY ServeAssumption DEF TypeOK
<1>7. permits' + Cardinality(Held') + InHand' = MaxConns
  BY <1>1, <1>2, <1>4, <1>5, <1>6, HeldFinite
<1> QED
  BY <1>7 DEF SlotsConserved, Held, InHand

\* A slot is taken, handed over and released exactly once on every path.
LEMMA SlotsStep ==
  ASSUME TypeOK, Owned, SlotsConserved, [Next]_vars
  PROVE  SlotsConserved'
<1>0. /\ permits + Cardinality(Held) + InHand = MaxConns
      /\ permits \in Nat /\ MaxConns \in Nat /\ InHand \in Nat /\ Cardinality(Held) \in Nat
  BY ServeAssumption, HeldFinite DEF SlotsConserved, Held, InHand, TypeOK
<1>a. ASSUME permits' + Cardinality(Held') + InHand' = MaxConns PROVE SlotsConserved'
  BY <1>a DEF SlotsConserved, Held, InHand
<1>1. ASSUME Held' = Held, permits' + InHand' = permits + InHand, permits' \in Nat, InHand' \in Nat
      PROVE  SlotsConserved'
  <2> DEFINE n == Cardinality(Held)
             p == permits
             q == permits'
             i == InHand
             j == InHand'
  <2>1. n \in Nat /\ p \in Nat /\ q \in Nat /\ i \in Nat /\ j \in Nat /\ MaxConns \in Nat
    BY <1>0, <1>1
  <2>2. p + n + i = MaxConns /\ q + j = p + i
    BY <1>0, <1>1
  <2>3. Cardinality(Held') = n
    BY <1>1
  <2> HIDE DEF n, p, q, i, j
  <2>4. q + n + j = MaxConns
    BY <2>1, <2>2
  <2> QED
    BY <2>3, <2>4, <1>a DEF q, j
<1>b. InHand' \in Nat
  BY DEF InHand
<1>2. CASE Signal \/ TakeSlot \/ AcceptPauses \/ Resume \/ Drained \/ StopStreams \/ Stopped
  <2>1. Held' = Held /\ permits' \in Nat
    BY <1>0, <1>2 DEF Signal, TakeSlot, AcceptPauses, Resume, Drained, StopStreams, Stopped, Held
  <2>2. permits' + InHand' = permits + InHand
    BY <1>0, <1>2 DEF Signal, TakeSlot, AcceptPauses, Resume, Drained, StopStreams, Stopped, Waiting, Running, InHand
  <2> QED
    BY <2>1, <2>2, <1>1, <1>b
<1>3. CASE Shutdown
  <2>1. Held' = Held /\ permits' \in Nat
    BY <1>0, <1>3 DEF Shutdown, Held, Holding, Live, TypeOK
  <2>2. permits' + InHand' = permits + InHand
    BY <1>0, <1>3 DEF Shutdown, InHand, Running
  <2> QED
    BY <2>1, <2>2, <1>1, <1>b
<1>4. CASE DrainExpires
  BY <1>4, AbortReleases DEF DrainExpires
<1>5. CASE Drop
  BY <1>5, AbortReleases DEF Drop
<1>6. ASSUME NEW c \in Conn, Accept(c) PROVE SlotsConserved'
  <2>1. Held' = Held \cup {c} /\ c \notin Held
    BY <1>6 DEF Accept, Held, Holding, Live, TypeOK
  <2>2. Cardinality(Held') = Cardinality(Held) + 1
    BY <2>1, HeldFinite, FS_AddElement
  <2>3. permits' = permits /\ InHand = 1 /\ InHand' = 0
    BY <1>6 DEF Accept, InHand
  <2> QED
    BY <1>0, <1>a, <2>2, <2>3
<1>7. ASSUME NEW c \in Conn,
             \/ Connect(c) \/ Reap(c) \/ AcceptSkips(c) \/ HandshakeDone(c) \/ StartRequest(c)
             \/ EndRequest(c) \/ CancelStream(c) \/ Wind(c) \/ Upgrade(c)
      PROVE  SlotsConserved'
  <2>1. permits' = permits /\ InHand' = InHand
    BY <1>7 DEF Connect, Reap, AcceptSkips, HandshakeDone, StartRequest, EndRequest,
                CancelStream, Wind, Upgrade, InHand
  <2>2. Held' = Held
    BY <1>7 DEF Connect, Reap, AcceptSkips, HandshakeDone, StartRequest, EndRequest,
                CancelStream, Wind, Upgrade, Held, Holding, Live, TypeOK
  <2> QED
    BY <1>0, <1>1, <2>1, <2>2
<1>8. ASSUME NEW c \in Conn,
             ClientCloses(c) \/ HandshakeEnds(c) \/ Finish(c) \/ UpgradedCloses(c)
      PROVE  SlotsConserved'
  <2>1. conn[c] \in Holding /\ Closed(c) /\ loop' = loop
    BY <1>8 DEF ClientCloses, HandshakeEnds, Finish, UpgradedCloses, Holding, Live
  <2> QED
    BY <2>1, ClosedReleases
<1>9. CASE UNCHANGED vars
  BY <1>9 DEF vars, SlotsConserved
<1> QED
  BY <1>2, <1>3, <1>4, <1>5, <1>6, <1>7, <1>8, <1>9 DEF Next

-----------------------------------------------------------------------------
\* Connections stay owned by their tasks and the listener's backlog empties
\* with it; what the drain waited for cannot start again.
LEMMA DrainStep ==
  ASSUME TypeOK, Owned, BacklogClosed, AbortJoined, DrainComplete, [Next]_vars
  PROVE  Owned' /\ BacklogClosed' /\ AbortJoined' /\ DrainComplete'
<1> DEFINE Goal == Owned' /\ BacklogClosed' /\ AbortJoined' /\ DrainComplete'
<1> USE DEF TypeOK, Owned, BacklogClosed, AbortJoined, DrainComplete, Running, Live, StreamTasks
<1>1. CASE Signal \/ TakeSlot \/ AcceptPauses \/ Resume \/ Shutdown \/ StopStreams
  BY <1>1 DEF Signal, TakeSlot, AcceptPauses, Resume, Shutdown, StopStreams, Waiting
<1>2. CASE Drained
  BY <1>2 DEF Drained
<1>3. CASE Stopped
  BY <1>3 DEF Stopped
<1>4. CASE DrainExpires \/ Drop
  BY <1>4 DEF DrainExpires, Drop, AbortAll
<1>5. ASSUME NEW c \in Conn, Connect(c) \/ Reap(c) \/ Accept(c) \/ AcceptSkips(c) PROVE Goal
  BY <1>5 DEF Connect, Reap, Accept, AcceptSkips, Waiting, Finished
<1>6. ASSUME NEW c \in Conn, HandshakeDone(c) \/ Wind(c) \/ Upgrade(c) PROVE Goal
  BY <1>6 DEF HandshakeDone, Wind, Upgrade
<1>7. ASSUME NEW c \in Conn, StartRequest(c) \/ EndRequest(c) \/ CancelStream(c) PROVE Goal
  BY <1>7 DEF StartRequest, EndRequest, CancelStream
<1>8. ASSUME NEW c \in Conn,
             ClientCloses(c) \/ HandshakeEnds(c) \/ Finish(c) \/ UpgradedCloses(c)
      PROVE  Goal
  BY <1>8 DEF ClientCloses, HandshakeEnds, Finish, UpgradedCloses, Closed
<1>9. CASE UNCHANGED vars
  BY <1>9 DEF vars
<1> QED
  BY <1>1, <1>2, <1>3, <1>4, <1>5, <1>6, <1>7, <1>8, <1>9 DEF Next

\* A server that has not accepted anyone satisfies the inductive invariant.
LEMMA ServeInit == Init => ServeInv
<1> SUFFICES ASSUME Init PROVE ServeInv
  OBVIOUS
<1>1. TypeOK
  BY TypeInit
<1>2. Owned /\ BacklogClosed /\ AbortJoined /\ DrainComplete
  BY DEF Init, Owned, BacklogClosed, AbortJoined, DrainComplete, Live, Running
<1>3. Held = {} /\ InHand = 0 /\ permits = MaxConns
  BY DEF Init, Held, InHand, Holding, Live
<1>4. permits + Cardinality(Held) + InHand = MaxConns
  BY <1>3, FS_EmptySet, ServeAssumption
<1> QED
  BY <1>1, <1>2, <1>4 DEF ServeInv, SlotsConserved, Held, InHand

\* The inductive invariant holds of every behaviour.
LEMMA Invariance == Spec => []ServeInv
<1>1. ServeInv /\ [Next]_vars => ServeInv'
  BY TypeStep, SlotsStep, DrainStep DEF ServeInv
<1> QED
  BY <1>1, ServeInit, PTL DEF Spec

\* No connection slot is leaked or used twice, whichever way a connection, a
\* handshake, an accept or the whole serve future ends, and so no more than
\* max_connections sockets are ever open.
THEOREM SlotsKept == Spec => []SlotsConserved
<1>1. ServeInv => SlotsConserved
  BY DEF ServeInv
<1> QED
  BY <1>1, Invariance, PTL

\* When the serve future resolves, every connection task and every stream task
\* it started has ended, and none starts afterwards.
THEOREM DrainLeavesNothing == Spec => []DrainComplete
<1>1. ServeInv => DrainComplete
  BY DEF ServeInv
<1> QED
  BY <1>1, Invariance, PTL

-----------------------------------------------------------------------------
\* The idle timer of one connection.

\* The requests the counter counts.
InFlight == {r \in Req : req[r] \in {"entered", "in"}}
CountExact == active = Cardinality(InFlight)

\* While idle_for is about to sleep or sleeps, a request in flight has disturbed it;
\* and a disturbed sleep is not over, and its signal is there or on its way.
Sleeping == task = "arming" \/ (task = "armed" /\ left > 0)
Noticed == Sleeping /\ active > 0 => disturbed
Signalled ==
  disturbed /\ task \in {"arming", "armed"} =>
    Sleeping /\ (permit \/ \E r \in Req : req[r] = "entered")

IdleInv == IdleTypeOK /\ CountExact /\ Noticed /\ Signalled /\ SleepUndisturbed

\* Requests in flight are counted by a number.
LEMMA InFlightFinite ==
  /\ IsFiniteSet(InFlight) /\ Cardinality(InFlight) \in Nat
  /\ IsFiniteSet(InFlight') /\ Cardinality(InFlight') \in Nat
<1>1. IsFiniteSet(Req) /\ InFlight \in SUBSET Req /\ InFlight' \in SUBSET Req
  BY IdleAssumption DEF InFlight
<1> QED
  BY <1>1, FS_Subset, FS_CardinalityType

\* The counter starts at no request.
LEMMA IdleInitial ==
  ASSUME IdleInit
  PROVE  IdleInv
<1>1. IdleTypeOK
  <2>1. Timeout \in Nat /\ 0 \in 0 .. Timeout
    BY IdleAssumption
  <2>2. permit \in BOOLEAN /\ disturbed \in BOOLEAN
    BY Zenon DEF IdleInit
  <2>3. req \in [Req -> {"out", "entered", "in", "left"}]
    BY DEF IdleInit
  <2> QED
    BY <2>1, <2>2, <2>3 DEF IdleInit, IdleTypeOK
<1>2. InFlight = {}
  BY DEF IdleInit, InFlight
<1>3. CountExact
  BY <1>2, FS_EmptySet DEF IdleInit, CountExact
<1> QED
  BY <1>1, <1>3 DEF IdleInit, IdleInv, Noticed, Signalled, Sleeping, SleepUndisturbed

\* A request counts itself in.
LEMMA EnterKeeps ==
  ASSUME IdleInv, NEW r \in Req, Enter(r)
  PROVE  IdleInv'
<1>1. /\ task # "done" /\ req[r] = "out" /\ carried' = carried + 1 /\ active' = active + 1
      /\ req' = [req EXCEPT ![r] = IF active = 0 THEN "entered" ELSE "in"]
      /\ disturbed' = (disturbed \/ task = "arming" \/ (task = "armed" /\ left > 0))
      /\ UNCHANGED <<permit, task, left>>
  BY DEF Enter
<1>2. IdleTypeOK /\ active \in Nat /\ req \in [Req -> {"out", "entered", "in", "left"}]
  BY DEF IdleInv, IdleTypeOK
<1>3. IdleTypeOK'
  <2>1. disturbed' \in BOOLEAN /\ active' \in Nat /\ carried' \in Nat
    BY <1>1, <1>2 DEF IdleTypeOK
  <2>2. req' \in [Req -> {"out", "entered", "in", "left"}]
    BY <1>1, <1>2
  <2> QED
    BY <1>1, <1>2, <2>1, <2>2 DEF IdleTypeOK
<1>4. CountExact'
  <2>1. InFlight' = InFlight \cup {r} /\ r \notin InFlight
    BY <1>1, <1>2 DEF InFlight
  <2>2. Cardinality(InFlight') = Cardinality(InFlight) + 1
    BY <2>1, InFlightFinite, FS_AddElement
  <2> QED
    BY <1>1, <2>2 DEF IdleInv, CountExact
<1>5. Noticed'
  BY <1>1 DEF Noticed, Sleeping
<1>6. Signalled'
  <2> SUFFICES ASSUME disturbed', task \in {"arming", "armed"}
               PROVE  Sleeping /\ (permit \/ \E q \in Req : req'[q] = "entered")
    BY <1>1 DEF Signalled, Sleeping
  <2>1. Sleeping
    BY <1>1 DEF IdleInv, Signalled, Sleeping
  <2>2. CASE active = 0
    BY <1>1, <1>2, <2>1, <2>2
  <2>3. CASE active # 0
    <3>1. disturbed
      BY <1>2, <2>1, <2>3 DEF IdleInv, Noticed
    <3>2. permit \/ \E q \in Req : req[q] = "entered"
      BY <3>1 DEF IdleInv, Signalled
    <3> QED
      BY <1>1, <1>2, <2>1, <3>2
  <2> QED
    BY <2>2, <2>3
<1>7. SleepUndisturbed'
  BY <1>1 DEF SleepUndisturbed
<1> QED
  BY <1>3, <1>4, <1>5, <1>6, <1>7 DEF IdleInv

\* A request counts itself out.
LEMMA LeaveKeeps ==
  ASSUME IdleInv, NEW r \in Req, Leave(r)
  PROVE  IdleInv'
<1>1. /\ task # "done" /\ req[r] = "in" /\ active' = active - 1
      /\ req' = [req EXCEPT ![r] = IF active = 1 THEN "left" ELSE "out"]
      /\ UNCHANGED <<permit, carried, task, left, disturbed>>
  BY DEF Leave
<1>2. /\ IdleTypeOK /\ active \in Nat /\ req \in [Req -> {"out", "entered", "in", "left"}]
      /\ active = Cardinality(InFlight)
  BY DEF IdleInv, IdleTypeOK, CountExact
<1>3. InFlight' = InFlight \ {r} /\ r \in InFlight
  BY <1>1, <1>2 DEF InFlight
<1>4. Cardinality(InFlight') = Cardinality(InFlight) - 1
  BY <1>3, InFlightFinite, FS_RemoveElement
<1>5. CountExact' /\ active' \in Nat
  BY <1>1, <1>2, <1>4, InFlightFinite DEF CountExact
<1>6. IdleTypeOK'
  BY <1>1, <1>2, <1>5 DEF IdleTypeOK
<1>7. Noticed'
  BY <1>1, <1>2 DEF IdleInv, Noticed, Sleeping
<1>8. Signalled'
  <2>1. \A q \in Req : req[q] = "entered" => req'[q] = "entered"
    BY <1>1, <1>2
  <2> QED
    BY <1>1, <2>1 DEF IdleInv, Signalled, Sleeping
<1>9. SleepUndisturbed'
  BY <1>1 DEF SleepUndisturbed
<1> QED
  BY <1>5, <1>6, <1>7, <1>8, <1>9 DEF IdleInv

\* A request signals, on its way in or out.
LEMMA SignalKeeps ==
  ASSUME IdleInv, NEW r \in Req, EnterSignal(r) \/ LeaveSignal(r)
  PROVE  IdleInv'
<1>1. /\ permit' = TRUE /\ UNCHANGED <<active, carried, task, left, disturbed>>
      /\ \/ req[r] = "entered" /\ req' = [req EXCEPT ![r] = "in"]
         \/ req[r] = "left" /\ req' = [req EXCEPT ![r] = "out"]
  BY DEF EnterSignal, LeaveSignal
<1>2. IdleTypeOK /\ req \in [Req -> {"out", "entered", "in", "left"}]
  BY DEF IdleInv, IdleTypeOK
<1>3. IdleTypeOK'
  BY <1>1, <1>2 DEF IdleTypeOK
<1>4. InFlight' = InFlight
  BY <1>1, <1>2 DEF InFlight
<1> QED
  BY <1>1, <1>3, <1>4 DEF IdleInv, CountExact, Noticed, Signalled, Sleeping, SleepUndisturbed

\* idle_for, and time: while a signal is there or on its way, no time passes.
LEMMA TaskKeeps ==
  ASSUME IdleInv,
         Tick \/ Check \/ Await \/ Notified \/ Expire
  PROVE  IdleInv'
<1>1. UNCHANGED <<active, req, carried>>
  BY DEF Tick, Check, Await, Notified, Expire
<1>2. InFlight' = InFlight /\ CountExact'
  BY <1>1 DEF InFlight, CountExact, IdleInv
<1>3. /\ IdleTypeOK /\ left \in Nat /\ left <= Timeout /\ Timeout \in Nat \ {0}
      /\ disturbed \in BOOLEAN /\ permit \in BOOLEAN /\ active \in Nat
  BY IdleAssumption DEF IdleInv, IdleTypeOK
<1>4. CASE Tick
  <2>1. /\ task # "done" /\ ~permit /\ \A r \in Req : req[r] \in {"out", "in"}
        /\ task \notin {"check", "arming", "parking"} /\ (task = "armed" => left > 0)
        /\ left' = (IF left > 0 THEN left - 1 ELSE 0) /\ UNCHANGED <<permit, task, disturbed>>
    BY <1>3, <1>4 DEF Tick, Runnable, IdleTypeOK
  <2>2. task = "armed" => ~disturbed
    BY <2>1 DEF IdleInv, Signalled
  <2>3. IdleTypeOK'
    BY <1>1, <1>3, <2>1 DEF IdleTypeOK
  <2>4. Noticed' /\ Signalled'
    BY <1>1, <1>3, <2>1, <2>2 DEF IdleInv, Noticed, Signalled, Sleeping
  <2> QED
    BY <1>2, <2>1, <2>3, <2>4 DEF IdleInv, SleepUndisturbed
<1>5. CASE Check
  <2>1. /\ task' = (IF active = 0 THEN "arming" ELSE "parking") /\ disturbed' = FALSE
        /\ UNCHANGED <<permit, left>>
    BY <1>5 DEF Check
  <2>2. IdleTypeOK'
    BY <1>1, <1>3, <2>1 DEF IdleTypeOK
  <2>3. Noticed' /\ Signalled'
    BY <1>1, <2>1 DEF Noticed, Signalled, Sleeping
  <2> QED
    BY <1>2, <2>1, <2>2, <2>3 DEF IdleInv, SleepUndisturbed
<1>6. CASE Await
  <2>1. /\ \/ task = "arming" /\ task' = "armed" /\ left' = Timeout
           \/ task = "parking" /\ task' = "parked" /\ left' = left
        /\ UNCHANGED <<permit, disturbed>>
    BY <1>6 DEF Await
  <2>2. IdleTypeOK'
    BY <1>1, <1>3, <2>1 DEF IdleTypeOK
  <2>3. Noticed' /\ Signalled'
    BY <1>1, <1>3, <2>1 DEF IdleInv, Noticed, Signalled, Sleeping
  <2> QED
    BY <1>2, <2>1, <2>2, <2>3 DEF IdleInv, SleepUndisturbed
<1>7. CASE Notified
  <2>1. permit' = FALSE /\ task' = "check" /\ left' = 0 /\ UNCHANGED disturbed
    BY <1>7 DEF Notified
  <2>2. IdleTypeOK'
    <3>1. left' \in 0 .. Timeout
      BY <1>3, <2>1
    <3>2. permit' \in BOOLEAN
      BY <2>1, Zenon
    <3> QED
      BY <1>1, <1>3, <2>1, <3>1, <3>2, Zenon DEF IdleTypeOK
  <2> QED
    BY <1>2, <2>1, <2>2 DEF IdleInv, Noticed, Signalled, Sleeping, SleepUndisturbed
<1>8. CASE Expire
  <2>1. /\ task = "armed" /\ left = 0 /\ task' = (IF active = 0 THEN "done" ELSE "check")
        /\ UNCHANGED <<permit, left, disturbed>>
    BY <1>8 DEF Expire
  <2>2. ~disturbed
    BY <2>1 DEF IdleInv, Signalled, Sleeping
  <2>3. IdleTypeOK'
    BY <1>1, <1>3, <2>1 DEF IdleTypeOK
  <2> QED
    BY <1>2, <2>1, <2>2, <2>3 DEF IdleInv, Noticed, Signalled, Sleeping, SleepUndisturbed
<1> QED
  BY <1>4, <1>5, <1>6, <1>7, <1>8

\* The invariant of the timer holds throughout.
LEMMA IdleInvariance == IdleSpec => []IdleInv
<1>1. IdleInv /\ [IdleNext]_idleVars => IdleInv'
  <2> SUFFICES ASSUME IdleInv, [IdleNext]_idleVars PROVE IdleInv'
    OBVIOUS
  <2>1. CASE IdleNext
    BY <2>1, EnterKeeps, LeaveKeeps, SignalKeeps, TaskKeeps DEF IdleNext
  <2>2. CASE UNCHANGED idleVars
    BY <2>2 DEF idleVars, IdleInv, IdleTypeOK, CountExact, InFlight, Noticed, Signalled, Sleeping,
                SleepUndisturbed
  <2> QED
    BY <2>1, <2>2
<1> QED
  BY <1>1, IdleInitial, PTL DEF IdleSpec

\* The counter of Activity is the number of requests in flight, so it never wraps.
THEOREM ActivityCounted == IdleSpec => [](IdleTypeOK /\ CountExact)
<1>1. IdleInv => IdleTypeOK /\ CountExact
  BY DEF IdleInv
<1> QED
  BY <1>1, IdleInvariance, PTL

\* idle_for never resolves on a sleep a request disturbed, for any number of
\* requests and any timeout: a signal is never lost between the load of the count
\* and the wait.
THEOREM SleepKept == IdleSpec => []SleepUndisturbed
<1>1. IdleInv => SleepUndisturbed
  BY DEF IdleInv
<1> QED
  BY <1>1, IdleInvariance, PTL
=============================================================================
