------------------------------- MODULE Serve -------------------------------
(***************************************************************************)
(* The server loop of serve.rs: connection slots taken before the accept,  *)
(* one task per connection, HTTP/2 streams in tasks of their own, idle     *)
(* connections wound down, and the graceful shutdown with its drain        *)
(* timeout.  What hyper does on a connection is external.                  *)
(***************************************************************************)
EXTENDS Naturals, FiniteSets

CONSTANTS
  Conn,          \* clients, one connection at a time each
  MaxConns,      \* max_connections
  MaxStreams,    \* bound: requests in flight on one connection
  MaxRequests,   \* bound: requests clients send
  Tls,           \* whether a TLS handshake comes first
  IdleTimeout,   \* whether idle connections are closed
  DrainTimeout,  \* whether the drain is bounded
  Upgrades,      \* whether a fallback may upgrade a connection
  Drops          \* whether the serve future may be dropped

ASSUME ServeAssumption ==
  /\ IsFiniteSet(Conn) /\ MaxConns \in Nat \ {0} /\ MaxStreams \in Nat \ {0}
  /\ MaxRequests \in Nat
  /\ {Tls, IdleTimeout, DrainTimeout, Upgrades, Drops} \subseteq BOOLEAN

VARIABLES
  loop,      \* where the serve future is
  signal,    \* whether the shutdown signal has resolved
  permits,   \* free permits of the slots semaphore
  conn,      \* each client's connection
  proto,     \* the protocol it speaks
  sent,      \* requests clients have sent
  inflight,  \* requests in flight: of an h2 connection, its stream tasks
  tasks,     \* the JoinSet: connection tasks not reaped yet
  stop,      \* the watch channel's value, or its sender gone
  cancelled  \* the stream tasks' cancellation token

vars == <<loop, signal, permits, conn, proto, sent, inflight, tasks, stop, cancelled>>

Running == {"slot", "accept", "pause"}
\* A connection whose task runs, and one that holds a slot: a socket still open.
Live == {"handshake", "open", "winding"}
Holding == Live \cup {"upgraded"}
Finished == {c \in tasks : conn[c] \notin Live}

Init ==
  /\ loop = "slot" /\ signal = FALSE /\ permits = MaxConns
  /\ conn = [c \in Conn |-> "away"] /\ proto = [c \in Conn |-> "h1"]
  /\ sent = 0 /\ inflight = [c \in Conn |-> 0] /\ tasks = {}
  /\ stop = FALSE /\ cancelled = FALSE

-----------------------------------------------------------------------------
\* Clients and the operator.

\* A client connects while the socket listens, and waits in the backlog.
Connect(c) ==
  /\ loop \in Running /\ conn[c] \in {"away", "closed"} /\ c \notin tasks
  /\ inflight[c] = 0
  /\ conn' = [conn EXCEPT ![c] = "backlog"]
  /\ UNCHANGED <<loop, signal, permits, proto, sent, inflight, tasks, stop, cancelled>>

Signal ==
  /\ loop \in Running /\ ~signal /\ signal' = TRUE
  /\ UNCHANGED <<loop, permits, conn, proto, sent, inflight, tasks, stop, cancelled>>

\* The socket of `c` closes: its slot is released, and a request of HTTP/1.1
\* ends with the connection's task.
Closed(c) ==
  /\ conn' = [conn EXCEPT ![c] = "closed"]
  /\ permits' = permits + 1
  /\ inflight' = [inflight EXCEPT ![c] = IF proto[c] = "h1" THEN 0 ELSE @]

\* The client goes away; a stream task of its own may outlive the connection.
ClientCloses(c) ==
  /\ conn[c] \in {"open", "winding"} /\ Closed(c)
  /\ UNCHANGED <<loop, signal, proto, sent, tasks, stop, cancelled>>

-----------------------------------------------------------------------------
\* The serve loop.  Each select is biased: the signal first, then reaping.

Waiting == loop \in Running /\ ~signal

Reap(c) ==
  /\ \/ Waiting /\ loop # "pause"
     \/ loop = "drain"
  /\ c \in Finished /\ tasks' = tasks \ {c}
  /\ UNCHANGED <<loop, signal, permits, conn, proto, sent, inflight, stop, cancelled>>

TakeSlot ==
  /\ Waiting /\ loop = "slot" /\ Finished = {} /\ permits > 0
  /\ permits' = permits - 1 /\ loop' = "accept"
  /\ UNCHANGED <<signal, conn, proto, sent, inflight, tasks, stop, cancelled>>

\* The slot moves to the connection's task.
Accept(c) ==
  /\ Waiting /\ loop = "accept" /\ Finished = {} /\ conn[c] = "backlog"
  /\ conn' = [conn EXCEPT ![c] = IF Tls THEN "handshake" ELSE "open"]
  /\ \E v \in {"h1", "h2"} : proto' = [proto EXCEPT ![c] = v]
  /\ tasks' = tasks \cup {c} /\ loop' = "slot"
  /\ UNCHANGED <<sent, signal, permits, inflight, stop, cancelled>>

\* accept_failed: a client that gave up is skipped, anything else pauses.
AcceptSkips(c) ==
  /\ Waiting /\ loop = "accept" /\ Finished = {}
  /\ conn[c] = "backlog" /\ conn' = [conn EXCEPT ![c] = "away"]
  /\ UNCHANGED <<loop, signal, permits, proto, sent, inflight, tasks, stop, cancelled>>

AcceptPauses ==
  /\ Waiting /\ loop = "accept" /\ Finished = {} /\ loop' = "pause"
  /\ UNCHANGED <<signal, permits, conn, proto, sent, inflight, tasks, stop, cancelled>>

Resume ==
  /\ Waiting /\ loop = "pause" /\ loop' = "accept"
  /\ UNCHANGED <<signal, permits, conn, proto, sent, inflight, tasks, stop, cancelled>>

\* Fault: the slot of an accept cut short is forgotten.
ShutdownLeaks ==
  /\ loop \in Running /\ signal /\ loop' = "drain"
  /\ conn' = [c \in Conn |-> IF conn[c] = "backlog" THEN "away" ELSE conn[c]]
  /\ stop' = TRUE
  /\ UNCHANGED <<signal, permits, proto, sent, inflight, tasks, cancelled>>

\* The shutdown begins: a slot the loop holds is let go, the listener closes on
\* the clients in its backlog, and every connection is told to stop.
Shutdown ==
  /\ loop \in Running /\ signal /\ loop' = "drain"
  /\ permits' = IF loop = "slot" THEN permits ELSE permits + 1
  /\ conn' = [c \in Conn |-> IF conn[c] = "backlog" THEN "away" ELSE conn[c]]
  /\ stop' = TRUE
  /\ UNCHANGED <<signal, proto, sent, inflight, tasks, cancelled>>

\* Every connection task is joined, then every stream task has finished.
StreamTasks == {c \in Conn : proto[c] = "h2" /\ inflight[c] > 0}

\* Fault: the drain waits for connections and not for their stream tasks.
DrainedConnections ==
  /\ loop = "drain" /\ tasks = {} /\ loop' = "done"
  /\ UNCHANGED <<signal, permits, conn, proto, sent, inflight, tasks, stop, cancelled>>

Drained ==
  /\ loop = "drain" /\ tasks = {} /\ StreamTasks = {} /\ loop' = "done"
  /\ UNCHANGED <<signal, permits, conn, proto, sent, inflight, tasks, stop, cancelled>>

\* JoinSet::shutdown, or its drop: every connection task still there is ended.
AbortAll ==
  LET ended == {c \in tasks : conn[c] \in Live}
  IN /\ conn' = [c \in Conn |-> IF c \in ended THEN "closed"
                               ELSE IF conn[c] = "backlog" THEN "away" ELSE conn[c]]
     /\ inflight' = [c \in Conn |-> IF c \in ended /\ proto[c] = "h1" THEN 0 ELSE inflight[c]]
     /\ permits' = permits + Cardinality(ended)
                   + (IF loop \in {"accept", "pause"} THEN 1 ELSE 0)
     /\ tasks' = {}

\* Fault: the timeout applies only while connections are open.
DrainExpiresIfOpen ==
  /\ DrainTimeout /\ loop = "drain" /\ tasks # {} /\ loop' = "abort" /\ AbortAll
  /\ UNCHANGED <<signal, proto, sent, stop, cancelled>>

\* The drain timed out: connections are closed, then stream tasks cancelled
\* and waited for.
DrainExpires ==
  /\ DrainTimeout /\ loop = "drain" /\ loop' = "abort" /\ AbortAll
  /\ UNCHANGED <<signal, proto, sent, stop, cancelled>>

StopStreams ==
  /\ loop = "abort" /\ ~cancelled /\ cancelled' = TRUE
  /\ UNCHANGED <<loop, signal, permits, conn, proto, sent, inflight, tasks, stop>>

Stopped ==
  /\ loop = "abort" /\ cancelled /\ StreamTasks = {} /\ loop' = "done"
  /\ UNCHANGED <<signal, permits, conn, proto, sent, inflight, tasks, stop, cancelled>>

\* The serve future is dropped at any of its awaits.
Drop ==
  /\ Drops /\ loop \notin {"done", "dropped"} /\ loop' = "dropped"
  /\ AbortAll /\ stop' = TRUE /\ cancelled' = TRUE
  /\ UNCHANGED <<signal, proto, sent>>

-----------------------------------------------------------------------------
\* A connection's task (serve_connection, drive) and its requests.

HandshakeDone(c) ==
  /\ conn[c] = "handshake" /\ conn' = [conn EXCEPT ![c] = "open"]
  /\ UNCHANGED <<loop, signal, permits, proto, sent, inflight, tasks, stop, cancelled>>

\* The handshake fails or times out, or the server stops first.
HandshakeEnds(c) ==
  /\ conn[c] = "handshake" /\ Closed(c)
  /\ UNCHANGED <<loop, signal, proto, sent, tasks, stop, cancelled>>

\* An HTTP/2 client may open streams until it has seen the GOAWAY.
StartRequest(c) ==
  /\ conn[c] = "open" \/ (conn[c] = "winding" /\ proto[c] = "h2")
  /\ inflight[c] < (IF proto[c] = "h1" THEN 1 ELSE MaxStreams)
  /\ sent < MaxRequests /\ sent' = sent + 1
  /\ inflight' = [inflight EXCEPT ![c] = @ + 1]
  /\ UNCHANGED <<loop, signal, permits, conn, proto, tasks, stop, cancelled>>

\* A request ends: its response body has, its client reset it, or its stream
\* task was cancelled.
EndRequest(c) ==
  /\ inflight[c] > 0 /\ inflight' = [inflight EXCEPT ![c] = @ - 1]
  /\ UNCHANGED <<loop, signal, permits, conn, proto, sent, tasks, stop, cancelled>>

CancelStream(c) ==
  /\ cancelled /\ c \in StreamTasks /\ inflight' = [inflight EXCEPT ![c] = 0]
  /\ UNCHANGED <<loop, signal, permits, conn, proto, sent, tasks, stop, cancelled>>

\* Fault: only a shutdown winds a connection down.
WindOnStop(c) ==
  /\ conn[c] = "open" /\ stop
  /\ conn' = [conn EXCEPT ![c] = "winding"]
  /\ UNCHANGED <<loop, signal, permits, proto, sent, inflight, tasks, stop, cancelled>>

\* drive: idle for long enough, or told to stop, the connection winds down.
Wind(c) ==
  /\ conn[c] = "open" /\ (stop \/ (IdleTimeout /\ inflight[c] = 0))
  /\ conn' = [conn EXCEPT ![c] = "winding"]
  /\ UNCHANGED <<loop, signal, permits, proto, sent, inflight, tasks, stop, cancelled>>

\* A connection winding down closes with its last request.
Finish(c) ==
  /\ conn[c] = "winding" /\ inflight[c] = 0 /\ Closed(c)
  /\ UNCHANGED <<loop, signal, proto, sent, tasks, stop, cancelled>>

\* A fallback takes the IO of an HTTP/1.1 connection: its task is over, and the
\* slot goes with the IO until the fallback lets it go.
Upgrade(c) ==
  /\ Upgrades /\ conn[c] \in {"open", "winding"} /\ proto[c] = "h1" /\ inflight[c] = 1
  /\ conn' = [conn EXCEPT ![c] = "upgraded"]
  /\ inflight' = [inflight EXCEPT ![c] = 0]
  /\ UNCHANGED <<loop, signal, permits, proto, sent, tasks, stop, cancelled>>

UpgradedCloses(c) ==
  /\ conn[c] = "upgraded" /\ Closed(c)
  /\ UNCHANGED <<loop, signal, proto, sent, tasks, stop, cancelled>>

Next ==
  \/ Signal \/ TakeSlot \/ AcceptPauses \/ Resume \/ Shutdown \/ Drained \/ DrainExpires
  \/ StopStreams \/ Stopped \/ Drop
  \/ \E c \in Conn :
       \/ Connect(c) \/ ClientCloses(c) \/ Reap(c) \/ Accept(c) \/ AcceptSkips(c)
       \/ HandshakeDone(c) \/ HandshakeEnds(c) \/ StartRequest(c) \/ EndRequest(c)
       \/ CancelStream(c) \/ Wind(c) \/ Finish(c) \/ Upgrade(c) \/ UpgradedCloses(c)

Spec == Init /\ [][Next]_vars

\* The runtime polls every task that can run, and the timers fire: the loop
\* takes its steps, the drain expires, handshakes end and told connections
\* wind down.  The kernel hands over its backlog in order, or the accept fails.
\* Nothing is assumed of requests or of clients: a connection that winds down may
\* wait for its client for ever.
ServerFair ==
  /\ WF_vars(TakeSlot \/ Resume \/ Shutdown \/ Drained \/ StopStreams \/ Stopped)
  /\ WF_vars(DrainExpires)
  /\ \A c \in Conn : /\ WF_vars(Reap(c)) /\ WF_vars(HandshakeEnds(c) \/ HandshakeDone(c))
                     /\ WF_vars(CancelStream(c)) /\ WF_vars(Wind(c))
                     /\ SF_vars(Accept(c) \/ AcceptPauses)
FairSpec == Spec /\ ServerFair

-----------------------------------------------------------------------------
\* Types: the slot semaphore never goes below zero, and every connection is in
\* one stage of its life.
TypeOK ==
  /\ loop \in Running \cup {"drain", "abort", "done", "dropped"}
  /\ signal \in BOOLEAN /\ permits \in Nat
  /\ conn \in [Conn -> Holding \cup {"away", "backlog", "closed"}]
  /\ proto \in [Conn -> {"h1", "h2"}] /\ sent \in Nat /\ inflight \in [Conn -> Nat]
  /\ tasks \subseteq Conn /\ stop \in BOOLEAN /\ cancelled \in BOOLEAN

\* Every slot of max_connections is free, held by the loop about to accept, or
\* held by one open socket, upgraded ones included: none is leaked by a failed
\* handshake, an abort or a shutdown between the slot and the accept, and no
\* more than max_connections sockets are ever open.
SlotsConserved ==
  permits + Cardinality({c \in Conn : conn[c] \in Holding})
    + (IF loop \in {"accept", "pause"} THEN 1 ELSE 0) = MaxConns

\* When the serve future has resolved nothing it started is left: no task, no
\* stream, no socket but the ones a fallback owns.
DrainComplete ==
  loop = "done" =>
    tasks = {} /\ StreamTasks = {} /\ \A c \in Conn : conn[c] \notin Live \cup {"backlog"}

\* Once the signal resolves the serve future does too, although no request
\* need ever end: the drain timeout bounds it.
ShutdownEnds == signal ~> loop \in {"done", "dropped"}

\* A client waits in the backlog for ever only where accepts go on failing, or the
\* server is full for ever of connections that are not idle: each goes on having
\* requests, is upgraded, or was told to close and waits for its client.  With an
\* idle timeout no idle connection keeps its slot, no slot that is given back stays
\* unused, and a shutdown turns the client away.
BacklogServed ==
  \A c \in Conn :
    <>[](conn[c] = "backlog") =>
      \/ []<>(loop = "pause")
      \/ /\ <>[](loop = "slot" /\ permits = 0)
         /\ \A d \in Conn : []<>(conn[d] \in {"handshake", "open"} => inflight[d] > 0)
=============================================================================
