----------------------- MODULE TranscodedCallProofs -----------------------
(***************************************************************************)
(* Theorems about TranscodedCall: whatever the route, the framing and the  *)
(* upstream, the call implements ServerStream, and how it ended can be     *)
(* read off the response, whose headers are the upstream's.  And about     *)
(* CanonicalTypes: whatever the product defines, the pool that error       *)
(* details are rendered with is complete.                                  *)
(***************************************************************************)
EXTENDS TranscodedCall, CanonicalTypes, WellFoundedInduction, TLAPS

Message == {"plain", "odd", "typed", "bad_type"}
Sent == Message \cup {"empty"}
ErrorNames == DOMAIN HttpStatus \cup {"body"}
FrameType == [kind : {"data", "error"}, of : Message \cup ErrorNames]

TypeOK ==
  /\ entry \in Entries /\ head \in BOOLEAN /\ sse \in BOOLEAN
  /\ phase \in {"reading", "opening", "first", "trailers", "body", "done"}
  /\ up \in {"idle", "called", "streaming", "ended", "cancelled"}
  /\ count \in Nat /\ sent \in Seq(Message) /\ pipe \in Seq(Sent) /\ first \in Sent \cup {"none"}
  /\ outcome \in Statuses \cup {Running}
  /\ wire = [status |-> wire.status, type |-> wire.type, headers |-> wire.headers,
             frames |-> wire.frames, end |-> wire.end]
  /\ wire.status \in Nat /\ wire.frames \in Seq(FrameType)
  /\ wire.end \in {"open", "clean", "aborted", "gone"}

\* Where the upstream is while the proxy is where it is.
InStep ==
  /\ outcome = Running <=> up # "ended"
  /\ phase = "reading" => up = "idle"
  /\ phase \in {"reading", "opening"} =>
       up \in {"idle", "called"} /\ pipe = <<>> /\ count = 0 /\ sent = <<>>
  /\ phase \in {"first", "trailers", "body"} => up \in {"streaming", "ended"}
  /\ phase = "done" => up \in {"idle", "ended", "cancelled"}
  /\ entry.shape = "json" => \A i \in 1 .. Len(pipe) : pipe[i] # "empty"
  /\ wire.end = "open" <=> phase # "done"
  /\ phase \notin {"body", "done"} => wire = NoResponse

\* The messages of p are, in order and but for the empty ones, those of s after
\* the first `from`.
Fits(s, p, from) ==
  \E at \in [1 .. Len(p) + 1 -> 0 .. Len(s)] :
    /\ at[1] = from /\ at[Len(p) + 1] = Len(s)
    /\ \A i \in 1 .. Len(p) :
         \/ p[i] = "empty" /\ at[i + 1] = at[i]
         \/ p[i] # "empty" /\ at[i + 1] = at[i] + 1 /\ s[at[i] + 1] = p[i]

\* A stream: what the client has is what was sent, up to what is not read yet.
StreamInStep ==
  /\ phase = "first" /\ entry.streaming => entry.shape = "http_body" /\ Fits(sent, pipe, 0)
  /\ phase = "body" =>
       /\ ~head /\ entry.streaming /\ wire.status = 200
       /\ wire.type \in IF entry.shape = "json" THEN {"sse", "ndjson"} ELSE {"http_body"}
       /\ Len(wire.frames) <= Len(sent) /\ Fits(sent, pipe, Len(wire.frames))
       /\ \A i \in 1 .. Len(wire.frames) :
            wire.frames[i].kind = "data" /\ wire.frames[i].of = sent[i]

Content(m) == IF m = "empty" THEN <<>> ELSE <<m>>

\* A unary call carries the first message and no other.
UnaryInStep ==
  /\ phase = "first" /\ ~entry.streaming =>
       IF pipe = <<>> THEN count = 0 /\ sent = <<>> ELSE count > 0 /\ sent = Content(pipe[1])
  /\ phase = "trailers" => ~entry.streaming /\ count > 0 /\ first \in Sent /\ sent = Content(first)

CallInv == TypeOK /\ InStep /\ StreamInStep /\ UnaryInStep /\ FailureVisible
-----------------------------------------------------------------------------
\* Facts about what is sent and not yet read.

\* Nothing sent, nothing to read.
LEMMA FitsNothing == Fits(<<>>, <<>>, 0)
<1> DEFINE at == [i \in 1 .. 1 |-> 0]
<1>1. at \in [1 .. Len(<<>>) + 1 -> 0 .. Len(<<>>)] /\ at[1] = 0
  OBVIOUS
<1>2. at[Len(<<>>) + 1] = Len(<<>>) /\ \A i \in 1 .. Len(<<>>) : FALSE
  OBVIOUS
<1> HIDE DEF at
<1> QED BY <1>1, <1>2 DEF Fits

\* What is sent comes behind what is there to read.
LEMMA FitsSend ==
  ASSUME NEW s \in Seq(Message), NEW p \in Seq(Sent), NEW from \in Nat, Fits(s, p, from), NEW m \in Sent
  PROVE  Fits(IF m = "empty" THEN s ELSE Append(s, m), Append(p, m), from)
<1> DEFINE t == IF m = "empty" THEN s ELSE Append(s, m)
           q == Append(p, m)
<1>1. PICK at \in [1 .. Len(p) + 1 -> 0 .. Len(s)] :
        /\ at[1] = from /\ at[Len(p) + 1] = Len(s)
        /\ \A i \in 1 .. Len(p) :
             \/ p[i] = "empty" /\ at[i + 1] = at[i]
             \/ p[i] # "empty" /\ at[i + 1] = at[i] + 1 /\ s[at[i] + 1] = p[i]
  BY DEF Fits
<1> DEFINE new == [i \in 1 .. Len(p) + 2 |-> IF i = Len(p) + 2 THEN Len(t) ELSE at[i]]
<1>2. m # "empty" => m \in Message
  BY DEF Sent
<1>3. /\ t \in Seq(Message) /\ Len(t) = IF m = "empty" THEN Len(s) ELSE Len(s) + 1
      /\ \A i \in 1 .. Len(s) : t[i] = s[i]
      /\ m # "empty" => t[Len(s) + 1] = m
  BY <1>2
<1>4. /\ q \in Seq(Sent) /\ Len(q) = Len(p) + 1 /\ q[Len(p) + 1] = m
      /\ \A i \in 1 .. Len(p) : q[i] = p[i]
  OBVIOUS
<1>5. Len(p) \in Nat /\ Len(s) \in Nat /\ Len(t) \in Nat
  BY <1>3
<1> HIDE DEF t, q
<1>6. new \in [1 .. Len(q) + 1 -> 0 .. Len(t)]
  <2>1. ASSUME NEW i \in 1 .. Len(p) + 2 PROVE new[i] \in 0 .. Len(t)
    <3>1. CASE i = Len(p) + 2 BY <1>5, <3>1
    <3>2. CASE i # Len(p) + 2
      <4>1. at[i] \in 0 .. Len(s) BY <1>5, <3>2
      <4> QED BY <1>3, <1>5, <3>2, <4>1
    <3> QED BY <3>1, <3>2
  <2>2. 1 .. Len(q) + 1 = 1 .. Len(p) + 2
    BY <1>4, <1>5
  <2> QED BY <2>1, <2>2
<1>7. new[1] = from /\ new[Len(q) + 1] = Len(t)
  BY <1>1, <1>4, <1>5
<1>8. ASSUME NEW i \in 1 .. Len(q)
      PROVE  \/ q[i] = "empty" /\ new[i + 1] = new[i]
             \/ q[i] # "empty" /\ new[i + 1] = new[i] + 1 /\ t[new[i] + 1] = q[i]
  <2>1. CASE i \in 1 .. Len(p)
    <3>1. new[i] = at[i] /\ new[i + 1] = at[i + 1] /\ q[i] = p[i]
      BY <1>4, <1>5, <2>1
    <3>2. at[i] \in 0 .. Len(s) /\ at[i + 1] \in 0 .. Len(s)
      BY SMTT(60), <1>5, <2>1
    <3>3. at[i + 1] = at[i] + 1 => at[i] + 1 \in 1 .. Len(s)
      BY <1>5, <3>2
    <3> HIDE DEF new
    <3> QED BY <1>1, <1>3, <2>1, <3>1, <3>2, <3>3
  <2>2. CASE i = Len(p) + 1
    <3>1. new[i] = Len(s) /\ new[i + 1] = Len(t) /\ q[i] = m
      BY <1>1, <1>4, <1>5, <2>2
    <3> HIDE DEF new
    <3> QED BY <1>3, <1>5, <3>1
  <2>3. i \in 1 .. Len(p) \/ i = Len(p) + 1
    BY <1>4, <1>5
  <2> QED BY <2>1, <2>2, <2>3
<1> HIDE DEF new
<1>9. Fits(t, q, from)
  BY <1>6, <1>7, <1>8 DEF Fits
<1> QED BY <1>9 DEF t, q

\* The next message read is the next one due, unless it is empty.
LEMMA FitsRead ==
  ASSUME NEW s \in Seq(Message), NEW p \in Seq(Sent), NEW from \in Nat, Fits(s, p, from), p # <<>>
  PROVE  IF p[1] = "empty" THEN Fits(s, Tail(p), from)
         ELSE from < Len(s) /\ s[from + 1] = p[1] /\ Fits(s, Tail(p), from + 1)
<1>1. PICK at \in [1 .. Len(p) + 1 -> 0 .. Len(s)] :
        /\ at[1] = from /\ at[Len(p) + 1] = Len(s)
        /\ \A i \in 1 .. Len(p) :
             \/ p[i] = "empty" /\ at[i + 1] = at[i]
             \/ p[i] # "empty" /\ at[i + 1] = at[i] + 1 /\ s[at[i] + 1] = p[i]
  BY DEF Fits
<1> DEFINE q == Tail(p)
           new == [i \in 1 .. Len(p) |-> at[i + 1]]
<1>2. /\ q \in Seq(Sent) /\ Len(q) + 1 = Len(p) /\ Len(q) \in Nat /\ Len(p) > 0
      /\ \A i \in 1 .. Len(q) : q[i] = p[i + 1]
  OBVIOUS
<1>3. Len(s) \in Nat /\ Len(p) \in Nat
  OBVIOUS
<1> HIDE DEF q
<1>4. new \in [1 .. Len(q) + 1 -> 0 .. Len(s)] /\ new[1] = at[2] /\ new[Len(q) + 1] = Len(s)
  BY <1>1, <1>2, <1>3
<1>5. ASSUME NEW i \in 1 .. Len(q)
      PROVE  \/ q[i] = "empty" /\ new[i + 1] = new[i]
             \/ q[i] # "empty" /\ new[i + 1] = new[i] + 1 /\ s[new[i] + 1] = q[i]
  <2>1. i + 1 \in 1 .. Len(p) /\ new[i] = at[i + 1] /\ new[i + 1] = at[(i + 1) + 1] /\ q[i] = p[i + 1]
    BY <1>2, <1>3
  <2> HIDE DEF new
  <2> QED BY <1>1, <2>1
<1> HIDE DEF new
<1>6. Fits(s, q, at[2])
  BY <1>4, <1>5 DEF Fits
<1>7. \/ p[1] = "empty" /\ at[2] = from
      \/ p[1] # "empty" /\ at[2] = from + 1 /\ s[from + 1] = p[1]
  BY <1>1, <1>2, <1>3
<1>8. at[2] <= Len(s)
  BY <1>2, <1>3
<1> QED BY <1>3, <1>6, <1>7, <1>8 DEF q

\* Nothing to read, nothing due.
LEMMA FitsAll ==
  ASSUME NEW s \in Seq(Message), NEW from \in Nat, Fits(s, <<>>, from)
  PROVE  from = Len(s)
BY DEF Fits

-----------------------------------------------------------------------------
\* Bodies.

\* A body of messages alone.
Messages(frames) ==
  /\ frames \in Seq(FrameType)
  /\ \A i \in 1 .. Len(frames) : frames[i].kind = "data"

\* What a frame is.
LEMMA FrameIs ==
  /\ \A m \in Message : /\ Frame("data", m) \in FrameType /\ Frame("data", m).kind = "data"
                        /\ Frame("data", m).of = m
  /\ \A e \in ErrorNames : Frame("error", e) \in FrameType /\ Frame("error", e).kind = "error"
BY DEF Frame, FrameType

\* An empty body holds no message and no error.
LEMMA NoFrames == Messages(<<>>) /\ Data(<<>>) = <<>> /\ ~Erred(<<>>)
<1>1. ~Erred(<<>>) /\ Messages(<<>>)
  BY DEF Erred, Messages
<1>2. Data(<<>>) = [i \in 1 .. 0 |-> <<>>[i].of]
  BY <1>1 DEF Data
<1> QED BY <1>1, <1>2

\* The messages of a body without an error are all of it.
LEMMA DataOf ==
  ASSUME NEW frames, Messages(frames)
  PROVE  /\ ~Erred(frames) /\ Data(frames) = [i \in 1 .. Len(frames) |-> frames[i].of]
         /\ Len(Data(frames)) = Len(frames)
         /\ Data(frames) \in Seq(Message \cup ErrorNames)
<1>1. frames \in Seq(FrameType) /\ Len(frames) \in Nat /\ \A i \in 1 .. Len(frames) : frames[i].kind = "data"
  BY DEF Messages
<1>2. ~Erred(frames)
  BY <1>1 DEF Erred
<1>3. Data(frames) = [i \in 1 .. Len(frames) |-> frames[i].of]
  BY <1>2 DEF Data
<1>4. \A i \in 1 .. Len(frames) : frames[i].of \in Message \cup ErrorNames
  <2>1. \A i \in 1 .. Len(frames) : frames[i] \in FrameType
    BY <1>1
  <2> QED BY <2>1 DEF FrameType
<1> QED BY <1>1, <1>2, <1>3, <1>4

\* A message added to a body is added to its messages.
LEMMA DataPushed ==
  ASSUME NEW frames, Messages(frames), NEW m \in Message
  PROVE  /\ Messages(Append(frames, Frame("data", m)))
         /\ Data(Append(frames, Frame("data", m))) = Append(Data(frames), m)
<1> DEFINE more == Append(frames, Frame("data", m))
<1>1. frames \in Seq(FrameType) /\ Len(frames) \in Nat /\ \A i \in 1 .. Len(frames) : frames[i].kind = "data"
  BY DEF Messages
<1>2. Frame("data", m) \in FrameType /\ Frame("data", m).kind = "data" /\ Frame("data", m).of = m
  BY FrameIs
<1>3. /\ more \in Seq(FrameType) /\ Len(more) = Len(frames) + 1
      /\ more[Len(frames) + 1] = Frame("data", m) /\ \A i \in 1 .. Len(frames) : more[i] = frames[i]
  BY <1>1, <1>2
<1> HIDE DEF more
<1>4. Messages(more)
  BY <1>1, <1>2, <1>3 DEF Messages
<1>5. Data(more) = [i \in 1 .. Len(more) |-> more[i].of] /\ Data(frames) = [i \in 1 .. Len(frames) |-> frames[i].of]
      /\ Data(frames) \in Seq(Message \cup ErrorNames) /\ Len(Data(frames)) = Len(frames)
  BY <1>4, DataOf
<1>6. Data(more) = Append(Data(frames), m)
  <2>1. Append(Data(frames), m) = [i \in 1 .. Len(frames) + 1 |-> IF i = Len(frames) + 1 THEN m ELSE Data(frames)[i]]
    BY <1>1, <1>5
  <2>2. \A i \in 1 .. Len(frames) + 1 : more[i].of = IF i = Len(frames) + 1 THEN m ELSE Data(frames)[i]
    BY <1>1, <1>2, <1>3, <1>5
  <2> QED BY <1>3, <1>5, <2>1, <2>2
<1> QED BY <1>4, <1>6 DEF more

\* An error added to a body leaves its messages as they are.
LEMMA ErrorPushed ==
  ASSUME NEW frames, Messages(frames), NEW e \in ErrorNames
  PROVE  /\ frames \o <<Frame("error", e)>> \in Seq(FrameType)
         /\ Len(frames \o <<Frame("error", e)>>) = Len(frames) + 1
         /\ \A i \in 1 .. Len(frames) : (frames \o <<Frame("error", e)>>)[i] = frames[i]
         /\ (frames \o <<Frame("error", e)>>)[Len(frames) + 1] = Frame("error", e)
         /\ Erred(frames \o <<Frame("error", e)>>)
         /\ Data(frames \o <<Frame("error", e)>>) = Data(frames)
<1> DEFINE more == frames \o <<Frame("error", e)>>
<1>1. frames \in Seq(FrameType) /\ Len(frames) \in Nat
  BY DEF Messages
<1>2. Frame("error", e) \in FrameType /\ Frame("error", e).kind = "error"
  BY FrameIs
<1>3. <<Frame("error", e)>> \in Seq(FrameType) /\ Len(<<Frame("error", e)>>) = 1
      /\ <<Frame("error", e)>>[1] = Frame("error", e)
  BY <1>2
<1>4. /\ more \in Seq(FrameType) /\ Len(more) = Len(frames) + 1
      /\ \A i \in 1 .. Len(frames) : more[i] = frames[i]
      /\ more[Len(frames) + 1] = Frame("error", e)
  <2>1. more \in Seq(FrameType) /\ Len(more) = Len(frames) + 1
    BY <1>1, <1>3
  <2>2. \A i \in 1 .. Len(frames) : more[i] = frames[i]
    BY <1>1, <1>3
  <2>3. more[Len(frames) + 1] = Frame("error", e)
    BY <1>1, <1>3
  <2> QED BY <2>1, <2>2, <2>3
<1> HIDE DEF more
<1>5. more # <<>>
  BY <1>1, <1>4
<1>6. Erred(more)
  BY <1>2, <1>4, <1>5 DEF Erred
<1>7. Data(more) = [i \in 1 .. Len(frames) |-> more[i].of]
  BY <1>1, <1>4, <1>6 DEF Data
<1>8. Data(frames) = [i \in 1 .. Len(frames) |-> frames[i].of]
  BY DataOf
<1>9. Data(more) = Data(frames)
  BY <1>4, <1>7, <1>8
<1> QED BY <1>4, <1>6, <1>9 DEF more

\* A body that is an error alone holds no message.
LEMMA OneError ==
  ASSUME NEW e \in ErrorNames
  PROVE  /\ <<Frame("error", e)>> \in Seq(FrameType) /\ Erred(<<Frame("error", e)>>)
         /\ Data(<<Frame("error", e)>>) = <<>>
<1>1. Frame("error", e) \in FrameType /\ Frame("error", e).kind = "error"
  BY FrameIs
<1>2. <<Frame("error", e)>> \in Seq(FrameType) /\ Erred(<<Frame("error", e)>>)
  BY <1>1 DEF Erred
<1>3. Data(<<Frame("error", e)>>) = [i \in 1 .. 0 |-> <<Frame("error", e)>>[i].of]
  BY <1>2 DEF Data
<1> QED BY <1>2, <1>3

\* The body of one message holds it, or nothing when it is empty.
LEMMA ChunkIs ==
  ASSUME NEW m \in Sent
  PROVE  /\ Messages(Chunk(m)) /\ Data(Chunk(m)) = Content(m) /\ Content(m) \in Seq(Message)
         /\ \A i \in 1 .. Len(Chunk(m)) : Chunk(m)[i].of = m /\ m # "empty"
<1>1. CASE m = "empty"
  BY <1>1, NoFrames DEF Chunk, Content
<1>2. CASE m # "empty"
  <2>1. m \in Message
    BY <1>2 DEF Sent
  <2>2. Frame("data", m) \in FrameType /\ Frame("data", m).kind = "data" /\ Frame("data", m).of = m
    BY <2>1, FrameIs
  <2>3. Chunk(m) = <<Frame("data", m)>> /\ Content(m) = <<m>>
    BY <1>2 DEF Chunk, Content
  <2>4. Messages(Chunk(m))
    BY <2>2, <2>3 DEF Messages
  <2>5. Data(Chunk(m)) = [i \in 1 .. 1 |-> m]
    BY <2>2, <2>3, <2>4, DataOf
  <2>6. \A i \in 1 .. Len(Chunk(m)) : Chunk(m)[i].of = m
    BY <2>2, <2>3
  <2> QED BY <1>2, <2>1, <2>3, <2>4, <2>5, <2>6
<1> QED BY <1>1, <1>2

\* Responses.

\* The codes the proxy maps are those of gRPC.
LEMMA HttpStatusCodes ==
  DOMAIN HttpStatus =
    {"ok", "cancelled", "unknown", "invalid_argument", "deadline_exceeded", "not_found",
     "already_exists", "permission_denied", "resource_exhausted", "failed_precondition", "aborted",
     "out_of_range", "unimplemented", "internal", "unavailable", "data_loss", "unauthenticated"}
BY DEF HttpStatus

\* Every gRPC error is an HTTP error.
LEMMA HttpStatusFails ==
  ASSUME NEW code \in DOMAIN HttpStatus \ {"ok"}
  PROVE  HttpStatus[code] \in Nat /\ HttpStatus[code] >= 400
<1>1. CASE code \in {"cancelled", "unknown", "invalid_argument", "deadline_exceeded"}
  BY <1>1 DEF HttpStatus
<1>2. CASE code \in {"not_found", "already_exists", "permission_denied", "resource_exhausted"}
  BY <1>2 DEF HttpStatus
<1>3. CASE code \in {"failed_precondition", "aborted", "out_of_range", "unimplemented"}
  BY <1>3 DEF HttpStatus
<1>4. CASE code \in {"internal", "unavailable", "data_loss", "unauthenticated"}
  BY <1>4 DEF HttpStatus
<1> QED BY <1>1, <1>2, <1>3, <1>4, HttpStatusCodes

\* A complete answer that says the call failed.
Failing(response) ==
  /\ response = [status |-> response.status, type |-> response.type, headers |-> response.headers,
                 frames |-> response.frames, end |-> "clean"]
  /\ response.status \in Nat /\ response.status >= 400
  /\ \E e \in ErrorNames : response.frames = <<Frame("error", e)>>

\* An error status with an error body says the call failed.
LEMMA FullFails ==
  ASSUME NEW status \in Nat, status >= 400, NEW type, NEW headers, NEW e \in ErrorNames
  PROVE  Failing(Full(status, headers, type, <<Frame("error", e)>>))
<1>1. status \notin {204, 205, 304}
  OBVIOUS
<1>2. Full(status, headers, type, <<Frame("error", e)>>) =
        [status |-> status, type |-> type, headers |-> headers, frames |-> <<Frame("error", e)>>,
         end |-> "clean"]
  BY <1>1 DEF Full
<1> QED BY <1>2 DEF Failing

\* The codes the proxy uses of itself are mapped; that of a running call is none.
LEMMA InDomain ==
  /\ "internal" \in DOMAIN HttpStatus /\ "ok" \in DOMAIN HttpStatus
  /\ "invalid_argument" \in DOMAIN HttpStatus /\ "unavailable" \in DOMAIN HttpStatus
  /\ "deadline_exceeded" \in DOMAIN HttpStatus /\ "none" \notin DOMAIN HttpStatus
BY HttpStatusCodes

\* The answer to any gRPC error says the call failed, its details readable or not.
LEMMA ErrorAnswerFails ==
  ASSUME NEW status, status.code \in DOMAIN HttpStatus \ {"ok"}, NEW metadata
  PROVE  Failing(ErrorAnswer(status, metadata))
<1>1. Rendered(status) \in DOMAIN HttpStatus \ {"ok"}
  BY InDomain DEF Rendered
<1>2. HttpStatus[Rendered(status)] \in Nat /\ HttpStatus[Rendered(status)] >= 400
  BY <1>1, HttpStatusFails
<1>3. Rendered(status) \in ErrorNames
  BY <1>1 DEF ErrorNames
<1> QED BY <1>2, <1>3, FullFails DEF ErrorAnswer

\* So does the answer to what the proxy cannot pass on.
LEMMA MalformedFails == Failing(Malformed)
<1>1. "internal" \in ErrorNames
  BY InDomain DEF ErrorNames
<1> QED BY <1>1, FullFails DEF Malformed

\* A status that ended a call is an OK, or an error whose code is not OK.
LEMMA StatusKinds ==
  /\ \A status \in Statuses : /\ status.code \in DOMAIN HttpStatus /\ status # Running
                              /\ status # Ok => status.code # "ok"
  /\ Running # Ok
<1>1. \A status \in Statuses : status.code \in DOMAIN HttpStatus /\ (status # Ok => status.code # "ok")
  BY CallAssumption
<1>2. Running.code = "none" /\ Ok.code = "ok"
  BY DEF Running, Ok, Status
<1> QED BY <1>1, <1>2, InDomain

\* The status x-http-code asks for is one, or none at all.
LEMMA CodeIsStatus ==
  ASSUME NEW metadata
  PROVE  CodeOf(metadata) \in Nat /\ (CodeOf(metadata) = 0 \/ CodeOf(metadata) \in 200 .. 599)
<1> DEFINE codes == HttpCodes(metadata)
<1>1. CodeOf(metadata) = IF codes = <<>> THEN 200
                         ELSE IF Len(codes) > 1 \/ codes[1][2] \notin 200 .. 599 THEN 0
                         ELSE codes[1][2]
  BY DEF CodeOf
<1> HIDE DEF codes
<1>2. CASE codes = <<>> BY <1>1, <1>2
<1>3. CASE codes # <<>> /\ (Len(codes) > 1 \/ codes[1][2] \notin 200 .. 599) BY <1>1, <1>3
<1>4. CASE codes # <<>> /\ ~(Len(codes) > 1) /\ codes[1][2] \in 200 .. 599
  <2>1. CodeOf(metadata) = codes[1][2]
    BY <1>1, <1>4
  <2>2. CodeOf(metadata) \in 200 .. 599
    BY <1>4, <2>1, Zenon
  <2>3. \A code \in 200 .. 599 : code \in Nat
    OBVIOUS
  <2> QED BY <2>2, <2>3, Zenon
<1> QED BY <1>2, <1>3, <1>4

-----------------------------------------------------------------------------
\* The steps: each keeps the invariant, and is one of the abstract stream or none.

Refines == Promise!StreamNext \/ UNCHANGED <<sent, Ended, Data(wire.frames), Verdict(head, wire)>>

\* Until the body begins the client has nothing; after that, messages.
LEMMA StillOpen ==
  ASSUME CallInv, phase # "done"
  PROVE  /\ Verdict(head, wire) = "open" /\ Messages(wire.frames)
         /\ phase # "body" => wire.frames = <<>>
<1>1. wire.end = "open"
  BY DEF CallInv, InStep
<1>2. Verdict(head, wire) = "open"
  BY <1>1 DEF Verdict
<1>3. phase # "body" => wire.frames = <<>>
  BY DEF CallInv, InStep, NoResponse
<1>4. Messages(wire.frames)
  <2>1. CASE phase = "body"
    BY <2>1 DEF CallInv, StreamInStep, TypeOK, Messages
  <2>2. CASE phase # "body"
    BY <1>3, <2>2, NoFrames
  <2> QED BY <2>1, <2>2
<1> QED BY <1>2, <1>3, <1>4

\* Once the response is over, nothing but its fields is left to show.
LEMMA OverSound ==
  ASSUME CallInv, phase' = "done", UNCHANGED <<entry, head, sse, count, sent, first>>,
         pipe' = <<>>, up' \in {"idle", "ended", "cancelled"}, outcome' \in Statuses \cup {Running},
         outcome' = Running <=> up' # "ended",
         wire' = [status |-> wire'.status, type |-> wire'.type, headers |-> wire'.headers,
                  frames |-> wire'.frames, end |-> wire'.end],
         wire'.status \in Nat, wire'.frames \in Seq(FrameType), wire'.end \in {"clean", "aborted", "gone"},
         FailureVisible'
  PROVE  CallInv'
<1>1. TypeOK'
  BY DEF CallInv, TypeOK
<1>2. InStep'
  BY DEF InStep
<1>3. StreamInStep' /\ UnaryInStep'
  BY DEF StreamInStep, UnaryInStep
<1> QED BY <1>1, <1>2, <1>3 DEF CallInv

\* Why a call that went well may be answered as if it had not.
Excused == Saw("odd") \/ Saw("bad_type") \/ CodeOf(initial \o trailers) \notin 200 .. 399 \/ count = 0

\* The upstream is left as it is, or ends the call with the error that answers it.
LEMMA FailingEnds ==
  ASSUME CallInv, phase \notin {"body", "done"}, phase' = "done",
         UNCHANGED <<entry, head, sse, count, sent, first>>, pipe' = <<>>,
         up' \in {"idle", "ended", "cancelled"}, outcome' \in Statuses \cup {Running},
         outcome' = Running <=> up' # "ended",
         outcome' = outcome \/ (outcome = Running /\ outcome' # Ok),
         NEW response, Failing(response),
         wire' = [response EXCEPT !.frames = IF head THEN <<>> ELSE @],
         outcome' = Ok => Excused'
  PROVE  CallInv' /\ Refines
<1>1. /\ response = [status |-> response.status, type |-> response.type, headers |-> response.headers,
                     frames |-> response.frames, end |-> "clean"]
      /\ response.status \in Nat /\ response.status >= 400
  BY DEF Failing
<1>2. PICK e \in ErrorNames : response.frames = <<Frame("error", e)>>
  BY DEF Failing
<1> DEFINE body == <<Frame("error", e)>>
<1>3. body \in Seq(FrameType) /\ Erred(body) /\ Data(body) = <<>>
  BY OneError
<1>4. Len(body) = 1
  OBVIOUS
<1> HIDE DEF body
<1>5. head \in BOOLEAN
  BY DEF CallInv, TypeOK
<1>6. /\ wire'.status = response.status /\ wire'.type = response.type /\ wire'.headers = response.headers
      /\ wire'.frames = (IF head THEN <<>> ELSE body) /\ wire'.end = "clean"
      /\ wire' = [status |-> wire'.status, type |-> wire'.type, headers |-> wire'.headers,
                  frames |-> wire'.frames, end |-> wire'.end]
  BY <1>1, <1>2 DEF body
<1>7. wire'.frames \in Seq(FrameType) /\ Data(wire'.frames) = <<>>
  BY <1>3, <1>5, <1>6, NoFrames
<1>8. FailureVisible'
  <2>1. wire'.status >= 400
    BY <1>1, <1>6
  <2>2. \A i \in DOMAIN wire'.frames : i = Len(wire'.frames)
    <3>1. CASE head BY <1>6, <3>1
    <3>2. CASE ~head
      <4>1. wire'.frames = body BY <1>6, <3>2
      <4>2. DOMAIN body = 1 .. 1 BY <1>3, <1>4
      <4>3. \A i \in 1 .. 1 : i = 1 OBVIOUS
      <4>4. \A i \in DOMAIN body : i = Len(body) BY <1>4, <4>2, <4>3, Zenon
      <4> QED BY <4>1, <4>4, Zenon
    <3> QED BY <3>1, <3>2
  <2>3. (outcome' = Ok) => (\/ Saw("odd")' \/ Saw("bad_type")'
                            \/ CodeOf(initial' \o trailers') \notin 200 .. 399 \/ count' = 0)
    BY DEF Excused
  <2> QED BY <1>6, <2>1, <2>2, <2>3 DEF FailureVisible
<1>9. CallInv'
  BY <1>1, <1>6, <1>7, <1>8, OverSound
<1>10. Data(wire.frames) = <<>> /\ Verdict(head, wire) = "open"
  BY StillOpen, NoFrames
<1>11. Verdict(head, wire)' = IF head THEN "cut" ELSE "error"
  <2>1. CASE head BY <1>6, <2>1 DEF Verdict
  <2>2. CASE ~head
    <3>1. wire'.frames = body /\ wire'.end = "clean" /\ wire'.status \notin {204, 205, 304}
      BY <1>1, <1>6, <2>2
    <3> QED BY <1>3, <2>2, <3>1 DEF Verdict
  <2> QED BY <2>1, <2>2
<1>12. Ended' = Ended \/ (Ended = "no" /\ Ended' = "error")
  BY StatusKinds DEF Ended
<1>13. Promise!StopEarly(IF head THEN "cut" ELSE "error")
  BY <1>7, <1>10, <1>11, <1>12 DEF Promise!StopEarly
<1>14. Promise!StreamNext
  <2>1. CASE head BY <1>13, <2>1 DEF Promise!StreamNext
  <2>2. CASE ~head BY <1>13, <2>2 DEF Promise!StreamNext
  <2> QED BY <2>1, <2>2
<1> QED BY <1>9, <1>14 DEF Refines

\* The proxy answers with a failure.
LEMMA FailingAnswered ==
  ASSUME CallInv, phase \notin {"body", "done"}, NEW response, Failing(response),
         Answer(response), UNCHANGED <<asked, upstream, first>>, outcome = Ok => Excused
  PROVE  CallInv' /\ Refines
<1>1. UNCHANGED <<entry, head, sse, count, sent, outcome, initial, trailers, first>>
  BY DEF asked, upstream
<1>2. /\ wire' = [response EXCEPT !.frames = IF head THEN <<>> ELSE @] /\ phase' = "done"
      /\ pipe' = <<>> /\ up' = IF up \in {"called", "streaming"} THEN "cancelled" ELSE up
  BY DEF Answer
<1>3. /\ up \in {"idle", "called", "streaming", "ended"} /\ (outcome = Running <=> up # "ended")
      /\ outcome \in Statuses \cup {Running}
  BY DEF CallInv, InStep, TypeOK
<1>4. up' \in {"idle", "ended", "cancelled"} /\ (outcome' = Running <=> up' # "ended")
  BY <1>1, <1>2, <1>3
<1>5. outcome' = Ok => Excused'
  BY <1>1 DEF Excused, Saw
<1> QED BY <1>1, <1>2, <1>3, <1>4, <1>5, FailingEnds

\* A request refused before the upstream is called.
LEMMA RefuseStep ==
  ASSUME CallInv, Refuse
  PROVE  CallInv' /\ Refines
<1>1. phase = "reading" /\ UNCHANGED <<asked, upstream, first>>
  BY DEF Refuse
<1>2. outcome # Ok
  BY <1>1, StatusKinds DEF CallInv, InStep
<1>3. CASE Answer(Full(413, <<>>, "text", <<Frame("error", "body")>>))
  <2>1. Failing(Full(413, <<>>, "text", <<Frame("error", "body")>>))
    BY FullFails DEF ErrorNames
  <2> QED BY <1>1, <1>2, <1>3, <2>1, FailingAnswered
<1>4. CASE Answer(ErrorAnswer(Status("invalid_argument"), <<>>))
  <2>1. Failing(ErrorAnswer(Status("invalid_argument"), <<>>))
    BY InDomain, ErrorAnswerFails DEF Status
  <2> QED BY <1>1, <1>2, <1>4, <2>1, FailingAnswered
<1> QED BY <1>3, <1>4 DEF Refuse

\* A step that changes neither what is sent nor what is answered.
LEMMA Unseen ==
  ASSUME UNCHANGED <<sent, outcome, wire, head>>
  PROVE  Refines
BY DEF Refines, Ended, Verdict

\* The request is read and mapped.
LEMMA PrepareStep ==
  ASSUME CallInv, Prepare
  PROVE  CallInv' /\ Refines
<1>1. /\ phase = "reading" /\ phase' = "opening"
      /\ UNCHANGED <<entry, head, sse, up, count, sent, pipe, outcome, initial, trailers, first, wire>>
  BY DEF Prepare, asked, upstream
<1>2. TypeOK' /\ InStep' /\ StreamInStep' /\ UnaryInStep'
  BY <1>1 DEF CallInv, TypeOK, InStep, StreamInStep, UnaryInStep
<1>3. FailureVisible'
  BY <1>1 DEF CallInv, FailureVisible, ReadsAsError, Saw
<1> QED BY <1>1, <1>2, <1>3, Unseen DEF CallInv

\* The upstream takes the call.
LEMMA ReadyStep ==
  ASSUME CallInv, Ready
  PROVE  CallInv' /\ Refines
<1>1. /\ phase = "opening" /\ up = "idle" /\ up' = "called"
      /\ UNCHANGED <<entry, head, sse, phase, count, sent, pipe, outcome, initial, trailers, first, wire>>
  BY DEF Ready, asked, upstream
<1>2. TypeOK' /\ InStep' /\ StreamInStep' /\ UnaryInStep'
  BY <1>1 DEF CallInv, TypeOK, InStep, StreamInStep, UnaryInStep
<1>3. FailureVisible'
  BY <1>1 DEF CallInv, FailureVisible, ReadsAsError, Saw
<1> QED BY <1>1, <1>2, <1>3, Unseen DEF CallInv

\* The upstream cannot take the call, or the deadline passes before its headers.
LEMMA NotReadyStep ==
  ASSUME CallInv, NotReady \/ Expire
  PROVE  CallInv' /\ Refines
<1>1. phase = "opening" /\ up # "ended" /\ UNCHANGED <<asked, upstream, first>>
  BY DEF NotReady, Expire
<1>2. outcome # Ok
  BY <1>1, StatusKinds DEF CallInv, InStep
<1>3. Failing(ErrorAnswer(Status("unavailable"), <<>>)) /\ Failing(ErrorAnswer(Status("deadline_exceeded"), <<>>))
  BY InDomain, ErrorAnswerFails DEF Status
<1>4. Answer(ErrorAnswer(Status("unavailable"), <<>>)) \/ Answer(ErrorAnswer(Status("deadline_exceeded"), <<>>))
  BY DEF NotReady, Expire
<1> QED BY <1>1, <1>2, <1>3, <1>4, FailingAnswered

\* The upstream answers with a status alone.
LEMMA TrailersOnlyStep ==
  ASSUME CallInv, NEW status \in Statuses, status # Ok, NEW metadata,
         TrailersOnly(status, metadata)
  PROVE  CallInv' /\ Refines
<1>1. /\ phase = "opening" /\ up = "called" /\ up' = "ended" /\ outcome' = status /\ phase' = "done"
      /\ wire' = [ErrorAnswer(status, metadata) EXCEPT !.frames = IF head THEN <<>> ELSE @]
      /\ UNCHANGED <<entry, head, sse, count, sent, initial, first, pipe>>
  BY DEF TrailersOnly, asked
<1>2. outcome = Running /\ pipe = <<>>
  BY <1>1 DEF CallInv, InStep
<1>3. status # Running /\ Failing(ErrorAnswer(status, metadata))
  BY StatusKinds, ErrorAnswerFails
<1> QED BY <1>1, <1>2, <1>3, FailingEnds

\* The client leaves: whatever was on its way is cut.
LEMMA ClientLeavesStep ==
  ASSUME CallInv, ClientLeaves
  PROVE  CallInv' /\ Refines
<1>1. /\ phase # "done" /\ phase' = "done" /\ pipe' = <<>>
      /\ up' = (IF up \in {"called", "streaming"} THEN "cancelled" ELSE up)
      /\ wire' = [wire EXCEPT !.end = "gone"]
      /\ UNCHANGED <<entry, head, sse, count, sent, outcome, initial, trailers, first>>
  BY DEF ClientLeaves, asked, upstream
<1>2. /\ up \in {"idle", "called", "streaming", "ended"} /\ (outcome = Running <=> up # "ended")
      /\ outcome \in Statuses \cup {Running} /\ wire.status \in Nat /\ wire.frames \in Seq(FrameType)
      /\ wire = [status |-> wire.status, type |-> wire.type, headers |-> wire.headers,
                 frames |-> wire.frames, end |-> wire.end]
  BY <1>1 DEF CallInv, InStep, TypeOK
<1>3. /\ wire'.status = wire.status /\ wire'.frames = wire.frames /\ wire'.end = "gone"
      /\ wire' = [status |-> wire'.status, type |-> wire'.type, headers |-> wire'.headers,
                  frames |-> wire'.frames, end |-> wire'.end]
  BY <1>1, <1>2
<1>4. Verdict(head, wire) = "open" /\ Messages(wire.frames)
  BY <1>1, StillOpen
<1>5. FailureVisible'
  <2>1. \A i \in DOMAIN wire'.frames : wire'.frames[i].kind # "error"
    BY <1>3, <1>4 DEF Messages
  <2> QED BY <1>3, <2>1 DEF FailureVisible
<1>6. up' \in {"idle", "ended", "cancelled"} /\ (outcome' = Running <=> up' # "ended")
  BY <1>1, <1>2
<1>7. CallInv'
  BY <1>1, <1>2, <1>3, <1>5, <1>6, OverSound
<1>8. Verdict(head, wire)' = "cut"
  BY <1>3 DEF Verdict
<1>9. Ended' = Ended
  BY <1>1 DEF Ended
<1>10. Promise!StopEarly("cut")
  BY <1>1, <1>3, <1>4, <1>8, <1>9 DEF Promise!StopEarly
<1> QED BY <1>7, <1>10 DEF Refines, Promise!StreamNext

\* The upstream ends the call.
LEMMA UpstreamEndsStep ==
  ASSUME CallInv, NEW status \in Statuses, NEW metadata, UpstreamEnds(status, metadata)
  PROVE  CallInv' /\ Refines
<1>1. /\ up = "streaming" /\ up' = "ended" /\ outcome' = status
      /\ UNCHANGED <<entry, head, sse, phase, count, sent, pipe, initial, first, wire>>
  BY DEF UpstreamEnds, asked
<1>2. outcome = Running /\ phase \in {"first", "trailers", "body"} /\ wire.end = "open" /\ status # Running
  BY <1>1, StatusKinds DEF CallInv, InStep, TypeOK
<1>3. TypeOK' /\ InStep'
  BY <1>1, <1>2 DEF CallInv, TypeOK, InStep
<1>4. StreamInStep' /\ UnaryInStep'
  BY <1>1 DEF CallInv, StreamInStep, UnaryInStep
<1>5. FailureVisible'
  BY <1>1, <1>2 DEF CallInv, FailureVisible
<1>6. Ended = "no" /\ Ended' \in {"ok", "error"}
  BY <1>1, <1>2, StatusKinds DEF Ended
<1>7. Promise!End
  BY <1>1, <1>6 DEF Promise!End, Verdict
<1> QED BY <1>3, <1>4, <1>5, <1>7 DEF CallInv, Refines, Promise!StreamNext

\* The upstream sends a message.
LEMMA UpstreamSendsStep ==
  ASSUME CallInv, NEW m \in {"plain", "odd", "typed", "empty", "bad_type"},
         UpstreamSends(m)
  PROVE  CallInv' /\ Refines
<1>1. /\ up = "streaming" /\ m \in Kinds /\ count' = count + 1 /\ pipe' = Append(pipe, m)
      /\ sent' = (IF Carries(m) THEN Append(sent, m) ELSE sent)
      /\ UNCHANGED <<entry, head, sse, outcome, initial, trailers, phase, up, first, wire>>
  BY DEF UpstreamSends, asked
<1>2. /\ outcome = Running /\ phase \in {"first", "trailers", "body"} /\ wire.end = "open"
      /\ sent \in Seq(Message) /\ pipe \in Seq(Sent) /\ count \in Nat
      /\ entry.shape \in {"json", "http_body"} /\ entry.streaming \in BOOLEAN
  BY <1>1, CallAssumption DEF CallInv, InStep, TypeOK
<1>3. m \in Sent /\ (m # "empty" => m \in Message) /\ (entry.shape = "json" => m # "empty")
  BY <1>1 DEF Kinds, Sent, Message
<1>4. sent' \in Seq(Message) /\ pipe' \in Seq(Sent) /\ count' \in Nat
  BY <1>1, <1>2, <1>3 DEF Carries
<1>5. TypeOK'
  BY <1>1, <1>4 DEF CallInv, TypeOK
<1>6. InStep'
  <2>1. /\ Len(pipe') = Len(pipe) + 1 /\ pipe'[Len(pipe) + 1] = m
        /\ \A i \in 1 .. Len(pipe) : pipe'[i] = pipe[i]
    BY <1>1, <1>2, <1>3
  <2>2. entry.shape = "json" => \A i \in 1 .. Len(pipe') : pipe'[i] # "empty"
    BY <1>2, <1>3, <2>1 DEF CallInv, InStep
  <2> QED BY <1>1, <1>2, <2>2 DEF CallInv, InStep
<1>7. StreamInStep'
  <2>1. ASSUME entry.streaming, NEW from \in Nat, Fits(sent, pipe, from)
        PROVE  Fits(sent', pipe', from)
    <3>1. sent' = IF m = "empty" THEN sent ELSE Append(sent, m)
      BY <1>1, <2>1 DEF Carries
    <3> QED BY <1>1, <1>2, <1>3, <2>1, <3>1, FitsSend
  <2>2. /\ Len(sent) <= Len(sent') /\ Len(sent') \in Nat
        /\ \A i \in 1 .. Len(sent) : sent'[i] = sent[i]
    BY <1>1, <1>2, <1>3
  <2>3. Len(wire.frames) \in Nat /\ Len(sent) \in Nat
    BY <1>2 DEF CallInv, TypeOK
  <2>4. (phase = "first" /\ entry.streaming) => Fits(sent', pipe', 0)
    BY <2>1 DEF CallInv, StreamInStep
  <2>5. phase = "body" => /\ Len(wire.frames) <= Len(sent') /\ Fits(sent', pipe', Len(wire.frames))
                          /\ \A i \in 1 .. Len(wire.frames) : wire.frames[i].of = sent'[i]
    BY <2>1, <2>2, <2>3 DEF CallInv, StreamInStep
  <2> QED BY <1>1, <2>4, <2>5 DEF CallInv, StreamInStep
<1>8. UnaryInStep'
  <2>1. CASE phase = "first" /\ ~entry.streaming
    <3>1. pipe' # <<>> /\ count' > 0
      BY <1>1, <1>2, <1>3
    <3>2. CASE pipe = <<>>
      <4>1. count = 0 /\ sent = <<>>
        BY <2>1, <3>2 DEF CallInv, UnaryInStep
      <4>2. pipe'[1] = m
        BY <1>1, <3>2
      <4>3. sent' = Content(m)
        BY <1>1, <1>3, <4>1 DEF Carries, Content
      <4> QED BY <1>1, <2>1, <3>1, <4>2, <4>3 DEF UnaryInStep
    <3>3. CASE pipe # <<>>
      <4>1. count > 0 /\ sent = Content(pipe[1])
        BY <2>1, <3>3 DEF CallInv, UnaryInStep
      <4>2. pipe'[1] = pipe[1]
        BY <1>1, <1>2, <1>3, <3>3
      <4>3. sent' = sent
        BY <1>1, <1>2, <2>1, <4>1 DEF Carries
      <4> QED BY <1>1, <2>1, <3>1, <4>1, <4>2, <4>3 DEF UnaryInStep
    <3> QED BY <3>2, <3>3
  <2>2. CASE phase = "trailers"
    <3>1. ~entry.streaming /\ count > 0 /\ first \in Sent /\ sent = Content(first)
      BY <2>2 DEF CallInv, UnaryInStep
    <3>2. sent' = sent
      BY <1>1, <1>2, <3>1 DEF Carries
    <3> QED BY <1>1, <1>2, <2>2, <3>1, <3>2 DEF UnaryInStep
  <2>3. CASE phase # "trailers" /\ ~(phase = "first" /\ ~entry.streaming)
    BY <1>1, <2>3 DEF UnaryInStep
  <2> QED BY <2>1, <2>2, <2>3
<1>9. FailureVisible'
  BY <1>1, <1>2 DEF CallInv, FailureVisible
<1>10. Refines
  <2>1. Ended = "no" /\ Ended' = "no"
    BY <1>1, <1>2, StatusKinds DEF Ended
  <2>2. CASE Carries(m)
    <3>1. m \in Message /\ sent' = Append(sent, m)
      BY <1>1, <1>3, <2>2 DEF Carries
    <3>2. UNCHANGED <<Ended, Data(wire.frames), Verdict(head, wire)>>
      BY <1>1, <2>1 DEF Verdict
    <3>3. m \in {"plain", "odd", "typed", "bad_type"}
      BY <3>1 DEF Message
    <3>4. Promise!Send
      BY <2>1, <3>1, <3>2, <3>3, Zenon DEF Promise!Send
    <3> QED BY <3>4 DEF Refines, Promise!StreamNext
  <2>3. CASE ~Carries(m)
    <3>1. sent' = sent
      BY <1>1, <2>3
    <3> QED BY <1>1, <3>1, Unseen
  <2> QED BY <2>2, <2>3
<1> QED BY <1>5, <1>6, <1>7, <1>8, <1>9, <1>10 DEF CallInv


-----------------------------------------------------------------------------
\* Before the body.

\* A HEAD is answered without a body, however the call went.
LEMMA HeadAnswered ==
  ASSUME CallInv, phase \notin {"body", "done"}, head, NEW response,
         response = [status |-> response.status, type |-> response.type, headers |-> response.headers,
                     frames |-> response.frames, end |-> "clean"],
         response.status \in Nat, Answer(response),
         UNCHANGED <<entry, head, sse, count, sent, outcome, first>>
  PROVE  CallInv' /\ Refines
<1>1. /\ wire' = [response EXCEPT !.frames = <<>>] /\ phase' = "done" /\ pipe' = <<>>
      /\ up' = IF up \in {"called", "streaming"} THEN "cancelled" ELSE up
  BY DEF Answer
<1>2. /\ up \in {"idle", "called", "streaming", "ended"} /\ (outcome = Running <=> up # "ended")
      /\ outcome \in Statuses \cup {Running}
  BY DEF CallInv, InStep, TypeOK
<1>3. /\ wire'.status = response.status /\ wire'.frames = <<>> /\ wire'.end = "clean"
      /\ wire' = [status |-> wire'.status, type |-> wire'.type, headers |-> wire'.headers,
                  frames |-> wire'.frames, end |-> wire'.end]
  BY <1>1
<1>4. FailureVisible'
  BY <1>3 DEF FailureVisible
<1>5. up' \in {"idle", "ended", "cancelled"} /\ (outcome' = Running <=> up' # "ended")
  BY <1>1, <1>2
<1>6. CallInv'
  BY <1>1, <1>2, <1>3, <1>4, <1>5, OverSound
<1>7. Verdict(head, wire) = "open" /\ wire.frames = <<>>
  BY StillOpen
<1>8. Verdict(head, wire)' = "cut"
  BY <1>3 DEF Verdict
<1>9. Ended' = Ended
  BY DEF Ended
<1>10. Promise!StopEarly("cut")
  BY <1>3, <1>7, <1>8, <1>9 DEF Promise!StopEarly
<1> QED BY <1>6, <1>10 DEF Refines, Promise!StreamNext

\* What the route of a call can be.
LEMMA EntryIs ==
  ASSUME CallInv
  PROVE  /\ entry.shape \in {"json", "http_body"} /\ entry.streaming \in BOOLEAN
         /\ entry.shape # "ndjson"
BY CallAssumption DEF CallInv, TypeOK

\* The upstream's headers are in.
LEMMA OpenedStep ==
  ASSUME CallInv, NEW metadata, Opened(metadata)
  PROVE  CallInv' /\ Refines
<1>1. /\ phase = "opening" /\ up = "called"
      /\ UNCHANGED <<entry, head, sse, count, sent, outcome, trailers, first>>
  BY DEF Opened, asked
<1>2. /\ outcome = Running /\ pipe = <<>> /\ count = 0 /\ sent = <<>> /\ wire = NoResponse
      /\ wire.end = "open"
  BY <1>1 DEF CallInv, InStep
<1> DEFINE type == IF sse THEN "sse" ELSE "ndjson"
           response == Streamed(Absorb(metadata), type, <<>>)
<1>3. response = [status |-> 200, type |-> type, headers |-> Absorb(metadata), frames |-> <<>>, end |-> "open"]
  BY DEF Streamed
<1>4. type \in {"sse", "ndjson"}
  OBVIOUS
<1>5. CASE entry.streaming /\ entry.shape = "json"
  <2>1. Begin(response, <<>>)
    BY <1>5 DEF Opened
  <2> HIDE DEF type
  <2>2. CASE head
    <3> DEFINE whole == [response EXCEPT !.end = "clean"]
    <3>1. Answer(whole)
      BY <2>1, <2>2 DEF Begin
    <3>2. /\ whole.status = 200
          /\ whole = [status |-> whole.status, type |-> whole.type, headers |-> whole.headers,
                      frames |-> whole.frames, end |-> "clean"]
      BY <1>3
    <3> HIDE DEF whole
    <3> QED BY <1>1, <2>2, <3>1, <3>2, HeadAnswered
  <2>3. CASE ~head
    <3>1. wire' = response /\ phase' = "body" /\ pipe' = <<>> /\ up' = "streaming"
      BY <1>1, <2>1, <2>3 DEF Begin
    <3>2. /\ wire'.status = 200 /\ wire'.type = type /\ wire'.frames = <<>> /\ wire'.end = "open"
          /\ wire' = [status |-> wire'.status, type |-> wire'.type, headers |-> wire'.headers,
                      frames |-> wire'.frames, end |-> wire'.end]
      BY <1>3, <3>1
    <3> HIDE DEF response
    <3>3. TypeOK'
      BY <1>1, <1>2, <3>1, <3>2 DEF CallInv, TypeOK
    <3>4. InStep'
      BY <1>1, <1>2, <3>1, <3>2 DEF CallInv, InStep
    <3>5. StreamInStep'
      BY <1>1, <1>2, <1>4, <1>5, <2>3, <3>1, <3>2, FitsNothing DEF StreamInStep
    <3>6. UnaryInStep'
      BY <3>1 DEF UnaryInStep
    <3>7. FailureVisible'
      BY <3>2 DEF FailureVisible
    <3>8. UNCHANGED <<sent, Ended, Data(wire.frames), Verdict(head, wire)>>
      BY <1>1, <1>2, <3>2 DEF Ended, Verdict, NoResponse
    <3> QED BY <3>3, <3>4, <3>5, <3>6, <3>7, <3>8 DEF CallInv, Refines
  <2> QED BY <2>2, <2>3
<1>6. CASE ~(entry.streaming /\ entry.shape = "json")
  <2>1. phase' = "first" /\ up' = "streaming" /\ UNCHANGED <<wire, pipe>>
    BY <1>6 DEF Opened
  <2>2. entry.streaming => entry.shape = "http_body"
    BY <1>6, EntryIs
  <2>3. TypeOK' /\ InStep'
    BY <1>1, <1>2, <2>1 DEF CallInv, TypeOK, InStep
  <2>4. StreamInStep' /\ UnaryInStep'
    BY <1>1, <1>2, <2>1, <2>2, FitsNothing DEF StreamInStep, UnaryInStep
  <2>5. FailureVisible'
    BY <1>2, <2>1 DEF FailureVisible, NoResponse
  <2> QED BY <1>1, <2>1, <2>3, <2>4, <2>5, Unseen DEF CallInv
<1> QED BY <1>5, <1>6

\* The next message of the pipe, and those behind it.
LEMMA PipeRead ==
  ASSUME CallInv, pipe # <<>>
  PROVE  /\ Head(pipe) = pipe[1] /\ pipe[1] \in Sent /\ Tail(pipe) \in Seq(Sent)
         /\ entry.shape = "json" =>
              /\ pipe[1] # "empty"
              /\ \A i \in 1 .. Len(Tail(pipe)) : Tail(pipe)[i] # "empty"
<1>1. pipe \in Seq(Sent)
  BY DEF CallInv, TypeOK
<1>2. /\ Head(pipe) = pipe[1] /\ pipe[1] \in Sent /\ Tail(pipe) \in Seq(Sent) /\ Len(pipe) \in Nat
      /\ Len(pipe) > 0 /\ Len(Tail(pipe)) = Len(pipe) - 1
      /\ \A i \in 1 .. Len(Tail(pipe)) : Tail(pipe)[i] = pipe[i + 1]
  BY <1>1
<1>3. entry.shape = "json" => \A i \in 1 .. Len(pipe) : pipe[i] # "empty"
  BY DEF CallInv, InStep
<1> QED BY <1>2, <1>3

\* The message of a unary call.
LEMMA ReadMessageStep ==
  ASSUME CallInv, ReadMessage
  PROVE  CallInv' /\ Refines
<1>1. /\ phase = "first" /\ ~entry.streaming /\ pipe # <<>> /\ phase' = "trailers"
      /\ first' = pipe[1] /\ pipe' = Tail(pipe)
      /\ UNCHANGED <<entry, head, sse, count, sent, outcome, initial, trailers, up, wire>>
  BY PipeRead DEF ReadMessage, Next1, asked, upstream
<1>2. pipe' \in Seq(Sent) /\ first' \in Sent
  BY <1>1, PipeRead
<1>3. wire = NoResponse
  BY <1>1 DEF CallInv, InStep
<1>4. TypeOK'
  BY <1>1, <1>2 DEF CallInv, TypeOK
<1>5. InStep'
  BY <1>1, PipeRead DEF CallInv, InStep
<1>6. StreamInStep'
  BY <1>1 DEF StreamInStep
<1>7. UnaryInStep'
  BY <1>1, <1>2 DEF CallInv, UnaryInStep
<1>8. FailureVisible'
  BY <1>1, <1>3 DEF FailureVisible, NoResponse
<1> QED BY <1>1, <1>4, <1>5, <1>6, <1>7, <1>8, Unseen DEF CallInv

\* The upstream has ended the call.
LEMMA EndedKnown ==
  ASSUME CallInv, up = "ended"
  PROVE  /\ outcome \in Statuses /\ outcome # Running
         /\ outcome # Ok => outcome.code \in DOMAIN HttpStatus \ {"ok"}
<1>1. outcome \in Statuses /\ outcome # Running
  BY DEF CallInv, InStep, TypeOK
<1> QED BY <1>1, StatusKinds

\* The upstream ended a unary call without a message.
LEMMA NoMessageStep ==
  ASSUME CallInv, NoMessage
  PROVE  CallInv' /\ Refines
<1>1. /\ phase = "first" /\ ~entry.streaming /\ pipe = <<>> /\ up = "ended"
      /\ UNCHANGED <<asked, upstream, first>>
  BY DEF NoMessage, Drained
<1> DEFINE status == IF outcome = Ok THEN Status("internal") ELSE outcome
           own == IF outcome = Ok THEN <<>> ELSE trailers
<1>2. Answer(ErrorAnswer(status, initial \o own))
  BY DEF NoMessage
<1>3. status.code \in DOMAIN HttpStatus \ {"ok"}
  <2>1. CASE outcome = Ok BY <2>1, InDomain DEF Status
  <2>2. CASE outcome # Ok BY <1>1, <2>2, EndedKnown
  <2> QED BY <2>1, <2>2
<1>4. count = 0
  BY <1>1 DEF CallInv, UnaryInStep
<1> HIDE DEF status, own
<1>5. Failing(ErrorAnswer(status, initial \o own))
  BY <1>3, ErrorAnswerFails
<1> QED BY <1>1, <1>2, <1>4, <1>5, FailingAnswered DEF Excused

\* The only message of a unary call is the one carried.
LEMMA SawFirst ==
  ASSUME CallInv, phase = "trailers"
  PROVE  /\ first \in Sent /\ sent = Content(first) /\ ~entry.streaming
         /\ \A m \in {"odd", "bad_type"} : first = m => Saw(m)
<1>1. first \in Sent /\ sent = Content(first) /\ ~entry.streaming
  BY DEF CallInv, UnaryInStep
<1>2. ASSUME NEW m \in {"odd", "bad_type"}, first = m PROVE Saw(m)
  <2>1. sent = <<m>>
    BY <1>1, <1>2 DEF Content
  <2>2. 1 \in DOMAIN sent /\ sent[1] = m
    BY <2>1
  <2> QED BY <2>2 DEF Saw
<1> QED BY <1>1, <1>2

\* A unary call that went well, and whose message can be sent.
LEMMA UnarySucceeds ==
  ASSUME CallInv, phase = "trailers", Drained, outcome = Ok,
         NEW code \in 200 .. 599, code = CodeOf(initial \o trailers), NEW headers,
         Answer(Full(code, headers, entry.shape, Chunk(first))),
         UNCHANGED <<asked, upstream, first>>
  PROVE  CallInv' /\ Refines
<1>1. UNCHANGED <<entry, head, sse, count, sent, outcome, initial, trailers, first>>
  BY DEF asked, upstream
<1>2. first \in Sent /\ sent = Content(first)
  BY SawFirst
<1>3. /\ Messages(Chunk(first)) /\ Data(Chunk(first)) = sent /\ ~Erred(Chunk(first))
      /\ Chunk(first) \in Seq(FrameType)
  BY <1>2, ChunkIs, DataOf DEF Messages
<1>4. code \in Nat
  OBVIOUS
<1> DEFINE response == Full(code, headers, entry.shape, Chunk(first))
           bodiless == code \in {204, 205, 304}
<1>5. /\ response.status = code
      /\ response = [status |-> response.status, type |-> response.type, headers |-> response.headers,
                     frames |-> response.frames, end |-> "clean"]
      /\ response.frames = IF bodiless THEN <<>> ELSE Chunk(first)
      /\ response.type = IF bodiless THEN "none" ELSE entry.shape
  <2>1. CASE bodiless BY ZenonT(60), <2>1 DEF Full, NoResponse
  <2>2. CASE ~bodiless BY <2>2 DEF Full
  <2> QED BY <2>1, <2>2
<1>6. Answer(response)
  OBVIOUS
<1> HIDE DEF response
<1>7. CASE head
  BY <1>1, <1>4, <1>5, <1>6, <1>7, HeadAnswered
<1>8. CASE ~head
  <2>1. /\ wire' = [response EXCEPT !.frames = response.frames] /\ phase' = "done" /\ pipe' = <<>>
        /\ up' = up /\ up = "ended"
    BY <1>6, <1>8 DEF Answer, Drained
  <2>2. /\ wire'.status = code /\ wire'.end = "clean" /\ wire'.frames = response.frames
        /\ wire'.type = response.type
        /\ wire' = [status |-> wire'.status, type |-> wire'.type, headers |-> wire'.headers,
                    frames |-> wire'.frames, end |-> wire'.end]
    BY <1>5, <2>1
  <2>3. wire'.type # "ndjson" /\ Messages(wire'.frames) /\ wire'.frames \in Seq(FrameType)
    BY <1>3, <1>5, <2>2, EntryIs, NoFrames DEF Messages
  <2>4. \A i \in DOMAIN wire'.frames : ~ReadsAsError(wire.frames[i])'
    <3>1. \A i \in DOMAIN wire'.frames : wire'.frames[i].kind # "error"
      BY <2>3 DEF Messages
    <3> QED BY <2>3, <3>1 DEF ReadsAsError
  <2>5. \A i \in DOMAIN wire'.frames : wire'.frames[i].kind # "error"
    BY <2>3 DEF Messages
  <2>6. wire'.status >= 400 => CodeOf(initial' \o trailers') \notin 200 .. 399
    BY <1>1, <2>2
  <2>7. FailureVisible'
    BY <1>1, <2>2, <2>4, <2>5, <2>6 DEF FailureVisible
  <2>8. outcome \in Statuses /\ outcome # Running
    BY <2>1, EndedKnown
  <2>9. CallInv'
    BY <1>1, <1>4, <2>1, <2>2, <2>3, <2>7, <2>8, OverSound
  <2>10. Verdict(head, wire) = "open" /\ Data(wire.frames) = <<>>
    BY StillOpen, NoFrames
  <2>11. Ended = "ok" /\ Ended' = "ok"
    BY <1>1, StatusKinds DEF Ended
  <2>12. CASE bodiless
    <3>1. Verdict(head, wire)' = "cut" /\ Data(wire'.frames) = <<>>
      BY <1>5, <2>2, <2>12, NoFrames DEF Verdict
    <3>2. Promise!StopEarly("cut")
      BY <1>1, <2>10, <2>11, <3>1 DEF Promise!StopEarly
    <3> QED BY <2>9, <3>2 DEF Refines, Promise!StreamNext
  <2>13. CASE ~bodiless
    <3>1. Verdict(head, wire)' = "ok" /\ Data(wire'.frames) = sent
      BY <1>1, <1>3, <1>5, <1>8, <2>2, <2>13 DEF Verdict
    <3>2. Promise!CloseOk
      BY <1>1, <2>10, <2>11, <3>1 DEF Promise!CloseOk
    <3> QED BY <2>9, <3>2 DEF Refines, Promise!StreamNext
  <2> QED BY <2>12, <2>13
<1>9. head \in BOOLEAN
  BY DEF CallInv, TypeOK
<1> QED BY <1>7, <1>8, <1>9

\* Past the message of a unary call, up to its trailers.
LEMMA ReadTrailersStep ==
  ASSUME CallInv, ReadTrailers
  PROVE  CallInv' /\ Refines
<1>1. phase = "trailers" /\ UNCHANGED <<asked, upstream, first>>
  BY DEF ReadTrailers
<1>2. /\ UNCHANGED <<entry, head, sse, count, sent, outcome, initial, trailers, first>>
      /\ wire = NoResponse
  BY <1>1 DEF asked, upstream, CallInv, InStep
<1>3. CASE ~Drained
  <2>1. pipe # <<>> /\ pipe' = Tail(pipe) /\ UNCHANGED <<phase, up, wire>>
    BY <1>3 DEF ReadTrailers
  <2>2. TypeOK'
    BY <1>2, <2>1, PipeRead DEF CallInv, TypeOK
  <2>3. InStep'
    BY <1>1, <1>2, <2>1, PipeRead DEF CallInv, InStep
  <2>4. StreamInStep' /\ UnaryInStep'
    BY <1>1, <1>2, <2>1 DEF CallInv, StreamInStep, UnaryInStep
  <2>5. FailureVisible'
    BY <1>2, <2>1 DEF FailureVisible, NoResponse
  <2> QED BY <1>2, <2>1, <2>2, <2>3, <2>4, <2>5, Unseen DEF CallInv
<1>4. CASE Drained /\ outcome # Ok
  <2>1. Answer(ErrorAnswer(outcome, initial \o trailers))
    BY <1>4 DEF ReadTrailers
  <2>2. Failing(ErrorAnswer(outcome, initial \o trailers))
    BY <1>4, EndedKnown, ErrorAnswerFails DEF Drained
  <2> QED BY <1>1, <1>4, <2>1, <2>2, FailingAnswered
<1>5. CASE Drained /\ outcome = Ok
  <2> DEFINE code == CodeOf(initial \o trailers)
  <2>1. Answer(UnarySuccess(first))
    BY <1>5 DEF ReadTrailers
  <2>2. code \in Nat /\ (code = 0 \/ code \in 200 .. 599)
    BY CodeIsStatus
  <2>3. CASE code = 0 \/ first = "bad_type"
    <3>1. UnarySuccess(first) = Malformed
      BY <2>3 DEF UnarySuccess
    <3>2. Answer(Malformed)
      BY <2>1, <3>1
    <3>3. Excused
      BY <1>1, <2>3, SawFirst DEF Excused
    <3> QED BY <1>1, <3>2, <3>3, MalformedFails, FailingAnswered
  <2>4. CASE ~(code = 0 \/ first = "bad_type") /\ first = "odd"
    <3>1. UnarySuccess(first) = ErrorAnswer(Status("internal"), <<>>)
      BY <2>4 DEF UnarySuccess
    <3>2. Answer(ErrorAnswer(Status("internal"), <<>>))
      BY <2>1, <3>1
    <3>3. Excused
      BY <1>1, <2>4, SawFirst DEF Excused
    <3>4. Failing(ErrorAnswer(Status("internal"), <<>>))
      BY InDomain, ErrorAnswerFails DEF Status
    <3> QED BY <1>1, <3>2, <3>3, <3>4, FailingAnswered
  <2>5. CASE ~(code = 0 \/ first = "bad_type") /\ first # "odd"
    <3> DEFINE headers == Absorb(initial \o trailers)
    <3>1. UnarySuccess(first) = Full(code, headers, entry.shape, Chunk(first))
      BY <2>5 DEF UnarySuccess
    <3>2. code \in 200 .. 599
      BY <2>2, <2>5
    <3>3. code = CodeOf(initial \o trailers)
      OBVIOUS
    <3> HIDE DEF code, headers
    <3>4. Answer(Full(code, headers, entry.shape, Chunk(first)))
      BY <2>1, <3>1
    <3> QED BY <1>1, <1>5, <3>2, <3>3, <3>4, UnarySucceeds
  <2> QED BY <2>3, <2>4, <2>5
<1> QED BY <1>3, <1>4, <1>5

-----------------------------------------------------------------------------
\* The body of a stream.

\* A stream's body while it is open: messages of the upstream, as far as they are read.
LEMMA BodyIs ==
  ASSUME CallInv, phase = "body"
  PROVE  /\ ~head /\ entry.streaming /\ wire.status = 200 /\ wire.end = "open" /\ wire.status \in Nat
         /\ Messages(wire.frames) /\ Len(wire.frames) <= Len(sent)
         /\ Len(wire.frames) \in Nat /\ Len(sent) \in Nat /\ sent \in Seq(Message)
         /\ Fits(sent, pipe, Len(wire.frames))
         /\ \A i \in 1 .. Len(wire.frames) :
              wire.frames[i].kind = "data" /\ wire.frames[i].of = sent[i]
         /\ Data(wire.frames) = [i \in 1 .. Len(wire.frames) |-> sent[i]]
         /\ Len(Data(wire.frames)) = Len(wire.frames)
         /\ ~Erred(wire.frames) /\ Verdict(head, wire) = "open"
<1>1. /\ ~head /\ entry.streaming /\ wire.status = 200 /\ Len(wire.frames) <= Len(sent)
      /\ Fits(sent, pipe, Len(wire.frames))
      /\ \A i \in 1 .. Len(wire.frames) : wire.frames[i].kind = "data" /\ wire.frames[i].of = sent[i]
  BY DEF CallInv, StreamInStep
<1>2. sent \in Seq(Message) /\ wire.frames \in Seq(FrameType)
  BY DEF CallInv, TypeOK
<1>3. Len(sent) \in Nat /\ Len(wire.frames) \in Nat
  BY <1>2
<1>4. Messages(wire.frames) /\ Verdict(head, wire) = "open"
  BY StillOpen
<1>5. /\ ~Erred(wire.frames) /\ Len(Data(wire.frames)) = Len(wire.frames)
      /\ Data(wire.frames) = [i \in 1 .. Len(wire.frames) |-> wire.frames[i].of]
  BY <1>4, DataOf
<1>6. wire.end = "open"
  BY DEF CallInv, InStep
<1> QED BY <1>1, <1>2, <1>3, <1>4, <1>5, <1>6

\* The next message read is sent on: Deliver.
LEMMA Delivered ==
  ASSUME CallInv, phase = "body", pipe # <<>>, pipe[1] # "empty",
         wire' = [wire EXCEPT !.frames = Append(wire.frames, Frame("data", pipe[1]))],
         pipe' = Tail(pipe), UNCHANGED <<entry, head, sse, phase, up, count, sent, outcome, initial, trailers, first>>
  PROVE  CallInv' /\ Refines
<1> DEFINE m == pipe[1]
           from == Len(wire.frames)
<1>1. /\ wire.end = "open" /\ wire.status = 200 /\ Messages(wire.frames)
      /\ from \in Nat /\ sent \in Seq(Message) /\ Len(sent) \in Nat /\ Fits(sent, pipe, from)
      /\ \A i \in 1 .. from : wire.frames[i].kind = "data" /\ wire.frames[i].of = sent[i]
      /\ Len(Data(wire.frames)) = from /\ Verdict(head, wire) = "open"
  BY BodyIs
<1>2. m \in Message /\ pipe \in Seq(Sent) /\ Tail(pipe) \in Seq(Sent)
  BY PipeRead DEF Sent, CallInv, TypeOK
<1>3. from < Len(sent) /\ sent[from + 1] = m /\ Fits(sent, Tail(pipe), from + 1)
  BY <1>1, <1>2, FitsRead
<1>4. wire = [status |-> wire.status, type |-> wire.type, headers |-> wire.headers,
              frames |-> wire.frames, end |-> wire.end]
  BY DEF CallInv, TypeOK
<1> DEFINE more == Append(wire.frames, Frame("data", m))
<1>5. /\ wire'.status = wire.status /\ wire'.type = wire.type /\ wire'.frames = more
      /\ wire'.end = wire.end
      /\ wire' = [status |-> wire'.status, type |-> wire'.type, headers |-> wire'.headers,
                  frames |-> wire'.frames, end |-> wire'.end]
  BY <1>4
<1>6. Messages(more) /\ Data(more) = Append(Data(wire.frames), m)
  BY <1>1, <1>2, DataPushed
<1>7. Frame("data", m).kind = "data" /\ Frame("data", m).of = m
  BY <1>2, FrameIs
<1>8. /\ Len(more) = from + 1 /\ more[from + 1] = Frame("data", m)
      /\ \A i \in 1 .. from : more[i] = wire.frames[i]
  BY <1>1 DEF Messages
<1>9. \A i \in 1 .. Len(more) : more[i].kind = "data" /\ more[i].of = sent[i]
  BY <1>1, <1>3, <1>7, <1>8
<1> HIDE DEF more, from, m
<1>10. TypeOK'
  BY <1>2, <1>5, <1>6 DEF CallInv, TypeOK, Messages
<1>11. InStep'
  BY <1>5, PipeRead DEF CallInv, InStep
<1>12. StreamInStep'
  <2>1. Len(wire'.frames) = from + 1 /\ from + 1 <= Len(sent)
    BY <1>1, <1>3, <1>5, <1>8
  <2>2. Fits(sent', pipe', Len(wire'.frames))
    BY <1>3, <2>1
  <2>3. \A i \in 1 .. Len(wire'.frames) : wire'.frames[i].kind = "data" /\ wire'.frames[i].of = sent'[i]
    BY <1>5, <1>9
  <2> QED BY <1>5, <2>1, <2>2, <2>3 DEF CallInv, StreamInStep
<1>13. UnaryInStep'
  BY DEF UnaryInStep
<1>14. FailureVisible'
  <2>1. wire'.end = "open" /\ \A i \in DOMAIN wire'.frames : wire'.frames[i].kind # "error"
    BY <1>1, <1>5, <1>6 DEF Messages
  <2> QED BY <2>1 DEF FailureVisible
<1>15. Verdict(head, wire)' = "open" /\ Ended' = Ended
  BY <1>1, <1>5 DEF Verdict, Ended
<1>16. Data(wire'.frames) = Append(Data(wire.frames), sent[Len(Data(wire.frames)) + 1])
  BY <1>1, <1>3, <1>5, <1>6 DEF from
<1>17. Promise!Deliver
  BY <1>1, <1>3, <1>15, <1>16 DEF Promise!Deliver, from
<1> QED BY <1>10, <1>11, <1>12, <1>13, <1>14, <1>17 DEF CallInv, Refines, Promise!StreamNext

\* Closing the body ends the call on the upstream.
LEMMA CloseEnds ==
  ASSUME CallInv, phase = "body", NEW frames, NEW how, Close(frames, how),
         UNCHANGED <<asked, upstream, first>>
  PROVE  /\ phase' = "done" /\ pipe' = <<>> /\ up' \in {"idle", "ended", "cancelled"}
         /\ UNCHANGED <<entry, head, sse, count, sent, outcome, initial, trailers, first>>
         /\ outcome' \in Statuses \cup {Running} /\ (outcome' = Running <=> up' # "ended")
         /\ wire'.status = 200 /\ wire'.type = wire.type /\ wire'.frames = wire.frames \o frames
         /\ wire'.end = how /\ Ended' = Ended
         /\ wire' = [status |-> wire'.status, type |-> wire'.type, headers |-> wire'.headers,
                     frames |-> wire'.frames, end |-> wire'.end]
<1>1. /\ wire' = [wire EXCEPT !.frames = wire.frames \o frames, !.end = how] /\ phase' = "done"
      /\ pipe' = <<>> /\ up' = (IF up = "streaming" THEN "cancelled" ELSE up)
      /\ UNCHANGED <<entry, head, sse, count, sent, outcome, initial, trailers, first>>
  BY DEF Close, asked, upstream
<1>2. /\ up \in {"streaming", "ended"} /\ (outcome = Running <=> up # "ended")
      /\ outcome \in Statuses \cup {Running}
      /\ wire = [status |-> wire.status, type |-> wire.type, headers |-> wire.headers,
                 frames |-> wire.frames, end |-> wire.end]
  BY DEF CallInv, InStep, TypeOK
<1>3. wire.status = 200
  BY BodyIs
<1>4. /\ wire'.status = 200 /\ wire'.type = wire.type /\ wire'.frames = wire.frames \o frames
      /\ wire'.end = how
      /\ wire' = [status |-> wire'.status, type |-> wire'.type, headers |-> wire'.headers,
                  frames |-> wire'.frames, end |-> wire'.end]
  BY <1>1, <1>2, <1>3
<1>5. Ended' = Ended
  BY <1>1 DEF Ended
<1> QED BY <1>1, <1>2, <1>4, <1>5

\* A body closed with an error frame.
LEMMA BodyErrs ==
  ASSUME CallInv, phase = "body", NEW e \in ErrorNames,
         Close(<<Frame("error", e)>>, "clean"), UNCHANGED <<asked, upstream, first>>,
         outcome = Ok => Excused
  PROVE  CallInv' /\ Refines
<1> DEFINE last == <<Frame("error", e)>>
           more == wire.frames \o last
<1>0. Close(last, "clean")
  OBVIOUS
<1> HIDE DEF last
<1>1. /\ phase' = "done" /\ pipe' = <<>> /\ up' \in {"idle", "ended", "cancelled"}
      /\ UNCHANGED <<entry, head, sse, count, sent, outcome, initial, trailers, first>>
      /\ outcome' \in Statuses \cup {Running} /\ (outcome' = Running <=> up' # "ended")
      /\ wire'.status = 200 /\ wire'.frames = more /\ wire'.end = "clean" /\ Ended' = Ended
      /\ wire' = [status |-> wire'.status, type |-> wire'.type, headers |-> wire'.headers,
                  frames |-> wire'.frames, end |-> wire'.end]
  BY <1>0, CloseEnds
<1>2. /\ Messages(wire.frames) /\ Len(wire.frames) \in Nat /\ ~head /\ Verdict(head, wire) = "open"
      /\ \A i \in 1 .. Len(wire.frames) : wire.frames[i].kind = "data"
  BY BodyIs
<1>3. /\ more \in Seq(FrameType) /\ Len(more) = Len(wire.frames) + 1
      /\ \A i \in 1 .. Len(wire.frames) : more[i] = wire.frames[i]
      /\ more[Len(wire.frames) + 1] = Frame("error", e) /\ Erred(more) /\ Data(more) = Data(wire.frames)
  BY <1>2, ErrorPushed DEF last
<1>4. Frame("error", e).kind = "error"
  BY FrameIs
<1> HIDE DEF more
<1>5. DOMAIN more = 1 .. Len(wire.frames) + 1
  BY <1>3
<1>6. FailureVisible'
  <2>1. \E i \in DOMAIN wire'.frames : ReadsAsError(wire.frames[i])'
    <3>1. Len(wire.frames) + 1 \in DOMAIN wire'.frames /\ wire'.frames[Len(wire.frames) + 1].kind = "error"
      BY <1>1, <1>2, <1>3, <1>4, <1>5
    <3> QED BY <3>1 DEF ReadsAsError
  <2>2. \A i \in DOMAIN wire'.frames : wire'.frames[i].kind = "error" => i = Len(wire'.frames)
    BY <1>1, <1>2, <1>3, <1>5
  <2>3. outcome' = Ok => (\/ Saw("odd")' \/ Saw("bad_type")'
                          \/ CodeOf(initial' \o trailers') \notin 200 .. 399 \/ count' = 0)
    BY <1>1 DEF Excused, Saw
  <2> QED BY <1>1, <2>1, <2>2, <2>3 DEF FailureVisible
<1>7. CallInv'
  BY <1>1, <1>3, <1>6, OverSound
<1>8. Verdict(head, wire)' = "error"
  BY <1>1, <1>2, <1>3 DEF Verdict
<1>9. Promise!StopEarly("error")
  BY <1>1, <1>2, <1>3, <1>8 DEF Promise!StopEarly
<1> QED BY <1>7, <1>9 DEF Refines, Promise!StreamNext

\* A body closed with nothing more to say: cleanly once all was sent on and the
\* upstream ended well, aborted when it did not.
LEMMA BodyCloses ==
  ASSUME CallInv, phase = "body", Drained,
         Close(<<>>, IF outcome = Ok THEN "clean" ELSE "aborted"), UNCHANGED <<asked, upstream, first>>
  PROVE  CallInv' /\ Refines
<1> DEFINE how == IF outcome = Ok THEN "clean" ELSE "aborted"
<1>0. Close(<<>>, how)
  OBVIOUS
<1> HIDE DEF how
<1>1. /\ phase' = "done" /\ pipe' = <<>> /\ up' \in {"idle", "ended", "cancelled"}
      /\ UNCHANGED <<entry, head, sse, count, sent, outcome, initial, trailers, first>>
      /\ outcome' \in Statuses \cup {Running} /\ (outcome' = Running <=> up' # "ended")
      /\ wire'.status = 200 /\ wire'.type = wire.type /\ wire'.frames = wire.frames \o <<>>
      /\ wire'.end = how /\ Ended' = Ended
      /\ wire' = [status |-> wire'.status, type |-> wire'.type, headers |-> wire'.headers,
                  frames |-> wire'.frames, end |-> wire'.end]
  BY <1>0, CloseEnds
<1>2. /\ Messages(wire.frames) /\ Len(wire.frames) \in Nat /\ ~head /\ Verdict(head, wire) = "open"
      /\ \A i \in 1 .. Len(wire.frames) : wire.frames[i].kind = "data" /\ wire.frames[i].of = sent[i]
      /\ sent \in Seq(Message) /\ ~Erred(wire.frames) /\ Fits(sent, pipe, Len(wire.frames))
      /\ Data(wire.frames) = [i \in 1 .. Len(wire.frames) |-> sent[i]]
  BY BodyIs
<1>3. wire.frames \in Seq(FrameType) /\ wire'.frames = wire.frames
  BY <1>1, <1>2 DEF Messages
<1>4. Len(wire.frames) = Len(sent)
  BY <1>2, FitsAll DEF Drained
<1>5. Data(wire.frames) = sent
  BY <1>2, <1>4
<1>6. DOMAIN wire.frames = DOMAIN sent /\ DOMAIN sent = 1 .. Len(wire.frames)
  BY <1>2, <1>3, <1>4
<1>7. FailureVisible'
  <2>1. \A i \in DOMAIN wire'.frames : wire'.frames[i].kind # "error"
    BY <1>2, <1>3, <1>6
  <2>2. ASSUME NEW i \in DOMAIN wire'.frames, ReadsAsError(wire.frames[i])'
        PROVE  Saw("typed")' /\ wire'.type = "ndjson" /\ ~entry'.envelope
    <3>1. wire'.frames[i].of = "typed" /\ wire'.type = "ndjson" /\ ~entry'.envelope
      BY <2>1, <2>2 DEF ReadsAsError
    <3>2. i \in DOMAIN sent' /\ sent'[i] = "typed"
      BY <1>1, <1>2, <1>3, <1>6, <3>1
    <3> QED BY <3>1, <3>2 DEF Saw
  <2>3. outcome' # Ok => wire'.end = "aborted"
    BY <1>1 DEF how
  <2>4. outcome' = Ok => wire'.end # "aborted"
    BY <1>1 DEF how
  <2> QED BY <1>1, <2>1, <2>2, <2>3, <2>4 DEF FailureVisible
<1>8. CallInv'
  BY <1>1, <1>3, <1>7, OverSound DEF how
<1>9. CASE outcome = Ok
  <2>1. Ended = "ok"
    BY <1>9, StatusKinds DEF Ended
  <2>2. Verdict(head, wire)' = "ok"
    BY <1>1, <1>2, <1>3, <1>9 DEF Verdict, how
  <2>3. Promise!CloseOk
    BY <1>1, <1>2, <1>3, <1>5, <2>1, <2>2 DEF Promise!CloseOk
  <2> QED BY <1>8, <2>3 DEF Refines, Promise!StreamNext
<1>10. CASE outcome # Ok
  <2>1. Verdict(head, wire)' = "error"
    BY <1>1, <1>2, <1>10 DEF Verdict, how
  <2>2. Promise!StopEarly("error")
    BY <1>1, <1>2, <1>3, <2>1 DEF Promise!StopEarly
  <2> QED BY <1>8, <2>2 DEF Refines, Promise!StreamNext
<1> QED BY <1>9, <1>10

\* A message of a JSON stream: sent on, or the end of it when it has no JSON form.
LEMMA JsonFrameStep ==
  ASSUME CallInv, JsonFrame
  PROVE  CallInv' /\ Refines
<1>1. /\ phase = "body" /\ entry.shape = "json" /\ pipe # <<>> /\ UNCHANGED <<asked, upstream, first>>
  BY DEF JsonFrame
<1>2. Next1 = pipe[1] /\ pipe[1] # "empty" /\ pipe[1] \in Sent
  BY <1>1, PipeRead DEF Next1
<1>3. CASE Next1 = "odd"
  <2>1. Close(<<Frame("error", "internal")>>, "clean") /\ "internal" \in ErrorNames
    BY <1>3, InDomain DEF JsonFrame, ErrorNames
  <2>2. Saw("odd")
    <3>1. /\ Len(wire.frames) \in Nat /\ Len(sent) \in Nat /\ sent \in Seq(Message)
          /\ Fits(sent, pipe, Len(wire.frames)) /\ pipe \in Seq(Sent)
      BY <1>1, BodyIs DEF CallInv, TypeOK
    <3>2. Len(wire.frames) < Len(sent) /\ sent[Len(wire.frames) + 1] = pipe[1]
      BY <1>1, <1>2, <3>1, FitsRead
    <3>3. Len(wire.frames) + 1 \in DOMAIN sent
      BY <3>1, <3>2
    <3> QED BY <1>2, <1>3, <3>2, <3>3 DEF Saw
  <2> QED BY <1>1, <2>1, <2>2, BodyErrs DEF Excused
<1>4. CASE Next1 # "odd"
  <2>1. /\ wire' = [wire EXCEPT !.frames = Append(wire.frames, Frame("data", pipe[1]))]
        /\ pipe' = Tail(pipe) /\ UNCHANGED <<phase, up>>
    BY <1>2, <1>4 DEF JsonFrame, Push
  <2>2. UNCHANGED <<entry, head, sse, count, sent, outcome, initial, trailers, first>>
    BY <1>1 DEF asked, upstream
  <2> QED BY <1>1, <1>2, <2>1, <2>2, Delivered
<1> QED BY <1>3, <1>4

\* The end of a JSON stream: a failed call says so in its last frame.
LEMMA JsonEndStep ==
  ASSUME CallInv, JsonEnd
  PROVE  CallInv' /\ Refines
<1>1. /\ phase = "body" /\ Drained /\ UNCHANGED <<asked, upstream, first>>
      /\ Close(IF outcome = Ok THEN <<>> ELSE <<Frame("error", Rendered(outcome))>>, "clean")
  BY DEF JsonEnd
<1>2. CASE outcome = Ok
  BY <1>1, <1>2, BodyCloses
<1>3. CASE outcome # Ok
  <2>1. outcome.code \in DOMAIN HttpStatus
    BY <1>1, <1>3, EndedKnown DEF Drained
  <2>2. Rendered(outcome) \in ErrorNames
    BY <2>1, InDomain DEF Rendered, ErrorNames
  <2> QED BY <1>1, <1>3, <2>2, BodyErrs
<1> QED BY <1>2, <1>3

\* A chunk of a raw body; an empty one adds nothing to it.
LEMMA HttpBodyChunkStep ==
  ASSUME CallInv, HttpBodyChunk
  PROVE  CallInv' /\ Refines
<1>1. /\ phase = "body" /\ entry.shape = "http_body" /\ pipe # <<>> /\ pipe' = Tail(pipe)
      /\ wire' = [wire EXCEPT !.frames = wire.frames \o Chunk(Next1)]
      /\ UNCHANGED <<entry, head, sse, phase, up, count, sent, outcome, initial, trailers, first>>
  BY DEF HttpBodyChunk, asked, upstream
<1>2. Next1 = pipe[1] /\ pipe[1] \in Sent /\ pipe \in Seq(Sent) /\ Tail(pipe) \in Seq(Sent)
  BY <1>1, PipeRead DEF Next1, CallInv, TypeOK
<1>3. /\ sent \in Seq(Message) /\ Len(wire.frames) \in Nat /\ Fits(sent, pipe, Len(wire.frames))
      /\ Messages(wire.frames) /\ wire.end = "open"
  BY <1>1, BodyIs
<1>4. wire.frames \in Seq(FrameType)
  BY <1>3 DEF Messages
<1>5. CASE pipe[1] = "empty"
  <2>1. wire.frames \o Chunk(Next1) = wire.frames
    BY <1>2, <1>4, <1>5 DEF Chunk
  <2>2. wire' = wire
    <3>1. wire = [status |-> wire.status, type |-> wire.type, headers |-> wire.headers,
                  frames |-> wire.frames, end |-> wire.end]
      BY DEF CallInv, TypeOK
    <3> QED BY <1>1, <2>1, <3>1
  <2>3. Fits(sent, Tail(pipe), Len(wire.frames))
    BY <1>1, <1>2, <1>3, <1>5, FitsRead
  <2>4. TypeOK' /\ InStep'
    BY <1>1, <1>2, <2>2 DEF CallInv, TypeOK, InStep
  <2>5. StreamInStep' /\ UnaryInStep'
    <3>1. Fits(sent', pipe', Len(wire'.frames))
      BY <1>1, <2>2, <2>3
    <3>2. /\ ~head' /\ entry'.streaming /\ wire'.status = 200 /\ wire'.type = "http_body"
          /\ Len(wire'.frames) <= Len(sent')
      BY <1>1, <2>2 DEF CallInv, StreamInStep
    <3>3. \A i \in 1 .. Len(wire'.frames) : wire'.frames[i].kind = "data" /\ wire'.frames[i].of = sent'[i]
      <4>1. \A i \in 1 .. Len(wire.frames) : wire.frames[i].kind = "data" /\ wire.frames[i].of = sent[i]
        BY <1>1, BodyIs
      <4> QED BY <1>1, <2>2, <4>1
    <3>4. phase' = "body" /\ entry'.shape = "http_body"
      BY <1>1
    <3> QED BY <3>1, <3>2, <3>3, <3>4 DEF StreamInStep, UnaryInStep
  <2>6. FailureVisible'
    <3>1. \A i \in DOMAIN wire.frames : wire.frames[i].kind # "error"
      BY <1>3 DEF Messages
    <3> QED BY <1>3, <2>2, <3>1 DEF FailureVisible
  <2> QED BY <1>1, <2>2, <2>4, <2>5, <2>6, Unseen DEF CallInv
<1>6. CASE pipe[1] # "empty"
  <2>1. Chunk(Next1) = <<Frame("data", pipe[1])>>
    BY <1>2, <1>6 DEF Chunk
  <2>2. Frame("data", pipe[1]) \in FrameType
    BY <1>2, <1>6, FrameIs DEF Sent
  <2>3. wire.frames \o <<Frame("data", pipe[1])>> = Append(wire.frames, Frame("data", pipe[1]))
    BY <1>4, <2>2
  <2>4. wire' = [wire EXCEPT !.frames = Append(wire.frames, Frame("data", pipe[1]))]
    BY <1>1, <2>1, <2>3
  <2> QED BY <1>1, <1>6, <2>4, Delivered
<1> QED BY <1>5, <1>6

\* The end of a raw body.
LEMMA HttpBodyEndStep ==
  ASSUME CallInv, HttpBodyEnd
  PROVE  CallInv' /\ Refines
BY BodyCloses DEF HttpBodyEnd

\* An HttpBody stream that ended before its first message.
LEMMA HttpBodyNoneStep ==
  ASSUME CallInv, HttpBodyNone
  PROVE  CallInv' /\ Refines
<1>1. /\ phase = "first" /\ entry.streaming /\ Drained /\ up = "ended" /\ pipe = <<>>
      /\ UNCHANGED <<asked, upstream, first>>
  BY DEF HttpBodyNone, Drained
<1>2. UNCHANGED <<entry, head, sse, count, sent, outcome, initial, trailers, first>>
  BY <1>1 DEF asked, upstream
<1>3. CASE outcome # Ok
  <2>1. Answer(ErrorAnswer(outcome, initial \o trailers))
    BY <1>3 DEF HttpBodyNone
  <2>2. Failing(ErrorAnswer(outcome, initial \o trailers))
    BY <1>1, <1>3, EndedKnown, ErrorAnswerFails
  <2> QED BY <1>1, <1>3, <2>1, <2>2, FailingAnswered
<1>4. CASE outcome = Ok
  <2> DEFINE response == [Streamed(Absorb(initial), "none", <<>>) EXCEPT !.end = "clean"]
  <2>1. Answer(response)
    BY <1>4 DEF HttpBodyNone
  <2>2. /\ response.status = 200 /\ response.frames = <<>>
        /\ response = [status |-> response.status, type |-> response.type, headers |-> response.headers,
                       frames |-> response.frames, end |-> "clean"]
    BY DEF Streamed
  <2> HIDE DEF response
  <2>3. CASE head
    BY <1>1, <1>2, <2>1, <2>2, <2>3, HeadAnswered
  <2>4. CASE ~head
    <3>1. /\ wire' = [response EXCEPT !.frames = response.frames] /\ phase' = "done" /\ pipe' = <<>>
          /\ up' = up
      BY <1>1, <2>1, <2>4 DEF Answer
    <3>2. /\ wire'.status = 200 /\ wire'.end = "clean" /\ wire'.frames = <<>>
          /\ wire' = [status |-> wire'.status, type |-> wire'.type, headers |-> wire'.headers,
                      frames |-> wire'.frames, end |-> wire'.end]
      BY <2>2, <3>1
    <3>3. FailureVisible'
      BY <1>2, <1>4, <3>2 DEF FailureVisible
    <3>4. outcome \in Statuses /\ outcome # Running
      BY <1>1, EndedKnown
    <3>5. CallInv'
      <4>1. wire'.status \in Nat /\ wire'.frames \in Seq(FrameType)
        BY <3>2
      <4>2. outcome' = Running <=> up' # "ended"
        BY <1>1, <1>2, <3>1, <3>4
      <4> QED BY <1>1, <1>2, <3>1, <3>2, <3>3, <3>4, <4>1, <4>2, OverSound
    <3>6. sent \in Seq(Message) /\ Fits(sent, <<>>, 0)
      BY <1>1 DEF CallInv, TypeOK, StreamInStep
    <3>7. sent = <<>>
      <4>1. 0 = Len(sent)
        BY <3>6, FitsAll
      <4> QED BY <3>6, <4>1
    <3>8. Data(wire'.frames) = sent /\ Verdict(head, wire) = "open"
      BY <1>1, <3>2, <3>7, NoFrames, StillOpen
    <3>9. Verdict(head, wire)' = "ok"
      BY <1>2, <2>4, <3>2, NoFrames DEF Verdict
    <3>10. Ended = "ok" /\ Ended' = "ok"
      BY <1>2, <1>4, StatusKinds DEF Ended
    <3>11. Promise!CloseOk
      BY <1>2, <3>8, <3>9, <3>10 DEF Promise!CloseOk
    <3> QED BY <3>5, <3>11 DEF Refines, Promise!StreamNext
  <2>5. head \in BOOLEAN
    BY DEF CallInv, TypeOK
  <2> QED BY <2>3, <2>4, <2>5
<1> QED BY <1>3, <1>4

\* The first message of an HttpBody stream, and with it the headers.
LEMMA HttpBodyFirstStep ==
  ASSUME CallInv, HttpBodyFirst
  PROVE  CallInv' /\ Refines
<1>1. /\ phase = "first" /\ entry.streaming /\ pipe # <<>> /\ UNCHANGED <<asked, upstream, first>>
  BY DEF HttpBodyFirst
<1>2. UNCHANGED <<entry, head, sse, count, sent, outcome, initial, trailers, first>>
  BY <1>1 DEF asked, upstream
<1> DEFINE m == pipe[1]
<1>3. Next1 = m /\ m \in Sent /\ pipe \in Seq(Sent) /\ Tail(pipe) \in Seq(Sent)
  BY <1>1, PipeRead DEF Next1, CallInv, TypeOK
<1>4. sent \in Seq(Message) /\ Fits(sent, pipe, 0) /\ entry.shape = "http_body" /\ 0 \in Nat
  BY <1>1 DEF CallInv, TypeOK, StreamInStep
<1>5. IF m = "empty" THEN Fits(sent, Tail(pipe), 0)
      ELSE 0 < Len(sent) /\ sent[0 + 1] = m /\ Fits(sent, Tail(pipe), 0 + 1)
  BY <1>1, <1>3, <1>4, FitsRead
<1>6. IF m = "empty" THEN Fits(sent, Tail(pipe), 0)
      ELSE 0 < Len(sent) /\ sent[1] = m /\ Fits(sent, Tail(pipe), 1)
  BY <1>5
<1> HIDE DEF m
<1>7. CASE m = "bad_type"
  <2>1. Answer(Malformed)
    BY <1>3, <1>7 DEF HttpBodyFirst
  <2>2. Saw("bad_type")
    <3>1. 1 \in DOMAIN sent /\ sent[1] = "bad_type"
      BY <1>4, <1>6, <1>7
    <3> QED BY <3>1 DEF Saw
  <2> QED BY <1>1, <2>1, <2>2, MalformedFails, FailingAnswered DEF Excused
<1>8. CASE m # "bad_type"
  <2> DEFINE response == Streamed(Absorb(initial), "http_body", Chunk(m))
  <2>1. Begin(response, Tail(pipe))
    BY <1>3, <1>8 DEF HttpBodyFirst
  <2>2. response = [status |-> 200, type |-> "http_body", headers |-> Absorb(initial), frames |-> Chunk(m),
                    end |-> "open"]
    BY DEF Streamed
  <2>3. CASE head
    <3> DEFINE whole == [response EXCEPT !.end = "clean"]
    <3>1. Answer(whole)
      BY <2>1, <2>3 DEF Begin
    <3>2. /\ whole.status = 200
          /\ whole = [status |-> whole.status, type |-> whole.type, headers |-> whole.headers,
                      frames |-> whole.frames, end |-> "clean"]
      BY <2>2
    <3> HIDE DEF whole
    <3> QED BY <1>1, <1>2, <2>3, <3>1, <3>2, HeadAnswered
  <2>4. CASE ~head
    <3>1. up \in {"streaming", "ended"} /\ wire.frames = <<>> /\ Verdict(head, wire) = "open"
      BY <1>1, StillOpen DEF CallInv, InStep
    <3>2. wire' = response /\ phase' = "body" /\ pipe' = Tail(pipe) /\ up' = up
      BY <2>1, <2>4, <3>1 DEF Begin
    <3>3. /\ wire'.status = 200 /\ wire'.type = "http_body" /\ wire'.frames = Chunk(m) /\ wire'.end = "open"
          /\ wire' = [status |-> wire'.status, type |-> wire'.type, headers |-> wire'.headers,
                      frames |-> wire'.frames, end |-> wire'.end]
      BY <2>2, <3>2
    <3> HIDE DEF response
    <3>4. /\ Messages(Chunk(m)) /\ Data(Chunk(m)) = Content(m)
          /\ \A i \in 1 .. Len(Chunk(m)) : Chunk(m)[i].of = m /\ m # "empty"
      BY <1>3, ChunkIs
    <3>5. Len(Chunk(m)) = IF m = "empty" THEN 0 ELSE 1
      BY DEF Chunk
    <3>6. TypeOK'
      BY <1>2, <1>3, <3>2, <3>3, <3>4 DEF CallInv, TypeOK, Messages
    <3>7. InStep'
      BY <1>2, <1>4, <3>1, <3>2, <3>3 DEF CallInv, InStep
    <3>8. StreamInStep'
      <4>1. Len(wire'.frames) <= Len(sent') /\ Fits(sent', pipe', Len(wire'.frames))
        BY <1>2, <1>4, <1>6, <3>2, <3>3, <3>5
      <4>2. \A i \in 1 .. Len(wire'.frames) :
              wire'.frames[i].kind = "data" /\ wire'.frames[i].of = sent'[i]
        BY <1>2, <1>6, <3>3, <3>4, <3>5 DEF Messages
      <4> QED BY <1>1, <1>2, <1>4, <2>4, <3>2, <3>3, <4>1, <4>2 DEF StreamInStep
    <3>9. UnaryInStep'
      BY <3>2 DEF UnaryInStep
    <3>10. FailureVisible'
      <4>1. \A i \in DOMAIN wire'.frames : wire'.frames[i].kind # "error"
        BY <3>3, <3>4 DEF Messages
      <4> QED BY <3>3, <4>1 DEF FailureVisible
    <3>11. Verdict(head, wire)' = "open" /\ Ended' = Ended
      BY <1>2, <3>3 DEF Verdict, Ended
    <3>12. Data(wire.frames) = <<>> /\ Data(wire'.frames) = Content(m)
      BY <3>1, <3>3, <3>4, NoFrames
    <3>13. CASE m = "empty"
      <4>1. UNCHANGED <<sent, Ended, Data(wire.frames), Verdict(head, wire)>>
        BY <1>2, <3>1, <3>11, <3>12, <3>13 DEF Content
      <4> QED BY <3>6, <3>7, <3>8, <3>9, <3>10, <4>1 DEF CallInv, Refines
    <3>14. CASE m # "empty"
      <4>1. Data(wire'.frames) = Append(<<>>, sent[1])
        BY <1>6, <3>12, <3>14 DEF Content
      <4>2. Promise!Deliver
        BY <1>2, <1>6, <3>1, <3>11, <3>12, <3>14, <4>1 DEF Promise!Deliver
      <4> QED BY <3>6, <3>7, <3>8, <3>9, <3>10, <4>2 DEF CallInv, Refines, Promise!StreamNext
    <3> QED BY <3>13, <3>14
  <2>5. head \in BOOLEAN
    BY DEF CallInv, TypeOK
  <2> QED BY <2>3, <2>4, <2>5
<1> QED BY <1>7, <1>8

-----------------------------------------------------------------------------
\* The theorems.

\* A call begins in the invariant, and where an abstract stream begins.
LEMMA InitSound ==
  ASSUME Init
  PROVE  CallInv /\ Promise!StreamInit
<1>1. /\ entry \in Entries /\ head \in BOOLEAN /\ sse \in BOOLEAN /\ phase = "reading" /\ up = "idle"
      /\ count = 0 /\ sent = <<>> /\ pipe = <<>> /\ outcome = Running /\ first = "none"
      /\ wire = NoResponse
  BY DEF Init
<1>2. /\ wire.status = 0 /\ wire.frames = <<>> /\ wire.end = "open"
      /\ wire = [status |-> wire.status, type |-> wire.type, headers |-> wire.headers,
                 frames |-> wire.frames, end |-> wire.end]
  BY <1>1 DEF NoResponse
<1>3. TypeOK
  BY <1>1, <1>2 DEF TypeOK
<1>4. InStep /\ StreamInStep /\ UnaryInStep
  BY <1>1, <1>2 DEF InStep, StreamInStep, UnaryInStep
<1>5. FailureVisible
  BY <1>2 DEF FailureVisible
<1>6. Ended = "no"
  BY <1>1, StatusKinds DEF Ended
<1>7. Verdict(head, wire) = "open" /\ Data(wire.frames) = <<>>
  BY <1>2, NoFrames DEF Verdict
<1> QED BY <1>1, <1>3, <1>4, <1>5, <1>6, <1>7 DEF CallInv, Promise!StreamInit

\* Every step keeps the invariant, and is a step of the abstract stream or none.
LEMMA NextSound ==
  ASSUME CallInv, [Next]_vars
  PROVE  CallInv' /\ Refines
<1>1. CASE Refuse BY <1>1, RefuseStep
<1>2. CASE Prepare BY <1>2, PrepareStep
<1>3. CASE ReadMessage BY <1>3, ReadMessageStep
<1>4. CASE NoMessage BY <1>4, NoMessageStep
<1>5. CASE ReadTrailers BY <1>5, ReadTrailersStep
<1>6. CASE JsonFrame BY <1>6, JsonFrameStep
<1>7. CASE JsonEnd BY <1>7, JsonEndStep
<1>8. CASE HttpBodyFirst BY <1>8, HttpBodyFirstStep
<1>9. CASE HttpBodyNone BY <1>9, HttpBodyNoneStep
<1>10. CASE HttpBodyChunk BY <1>10, HttpBodyChunkStep
<1>11. CASE HttpBodyEnd BY <1>11, HttpBodyEndStep
<1>12. CASE Ready BY <1>12, ReadyStep
<1>13. CASE NotReady \/ Expire BY <1>13, NotReadyStep
<1>14. CASE ClientLeaves BY <1>14, ClientLeavesStep
<1>15. CASE \E metadata \in Metadata : Opened(metadata) BY <1>15, OpenedStep
<1>16. CASE \E status \in Statuses, metadata \in Metadata : status # Ok /\ TrailersOnly(status, metadata)
  BY <1>16, TrailersOnlyStep
<1>17. CASE \E status \in Statuses, metadata \in Metadata : UpstreamEnds(status, metadata)
  BY <1>17, UpstreamEndsStep
<1>18. CASE \E m \in {"plain", "odd", "typed", "empty", "bad_type"} : UpstreamSends(m)
  BY <1>18, UpstreamSendsStep
<1>19. CASE UNCHANGED vars
  <2>1. UNCHANGED <<entry, head, sse, phase, up, count, sent, pipe, outcome, initial, trailers, first, wire>>
    BY <1>19 DEF vars
  <2>2. TypeOK' /\ InStep' /\ StreamInStep' /\ UnaryInStep'
    BY <2>1 DEF CallInv, TypeOK, InStep, StreamInStep, UnaryInStep
  <2>3. FailureVisible'
    BY <2>1 DEF CallInv, FailureVisible, ReadsAsError, Saw
  <2> QED BY <2>1, <2>2, <2>3, Unseen DEF CallInv
<1> QED
  BY <1>1, <1>2, <1>3, <1>4, <1>5, <1>6, <1>7, <1>8, <1>9, <1>10, <1>11, <1>12, <1>13, <1>14, <1>15,
     <1>16, <1>17, <1>18, <1>19, Zenon DEF Next, Proxy, Answering, Body

\* Through every interleaving of upstream, proxy and client, what is on the wire is
\* what was sent up to what is still to be read.
THEOREM CallSound == Spec => []CallInv
<1>1. Init => CallInv
  BY InitSound
<1>2. CallInv /\ [Next]_vars => CallInv'
  BY NextSound
<1> QED BY <1>1, <1>2, PTL DEF Spec

\* A failure is never read as success, nor a success as failure, whatever the
\* route's framing and wherever the failure strikes.
THEOREM FailuresShown == Spec => []FailureVisible
<1>1. CallInv => FailureVisible
  BY DEF CallInv
<1> QED BY <1>1, CallSound, PTL

\* Once a response is over, by its end, its client or its deadline, the proxy holds
\* no call on the upstream.
THEOREM NoCallHeld == Spec => [](wire.end # "open" => up \notin {"called", "streaming"})
<1>1. CallInv => (wire.end # "open" => up \notin {"called", "streaming"})
  BY DEF CallInv, InStep, TypeOK
<1> QED BY <1>1, CallSound, PTL

\* A transcoded call implements ServerStream: the messages in order and none
\* skipped, then one verdict, and a good one only when the upstream ended well and
\* all of them are there.
THEOREM PromiseKept == Spec => KeepsPromise
<1>1. Init => CallInv /\ Promise!StreamInit
  BY InitSound
<1>2. CallInv /\ [Next]_vars => CallInv' /\ [Promise!StreamNext]_(Promise!streamVars)
  <2>1. Refines => [Promise!StreamNext]_(Promise!streamVars)
    BY DEF Refines, Promise!streamVars
  <2> QED BY <2>1, NextSound
<1> QED BY <1>1, <1>2, PTL DEF Spec, KeepsPromise, Promise!StreamSpec

-----------------------------------------------------------------------------
\* Induction over the naturals, and what absorb keeps.

\* Among naturals a well-founded relation has a minimal element.
LEMMA MinimalIn ==
  ASSUME NEW R, IsWellFoundedOn(R, Nat), NEW T \in SUBSET Nat, T # {}
  PROVE  \E x \in T : \A y \in T : ~(<<y, x>> \in R)
  BY WFMin, Zenon

\* For the usual order a minimal element is the least.
LEMMA LeastByOrder ==
  ASSUME NEW R, \A x, y \in Nat : <<x, y>> \in R <=> x < y, NEW T \in SUBSET Nat,
         \E x \in T : \A y \in T : ~(<<y, x>> \in R)
  PROVE  \E x \in T : \A y \in T : x <= y
<1>1. PICK x \in T : \A y \in T : ~(<<y, x>> \in R)
  OBVIOUS
<1>2. x \in Nat /\ \A y \in T : y \in Nat /\ ~(y < x)
  BY <1>1
<1>3. \A y \in T : x <= y
  BY <1>2
<1> QED
  BY <1>3

\* A set of naturals has a least element.
LEMMA LeastIn ==
  \A T : T \in SUBSET Nat /\ T # {} => \E x \in T : \A y \in T : x <= y
<1> DEFINE R == OpToRel(<, Nat)
<1>1. IsWellFoundedOn(R, Nat)
  BY NatLessThanWellFounded
<1>2. \A x, y \in Nat : <<x, y>> \in R <=> x < y
  BY DEF OpToRel
<1> HIDE DEF R
<1> SUFFICES ASSUME NEW T \in SUBSET Nat, T # {} PROVE \E x \in T : \A y \in T : x <= y
  BY Zenon
<1>3. \E x \in T : \A y \in T : ~(<<y, x>> \in R)
  BY <1>1, MinimalIn, Zenon
<1> QED
  BY <1>2, <1>3, LeastByOrder, Zenon

\* Induction over the naturals, with a set for the property.
LEMMA Induction ==
  ASSUME NEW T, 0 \in T, \A n \in Nat : n \in T => n + 1 \in T
  PROVE  Nat \subseteq T
<1> SUFFICES ASSUME Nat \ T # {} PROVE FALSE
  OBVIOUS
<1>1. PICK x \in Nat \ T : \A y \in Nat \ T : x <= y
  BY LeastIn
<1>2. x # 0 /\ x - 1 \in Nat
  BY <1>1
<1>3. x - 1 \in T
  BY <1>1, <1>2
<1> QED
  BY <1>1, <1>2, <1>3

\* What absorb keeps after one more pair, and pair by pair.
KeptOf(kept, pair) == IF pair[1] \in Withheld \cup Denied THEN kept ELSE Append(kept, pair)
Absorbed(kept, metadata) ==
  kept = [n \in 0 .. Len(metadata) |-> IF n = 0 THEN <<>> ELSE KeptOf(kept[n - 1], metadata[n])]

\* There is such a function, since each pair only looks at the one before.
LEMMA AbsorbedExists ==
  ASSUME NEW S, NEW metadata \in Seq(S)
  PROVE  \E kept : Absorbed(kept, metadata)
<1> DEFINE At(n, x) == IF n = 0 THEN <<>> ELSE KeptOf(x, metadata[n])
           Part(f, k) == f = [n \in 0 .. k |-> At(n, f[n - 1])]
           T == {k \in Nat : \E f : Part(f, k)}
<1>0. \A x, y : At(0, x) = At(0, y)
  OBVIOUS
<1> HIDE DEF At
<1>1. 0 \in T
  <2> DEFINE f == [n \in 0 .. 0 |-> At(0, 0)]
  <2>1. \A n \in 0 .. 0 : f[n] = At(n, f[n - 1])
    BY <1>0
  <2>2. f = [n \in 0 .. 0 |-> f[n]]
    OBVIOUS
  <2> HIDE DEF f
  <2>3. Part(f, 0)
    BY <2>1, <2>2
  <2> QED
    BY <2>3
<1>2. ASSUME NEW k \in Nat, k \in T PROVE k + 1 \in T
  <2>1. PICK f : Part(f, k)
    BY <1>2
  <2> DEFINE g == [n \in 0 .. k + 1 |-> At(n, f[n - 1])]
  <2>2. \A n \in 0 .. k : g[n] = f[n]
    BY <2>1
  <2>3. ASSUME NEW n \in 0 .. k + 1 PROVE g[n] = At(n, g[n - 1])
    <3>1. CASE n = 0
      BY <1>0, <3>1
    <3>2. CASE n # 0
      <4>1. n - 1 \in 0 .. k
        BY <3>2
      <4> QED
        BY <2>2, <4>1
    <3> QED
      BY <3>1, <3>2
  <2>4. g = [n \in 0 .. k + 1 |-> g[n]]
    OBVIOUS
  <2> HIDE DEF g
  <2>5. [n \in 0 .. k + 1 |-> g[n]] = [n \in 0 .. k + 1 |-> At(n, g[n - 1])]
    BY <2>3
  <2>6. Part(g, k + 1)
    BY <2>4, <2>5
  <2> HIDE DEF Part
  <2>7. \E f2 : Part(f2, k + 1)
    BY <2>6
  <2> QED
    BY <2>7
<1> HIDE DEF T
<1>3. Len(metadata) \in T
  BY <1>1, <1>2, Induction
<1>4. PICK f : Part(f, Len(metadata))
  BY <1>3 DEF T
<1> QED
  BY <1>4 DEF At, Absorbed

\* absorb starts with nothing and takes one pair after the other.
LEMMA AbsorbingDef ==
  ASSUME NEW S, NEW metadata \in Seq(S)
  PROVE  /\ Absorbing(metadata)[0] = <<>>
         /\ \A t \in 0 .. Len(metadata) - 1 :
              Absorbing(metadata)[t + 1] = KeptOf(Absorbing(metadata)[t], metadata[t + 1])
<1> DEFINE g == CHOOSE kept : Absorbed(kept, metadata)
<1>0. \E kept : Absorbed(kept, metadata)
  BY AbsorbedExists
<1>1. Absorbed(g, metadata)
  BY <1>0, Zenon
<1>2. Absorbing(metadata) = g
  BY DEF Absorbing, Absorbed, KeptOf
<1> HIDE DEF g
<1>3. g[0] = <<>>
  BY <1>1 DEF Absorbed
<1>4. ASSUME NEW t \in 0 .. Len(metadata) - 1
      PROVE  g[t + 1] = KeptOf(g[t], metadata[t + 1])
  <2> DEFINE n == t + 1
  <2>1. n \in 0 .. Len(metadata) /\ n # 0 /\ n - 1 = t
    OBVIOUS
  <2> HIDE DEF n
  <2>2. g[n] = KeptOf(g[n - 1], metadata[n])
    BY <1>1, <2>1 DEF Absorbed
  <2> QED
    BY <2>1, <2>2 DEF n
<1> QED
  BY <1>2, <1>3, <1>4

\* Headers that are neither gRPC's own nor denied.
Passable(h, S) == h \in Seq(S) /\ \A i \in DOMAIN h : h[i][1] \notin Withheld \cup Denied

\* Another pair is passable or left out.
LEMMA KeptPassable ==
  ASSUME NEW S, NEW h, Passable(h, S), NEW pair \in S
  PROVE  Passable(KeptOf(h, pair), S)
<1>1. CASE pair[1] \in Withheld \cup Denied
  BY <1>1 DEF KeptOf
<1>2. CASE pair[1] \notin Withheld \cup Denied
  <2> DEFINE more == Append(h, pair)
  <2>1. KeptOf(h, pair) = more
    BY <1>2 DEF KeptOf
  <2>2. /\ h \in Seq(S) /\ Len(h) \in Nat /\ DOMAIN h = 1 .. Len(h)
        /\ \A i \in 1 .. Len(h) : h[i][1] \notin Withheld \cup Denied
    BY DEF Passable
  <2>3. more \in Seq(S) /\ Len(more) = Len(h) + 1 /\ more[Len(h) + 1] = pair /\ \A i \in 1 .. Len(h) : more[i] = h[i]
    BY <2>2
  <2>4. DOMAIN more = 1 .. Len(h) + 1
    BY <2>2, <2>3
  <2> HIDE DEF more
  <2>5. \A i \in 1 .. Len(h) + 1 : i = Len(h) + 1 \/ i \in 1 .. Len(h)
    BY <2>2
  <2>6. \A i \in DOMAIN more : more[i][1] \notin Withheld \cup Denied
    BY <1>2, <2>2, <2>3, <2>4, <2>5
  <2> QED
    BY <2>1, <2>3, <2>6 DEF Passable
<1> QED
  BY <1>1, <1>2

\* absorb passes on only what may be.
LEMMA AbsorbPassable ==
  ASSUME NEW S, NEW metadata \in Seq(S)
  PROVE  \A n \in 0 .. Len(metadata) : Passable(Absorbing(metadata)[n], S)
<1> DEFINE g == Absorbing(metadata)
           T == {t \in Nat : t <= Len(metadata) => Passable(g[t], S)}
<1>0. Len(metadata) \in Nat /\ \A t \in 1 .. Len(metadata) : metadata[t] \in S
  OBVIOUS
<1>1. g[0] = <<>> /\ \A t \in 0 .. Len(metadata) - 1 : g[t + 1] = KeptOf(g[t], metadata[t + 1])
  BY AbsorbingDef
<1> HIDE DEF g
<1>2. 0 \in T
  <2>1. Passable(<<>>, S)
    BY DEF Passable
  <2> QED
    BY <1>1, <2>1
<1>3. ASSUME NEW t \in Nat, t \in T PROVE t + 1 \in T
  <2> SUFFICES ASSUME t + 1 <= Len(metadata) PROVE Passable(g[t + 1], S)
    OBVIOUS
  <2>1. t \in 0 .. Len(metadata) - 1 /\ t <= Len(metadata) /\ t + 1 \in 1 .. Len(metadata)
    BY <1>0
  <2>2. Passable(g[t], S) /\ metadata[t + 1] \in S
    BY <1>0, <1>3, <2>1
  <2>3. g[t + 1] = KeptOf(g[t], metadata[t + 1])
    BY <1>1, <2>1
  <2> QED
    BY <2>2, <2>3, KeptPassable
<1> HIDE DEF T
<1>4. Nat \subseteq T
  BY <1>2, <1>3, Induction
<1> QED
  BY <1>0, <1>4 DEF T, g

\* Nothing is made of nothing.
LEMMA AbsorbNothing == Absorb(<<>>) = <<>>
<1>1. <<>> \in Seq({}) /\ Len(<<>>) = 0
  OBVIOUS
<1>2. Absorbing(<<>>)[0] = <<>>
  BY <1>1, AbsorbingDef
<1> QED
  BY <1>1, <1>2 DEF Absorb

\* What comes behind does not matter to what was kept before.
LEMMA AbsorbBefore ==
  ASSUME NEW S, NEW a \in Seq(S), NEW c \in Seq(S), Len(a) <= Len(c),
         \A i \in 1 .. Len(a) : c[i] = a[i]
  PROVE  Absorbing(c)[Len(a)] = Absorb(a)
<1> DEFINE f == Absorbing(a)
           g == Absorbing(c)
           T == {t \in Nat : t <= Len(a) => g[t] = f[t]}
<1>0. Len(a) \in Nat /\ Len(c) \in Nat
  OBVIOUS
<1>1. f[0] = <<>> /\ \A t \in 0 .. Len(a) - 1 : f[t + 1] = KeptOf(f[t], a[t + 1])
  BY AbsorbingDef
<1>2. g[0] = <<>> /\ \A t \in 0 .. Len(c) - 1 : g[t + 1] = KeptOf(g[t], c[t + 1])
  BY AbsorbingDef
<1> HIDE DEF f, g
<1>3. 0 \in T
  BY <1>1, <1>2
<1>4. ASSUME NEW t \in Nat, t \in T PROVE t + 1 \in T
  <2> SUFFICES ASSUME t + 1 <= Len(a) PROVE g[t + 1] = f[t + 1]
    OBVIOUS
  <2>1. t \in 0 .. Len(a) - 1 /\ t \in 0 .. Len(c) - 1 /\ t <= Len(a) /\ t + 1 \in 1 .. Len(a)
    BY <1>0
  <2>2. g[t] = f[t] /\ c[t + 1] = a[t + 1]
    BY <1>4, <2>1
  <2> QED
    BY <1>1, <1>2, <2>1, <2>2
<1> HIDE DEF T
<1>5. Nat \subseteq T
  BY <1>3, <1>4, Induction
<1>6. g[Len(a)] = f[Len(a)]
  BY <1>0, <1>5 DEF T
<1> QED
  BY <1>6 DEF f, g, Absorb

\* Metadata in two parts is absorbed part by part.
LEMMA AbsorbBoth ==
  ASSUME NEW S, NEW a \in Seq(S), NEW b \in Seq(S)
  PROVE  Absorb(a \o b) = Absorb(a) \o Absorb(b)
<1> DEFINE c == a \o b
           m == Len(a)
           f == Absorbing(b)
           g == Absorbing(c)
           had == Absorb(a)
           T == {t \in Nat : t <= Len(b) => g[m + t] = had \o f[t]}
<1>0. /\ m \in Nat /\ Len(b) \in Nat /\ c \in Seq(S) /\ Len(c) = m + Len(b) /\ m <= Len(c)
      /\ \A i \in 1 .. m : c[i] = a[i]
      /\ \A i \in 1 .. Len(b) : c[m + i] = b[i] /\ b[i] \in S
  OBVIOUS
<1> HIDE DEF c
<1>1. f[0] = <<>> /\ \A t \in 0 .. Len(b) - 1 : f[t + 1] = KeptOf(f[t], b[t + 1])
  BY AbsorbingDef
<1>2. \A t \in 0 .. Len(c) - 1 : g[t + 1] = KeptOf(g[t], c[t + 1])
  BY <1>0, AbsorbingDef
<1>3. g[m] = had
  BY <1>0, AbsorbBefore
<1>4. had \in Seq(S) /\ \A t \in 0 .. Len(b) : f[t] \in Seq(S)
  <2>1. m \in 0 .. m
    BY <1>0
  <2> QED
    BY <2>1, AbsorbPassable DEF Passable, Absorb
<1>5. Absorb(c) = g[m + Len(b)] /\ Absorb(b) = f[Len(b)]
  BY <1>0 DEF Absorb
<1> HIDE DEF f, g, had, m
<1>6. 0 \in T
  <2>1. m + 0 = m /\ had \o <<>> = had
    BY <1>0, <1>4
  <2> QED
    BY <1>1, <1>3, <2>1
<1>7. ASSUME NEW t \in Nat, t \in T PROVE t + 1 \in T
  <2> SUFFICES ASSUME t + 1 <= Len(b) PROVE g[m + (t + 1)] = had \o f[t + 1]
    OBVIOUS
  <2>1. /\ t \in 0 .. Len(b) - 1 /\ t \in 0 .. Len(b) /\ t + 1 \in 1 .. Len(b) /\ t <= Len(b)
        /\ m + t \in 0 .. Len(c) - 1 /\ (m + t) + 1 = m + (t + 1)
    BY <1>0
  <2>2. g[m + t] = had \o f[t]
    BY <1>7, <2>1
  <2>3. c[m + (t + 1)] = b[t + 1] /\ b[t + 1] \in S
    BY <1>0, <2>1
  <2>4. g[m + (t + 1)] = KeptOf(g[m + t], c[m + (t + 1)])
    <3> DEFINE k == m + t
    <3> HIDE DEF k
    <3>1. g[k + 1] = KeptOf(g[k], c[k + 1])
      BY <1>2, <2>1 DEF k
    <3> QED
      BY <2>1, <3>1 DEF k
  <2>5. f[t + 1] = KeptOf(f[t], b[t + 1]) /\ f[t] \in Seq(S)
    BY <1>1, <1>4, <2>1
  <2>6. had \o KeptOf(f[t], b[t + 1]) = KeptOf(had \o f[t], b[t + 1])
    <3> DEFINE x == f[t]
               pair == b[t + 1]
    <3>1. had \in Seq(S) /\ x \in Seq(S) /\ pair \in S
      BY <1>4, <2>3, <2>5
    <3> HIDE DEF x, pair
    <3>2. had \o KeptOf(x, pair) = KeptOf(had \o x, pair)
      <4>1. had \o Append(x, pair) = Append(had \o x, pair)
        BY <3>1
      <4> QED
        BY <4>1 DEF KeptOf
    <3> QED
      BY <3>2 DEF x, pair
  <2>7. g[m + (t + 1)] = KeptOf(had \o f[t], b[t + 1])
    BY <2>2, <2>3, <2>4
  <2> QED
    BY <2>5, <2>6, <2>7
<1> HIDE DEF T
<1>8. Nat \subseteq T
  BY <1>6, <1>7, Induction
<1>9. g[m + Len(b)] = had \o f[Len(b)]
  BY <1>0, <1>8 DEF T
<1> QED
  BY <1>5, <1>9 DEF c, had

\* So what is passed on of two parts is passable too.
LEMMA AbsorbTyped ==
  ASSUME NEW S, NEW metadata \in Seq(S)
  PROVE  \A i \in DOMAIN Absorb(metadata) : Absorb(metadata)[i][1] \notin Withheld \cup Denied
<1>1. Len(metadata) \in 0 .. Len(metadata)
  OBVIOUS
<1> QED
  BY <1>1, AbsorbPassable DEF Passable, Absorb

-----------------------------------------------------------------------------
\* Every header may be passed on.
Passing(response) == \A i \in DOMAIN response.headers : response.headers[i][1] \notin Withheld \cup Denied

\* What the upstream sent so far; nothing before its headers.
HeadersInv ==
  /\ initial \in Seq(Pairs) /\ trailers \in Seq(Pairs)
  /\ phase \in {"reading", "opening"} => initial = <<>>
  /\ HeadersPassed

\* A unary answer to a call that ended has the headers of both.
Both ==
  Faithful(outcome) /\ wire.frames # <<Frame("error", "internal")>> =>
    wire.headers = Absorb(initial) \o Absorb(trailers)

Whole(response) ==
  response = [status |-> response.status, type |-> response.type, headers |-> response.headers,
              frames |-> response.frames, end |-> response.end]

\* No answer of the proxy's own has headers to hide.
LEMMA FullPassing ==
  ASSUME NEW status, NEW headers, NEW type, NEW frames,
         \A i \in DOMAIN headers : headers[i][1] \notin Withheld \cup Denied
  PROVE  /\ Passing(Full(status, headers, type, frames)) /\ Whole(Full(status, headers, type, frames))
         /\ Full(status, headers, type, frames).headers = headers
  BY ZenonT(60) DEF Passing, Whole, Full, NoResponse

\* An error passes on metadata, or nothing.
LEMMA ErrorPassing ==
  ASSUME NEW status, NEW metadata \in Seq(Pairs)
  PROVE  /\ Passing(ErrorAnswer(status, metadata)) /\ Whole(ErrorAnswer(status, metadata))
         /\ Faithful(status) => ErrorAnswer(status, metadata).headers = Absorb(metadata)
<1> DEFINE h == IF Faithful(status) THEN Absorb(metadata) ELSE <<>>
<1>1. \A i \in DOMAIN h : h[i][1] \notin Withheld \cup Denied
  BY AbsorbTyped
<1> HIDE DEF h
<1>2. /\ Passing(Full(HttpStatus[Rendered(status)], h, "json", <<Frame("error", Rendered(status))>>))
      /\ Whole(Full(HttpStatus[Rendered(status)], h, "json", <<Frame("error", Rendered(status))>>))
      /\ Full(HttpStatus[Rendered(status)], h, "json", <<Frame("error", Rendered(status))>>).headers = h
  BY <1>1, FullPassing
<1> QED
  BY <1>2 DEF ErrorAnswer, h

\* What a step has to show.
LEMMA HeadersStep ==
  ASSUME UNCHANGED asked, initial' \in Seq(Pairs), trailers' \in Seq(Pairs),
         phase' \in {"reading", "opening"} => initial' = <<>>,
         Passing(wire'),
         wire'.end = "clean" /\ ~entry.streaming /\ ~head /\ outcome' # Running => Both'
  PROVE  HeadersInv'
<1>1. entry' = entry /\ head' = head
  BY DEF asked
<1>2. \A i \in DOMAIN wire'.headers : wire'.headers[i][1] \notin Withheld \cup Denied
  BY DEF Passing
<1>3. HeadersPassed'
  BY <1>1, <1>2 DEF HeadersPassed, Both
<1> QED
  BY <1>3 DEF HeadersInv

\* A step that leaves the headers as they are.
LEMMA SameHeaders ==
  ASSUME HeadersInv, UNCHANGED asked, initial' \in Seq(Pairs), trailers' \in Seq(Pairs),
         phase' \in {"reading", "opening"} => initial' = <<>>,
         wire'.headers = wire.headers, wire'.end = "clean" => entry.streaming
  PROVE  HeadersInv'
<1>1. Passing(wire')
  BY DEF HeadersInv, HeadersPassed, Passing
<1> QED
  BY <1>1, HeadersStep

\* An answer.
LEMMA AnswerHeaders ==
  ASSUME HeadersInv, NEW response, Answer(response), UNCHANGED <<asked, upstream>>,
         Passing(response), Whole(response),
         ~entry.streaming /\ ~head /\ outcome # Running
           /\ Faithful(outcome) /\ response.frames # <<Frame("error", "internal")>> =>
           response.headers = Absorb(initial) \o Absorb(trailers)
  PROVE  HeadersInv'
<1>1. /\ wire'.headers = response.headers /\ (~head => wire'.frames = response.frames)
      /\ phase' = "done"
  BY DEF Answer, Whole
<1>2. initial' = initial /\ trailers' = trailers /\ outcome' = outcome /\ entry' = entry
  BY DEF asked, upstream
<1>3. Passing(wire')
  BY <1>1 DEF Passing
<1>4. ~entry.streaming /\ ~head /\ outcome' # Running => Both'
  BY <1>1, <1>2 DEF Both, Faithful
<1>5. initial' \in Seq(Pairs) /\ trailers' \in Seq(Pairs)
  BY <1>2 DEF HeadersInv
<1> QED
  BY <1>1, <1>3, <1>4, <1>5, HeadersStep

\* An error of the proxy's own, before the call has ended.
LEMMA EarlyError ==
  ASSUME CallInv, HeadersInv, NEW code, up # "ended", Answer(ErrorAnswer(Status(code), <<>>)),
         UNCHANGED <<asked, upstream>>
  PROVE  HeadersInv'
<1>1. outcome = Running
  BY DEF CallInv, InStep
<1>2. <<>> \in Seq(Pairs)
  OBVIOUS
<1> QED
  BY <1>1, <1>2, ErrorPassing, AnswerHeaders

\* A response with its body to come, on a stream.
LEMMA BeginHeaders ==
  ASSUME UNCHANGED asked, initial' \in Seq(Pairs), trailers' \in Seq(Pairs), entry.streaming,
         NEW metadata \in Seq(Pairs), NEW type, NEW frames, NEW rest,
         Begin(Streamed(Absorb(metadata), type, frames), rest)
  PROVE  HeadersInv'
<1>1. \A i \in DOMAIN Absorb(metadata) : Absorb(metadata)[i][1] \notin Withheld \cup Denied
  BY AbsorbTyped
<1>2. wire'.headers = Absorb(metadata) /\ phase' \in {"done", "body"}
  <2> DEFINE response == Streamed(Absorb(metadata), type, frames)
             ended == [response EXCEPT !.end = "clean"]
  <2>1. response = [status |-> 200, type |-> type, headers |-> Absorb(metadata), frames |-> frames, end |-> "open"]
    BY DEF Streamed
  <2>2. ended = [status |-> 200, type |-> type, headers |-> Absorb(metadata), frames |-> frames, end |-> "clean"]
    BY <2>1
  <2>3. IF head THEN Answer(ended) ELSE wire' = response /\ phase' = "body"
    BY DEF Begin
  <2> HIDE DEF response, ended
  <2> QED
    BY <2>1, <2>2, <2>3 DEF Answer
<1>3. Passing(wire')
  BY <1>1, <1>2 DEF Passing
<1> QED
  BY <1>2, <1>3, HeadersStep

\* A unary answer after the trailers.
LEMMA UnaryHeaders ==
  ASSUME HeadersInv
  PROVE  LET response == UnarySuccess(first)
         IN /\ Passing(response) /\ Whole(response)
            /\ response.frames # <<Frame("error", "internal")>> =>
                 response.headers = Absorb(initial) \o Absorb(trailers)
<1> DEFINE response == UnarySuccess(first)
           md == initial \o trailers
<1>0. md \in Seq(Pairs) /\ Absorb(md) = Absorb(initial) \o Absorb(trailers)
  BY AbsorbBoth DEF HeadersInv
<1>1. CASE CodeOf(md) = 0 \/ first = "bad_type"
  <2>1. response = [status |-> 500, type |-> "json", headers |-> <<>>,
                    frames |-> <<Frame("error", "internal")>>, end |-> "clean"]
    BY <1>1 DEF UnarySuccess, Malformed, Full
  <2> HIDE DEF response
  <2>2. Passing(response) /\ Whole(response) /\ response.frames = <<Frame("error", "internal")>>
    BY <2>1 DEF Passing, Whole
  <2> QED
    BY <2>2 DEF response
<1>2. CASE ~(CodeOf(md) = 0 \/ first = "bad_type") /\ first = "odd"
  <2>1. response = ErrorAnswer(Status("internal"), <<>>)
    BY <1>2 DEF UnarySuccess
  <2>2. Rendered(Status("internal")) = "internal" /\ HttpStatus["internal"] = 500
    BY DEF Rendered, Faithful, Status, HttpStatus
  <2>3. response.frames = <<Frame("error", "internal")>>
    BY <2>1, <2>2 DEF ErrorAnswer, Full
  <2>4. <<>> \in Seq(Pairs)
    OBVIOUS
  <2>5. Passing(response) /\ Whole(response)
    BY <2>1, <2>4, ErrorPassing
  <2> HIDE DEF response
  <2> QED
    BY <2>3, <2>5 DEF response
<1>3. CASE ~(CodeOf(md) = 0 \/ first = "bad_type") /\ first # "odd"
  <2>1. response = Full(CodeOf(md), Absorb(md), entry.shape, Chunk(first))
    BY <1>3 DEF UnarySuccess
  <2>2. \A i \in DOMAIN Absorb(md) : Absorb(md)[i][1] \notin Withheld \cup Denied
    BY <1>0, AbsorbTyped
  <2>3. Passing(response) /\ Whole(response) /\ response.headers = Absorb(md)
    BY <2>1, <2>2, FullPassing
  <2> HIDE DEF response, md
  <2> QED
    BY <1>0, <2>3 DEF response, md
<1> QED
  BY <1>1, <1>2, <1>3

\* A call that is answered with a status alone.
LEMMA TrailersOnlyHeaders ==
  ASSUME CallInv, HeadersInv, NEW status \in Statuses, NEW metadata \in Metadata, TrailersOnly(status, metadata)
  PROVE  HeadersInv'
<1> DEFINE response == ErrorAnswer(status, metadata)
<1>1. metadata \in Seq(Pairs)
  BY CallAssumption
<1>2. /\ UNCHANGED asked /\ outcome' = status /\ phase' = "done" /\ trailers' = metadata
      /\ initial' = initial /\ initial = <<>> /\ entry' = entry
      /\ wire' = [response EXCEPT !.frames = IF head THEN <<>> ELSE @]
  BY DEF TrailersOnly, HeadersInv, asked
<1>3. Passing(response) /\ Whole(response) /\ (Faithful(status) => response.headers = Absorb(metadata))
  BY <1>1, ErrorPassing
<1> HIDE DEF response
<1>4. wire'.headers = response.headers
  BY <1>2, <1>3 DEF Whole
<1>5. Passing(wire')
  BY <1>3, <1>4 DEF Passing
<1>6. Absorb(<<>>) \o Absorb(metadata) = Absorb(metadata)
  <2>1. <<>> \in Seq(Pairs) /\ <<>> \o metadata = metadata
    BY <1>1
  <2> QED
    BY <1>1, <2>1, AbsorbBoth
<1>7. Faithful(outcome)' => Faithful(status)
  BY <1>2 DEF Faithful
<1>8. Both'
  <2>1. Absorb(initial)' = Absorb(<<>>) /\ Absorb(trailers)' = Absorb(metadata)
    BY <1>2
  <2> QED
    BY <1>3, <1>4, <1>6, <1>7, <2>1 DEF Both
<1>9. initial' \in Seq(Pairs) /\ trailers' \in Seq(Pairs)
  BY <1>1, <1>2
<1> QED
  BY <1>2, <1>5, <1>8, <1>9, HeadersStep

\* The upstream's headers are in.
LEMMA OpenedHeaders ==
  ASSUME CallInv, HeadersInv, NEW metadata \in Metadata, Opened(metadata)
  PROVE  HeadersInv'
<1>1. metadata \in Seq(Pairs)
  BY CallAssumption
<1>2. UNCHANGED asked /\ initial' = metadata /\ trailers' = trailers /\ trailers \in Seq(Pairs)
  BY DEF Opened, HeadersInv
<1>3. CASE entry.streaming /\ entry.shape = "json"
  <2>1. Begin(Streamed(Absorb(metadata), IF sse THEN "sse" ELSE "ndjson", <<>>), <<>>)
    BY <1>3 DEF Opened
  <2> QED
    BY <1>1, <1>2, <1>3, <2>1, BeginHeaders
<1>4. CASE ~(entry.streaming /\ entry.shape = "json")
  <2>1. phase' = "first" /\ wire' = wire
    BY <1>4 DEF Opened
  <2>2. wire.end = "open"
    BY DEF CallInv, InStep, Opened
  <2> QED
    BY <1>1, <1>2, <2>1, <2>2, SameHeaders
<1> QED
  BY <1>3, <1>4

\* A unary call: an answer once the upstream has ended.
LEMMA UnaryEndHeaders ==
  ASSUME CallInv, HeadersInv, NoMessage \/ ReadTrailers
  PROVE  HeadersInv'
<1> DEFINE md == initial \o trailers
<1>0. /\ initial \in Seq(Pairs) /\ trailers \in Seq(Pairs) /\ UNCHANGED <<asked, upstream>> /\ md \in Seq(Pairs)
      /\ initial' = initial /\ trailers' = trailers /\ UNCHANGED asked /\ wire.end = "open"
  BY DEF HeadersInv, NoMessage, ReadTrailers, CallInv, InStep, upstream
<1>1. Absorb(md) = Absorb(initial) \o Absorb(trailers)
  BY <1>0, AbsorbBoth
<1>2. /\ Passing(ErrorAnswer(outcome, md)) /\ Whole(ErrorAnswer(outcome, md))
      /\ Faithful(outcome) => ErrorAnswer(outcome, md).headers = Absorb(md)
  BY <1>0, ErrorPassing
<1>3. ASSUME Answer(ErrorAnswer(outcome, md)) PROVE HeadersInv'
  <2> DEFINE response == ErrorAnswer(outcome, md)
  <2>1. Answer(response) /\ Passing(response) /\ Whole(response)
        /\ (Faithful(outcome) => response.headers = Absorb(initial) \o Absorb(trailers))
    BY <1>1, <1>2, <1>3
  <2> HIDE DEF response
  <2> QED
    BY <1>0, <2>1, AnswerHeaders
<1>4. CASE NoMessage
  <2>1. CASE outcome # Ok
    <3>1. Answer(ErrorAnswer(outcome, md))
      BY <1>4, <2>1 DEF NoMessage
    <3> QED
      BY <1>3, <3>1
  <2>2. CASE outcome = Ok
    <3> DEFINE response == ErrorAnswer(Status("internal"), initial \o <<>>)
    <3>1. Answer(response)
      BY <1>4, <2>2 DEF NoMessage
    <3>2. initial \o <<>> \in Seq(Pairs)
      BY <1>0
    <3>3. Passing(response) /\ Whole(response)
      BY <3>2, ErrorPassing
    <3>4. Rendered(Status("internal")) = "internal" /\ HttpStatus["internal"] = 500
      BY DEF Rendered, Faithful, Status, HttpStatus
    <3>5. response.frames = <<Frame("error", "internal")>>
      BY <3>4 DEF ErrorAnswer, Full
    <3> HIDE DEF response
    <3> QED
      BY <1>0, <3>1, <3>3, <3>5, AnswerHeaders
  <2> QED
    BY <2>1, <2>2
<1>5. CASE ReadTrailers /\ Drained
  <2>1. CASE outcome # Ok
    <3>1. Answer(ErrorAnswer(outcome, md))
      BY <1>5, <2>1 DEF ReadTrailers
    <3> QED
      BY <1>3, <3>1
  <2>2. CASE outcome = Ok
    <3> DEFINE response == UnarySuccess(first)
    <3>1. Answer(response)
      BY <1>5, <2>2 DEF ReadTrailers
    <3>2. /\ Passing(response) /\ Whole(response)
          /\ response.frames # <<Frame("error", "internal")>> =>
               response.headers = Absorb(initial) \o Absorb(trailers)
      BY UnaryHeaders
    <3> HIDE DEF response
    <3> QED
      BY <1>0, <3>1, <3>2, AnswerHeaders
  <2> QED
    BY <2>1, <2>2
<1>6. CASE ReadTrailers /\ ~Drained
  <2>1. phase' = "trailers" /\ wire' = wire
    BY <1>6 DEF ReadTrailers
  <2> QED
    BY <1>0, <2>1, SameHeaders
<1> QED
  BY <1>4, <1>5, <1>6

\* The headers of an HttpBody stream.
LEMMA HttpBodyHeaders ==
  ASSUME CallInv, HeadersInv, HttpBodyFirst \/ HttpBodyNone
  PROVE  HeadersInv'
<1>0. /\ initial \in Seq(Pairs) /\ trailers \in Seq(Pairs) /\ UNCHANGED <<asked, upstream>> /\ entry.streaming
      /\ initial' = initial /\ trailers' = trailers /\ UNCHANGED asked
  BY DEF HeadersInv, HttpBodyFirst, HttpBodyNone, upstream
<1>1. ASSUME NEW response, Answer(response), Passing(response), Whole(response) PROVE HeadersInv'
  BY <1>0, <1>1, AnswerHeaders
<1>2. CASE HttpBodyFirst /\ Next1 = "bad_type"
  <2>1. Answer(Malformed)
    BY <1>2 DEF HttpBodyFirst
  <2>2. Passing(Malformed) /\ Whole(Malformed)
    BY FullPassing DEF Malformed
  <2> QED
    BY <1>1, <2>1, <2>2
<1>3. CASE HttpBodyFirst /\ Next1 # "bad_type"
  <2>1. Begin(Streamed(Absorb(initial), "http_body", Chunk(Next1)), Tail(pipe))
    BY <1>3 DEF HttpBodyFirst
  <2> QED
    BY <1>0, <2>1, BeginHeaders
<1>4. CASE HttpBodyNone /\ outcome = Ok
  <2> DEFINE response == [Streamed(Absorb(initial), "none", <<>>) EXCEPT !.end = "clean"]
  <2>1. Answer(response)
    BY <1>4 DEF HttpBodyNone
  <2>2. response = [status |-> 200, type |-> "none", headers |-> Absorb(initial), frames |-> <<>>, end |-> "clean"]
    BY DEF Streamed
  <2> HIDE DEF response
  <2>3. Passing(response) /\ Whole(response)
    BY <1>0, <2>2, AbsorbTyped DEF Passing, Whole
  <2> QED
    BY <1>1, <2>1, <2>3
<1>5. CASE HttpBodyNone /\ outcome # Ok
  <2> DEFINE md == initial \o trailers
  <2>1. Answer(ErrorAnswer(outcome, md)) /\ md \in Seq(Pairs)
    BY <1>0, <1>5 DEF HttpBodyNone
  <2> HIDE DEF md
  <2>2. Passing(ErrorAnswer(outcome, md)) /\ Whole(ErrorAnswer(outcome, md))
    BY <2>1, ErrorPassing
  <2> QED
    BY <1>1, <2>1, <2>2
<1> QED
  BY <1>2, <1>3, <1>4, <1>5

\* A body goes on or ends: the headers are out.
LEMMA BodyHeaders ==
  ASSUME CallInv, HeadersInv, JsonFrame \/ JsonEnd \/ HttpBodyChunk \/ HttpBodyEnd
  PROVE  HeadersInv'
<1>1. /\ initial' = initial /\ trailers' = trailers /\ initial \in Seq(Pairs) /\ trailers \in Seq(Pairs)
      /\ UNCHANGED asked /\ phase = "body" /\ phase' \in {"body", "done"}
  BY DEF HeadersInv, JsonFrame, JsonEnd, HttpBodyChunk, HttpBodyEnd, upstream, Close
<1>2. entry.streaming /\ Whole(wire)
  BY <1>1 DEF CallInv, StreamInStep, TypeOK, Whole
<1>3. wire'.headers = wire.headers
  BY <1>2 DEF JsonFrame, JsonEnd, HttpBodyChunk, HttpBodyEnd, Close, Push, Whole
<1> QED
  BY <1>1, <1>2, <1>3, SameHeaders

\* Every step.
LEMMA HeadersNext ==
  ASSUME CallInv, HeadersInv, Next
  PROVE  HeadersInv'
<1>0. initial \in Seq(Pairs) /\ trailers \in Seq(Pairs) /\ (phase \in {"reading", "opening"} => initial = <<>>)
  BY DEF HeadersInv
<1>1. CASE Refuse
  <2>1. UNCHANGED <<asked, upstream>> /\ up # "ended"
    BY <1>1 DEF Refuse, CallInv, InStep
  <2>2. CASE Answer(ErrorAnswer(Status("invalid_argument"), <<>>))
    BY <2>1, <2>2, EarlyError
  <2>3. CASE Answer(Full(413, <<>>, "text", <<Frame("error", "body")>>))
    <3>1. outcome = Running
      BY <2>1 DEF CallInv, InStep
    <3>2. /\ Passing(Full(413, <<>>, "text", <<Frame("error", "body")>>))
          /\ Whole(Full(413, <<>>, "text", <<Frame("error", "body")>>))
      BY FullPassing
    <3> QED
      BY <2>1, <2>3, <3>1, <3>2, AnswerHeaders
  <2> QED
    BY <1>1, <2>2, <2>3 DEF Refuse
<1>2. CASE NotReady \/ Expire
  <2>1. UNCHANGED <<asked, upstream>> /\ up # "ended"
    BY <1>2 DEF NotReady, Expire
  <2> QED
    BY <1>2, <2>1, EarlyError DEF NotReady, Expire
<1>3. CASE Prepare \/ Ready \/ ReadMessage \/ \E m \in {"plain", "odd", "typed", "empty", "bad_type"} : UpstreamSends(m)
  <2>1. /\ initial' = initial /\ trailers' = trailers /\ UNCHANGED asked /\ wire' = wire
        /\ phase' \in {"reading", "opening"} => phase \in {"reading", "opening"}
    BY <1>3 DEF Prepare, Ready, ReadMessage, UpstreamSends, upstream
  <2>2. wire.end = "open"
    BY <1>3 DEF Prepare, Ready, ReadMessage, UpstreamSends, CallInv, InStep
  <2> QED
    BY <1>0, <2>1, <2>2, SameHeaders
<1>4. ASSUME NEW status \in Statuses, NEW metadata \in Metadata, UpstreamEnds(status, metadata) PROVE HeadersInv'
  <2>1. /\ initial' = initial /\ trailers' \in Seq(Pairs) /\ UNCHANGED asked /\ wire' = wire /\ phase' = phase
    BY <1>4, CallAssumption DEF UpstreamEnds
  <2>2. wire.end = "open"
    BY <1>4 DEF UpstreamEnds, CallInv, InStep, TypeOK
  <2> QED
    BY <1>0, <2>1, <2>2, SameHeaders
<1>5. CASE ClientLeaves
  <2>1. initial' = initial /\ trailers' = trailers /\ UNCHANGED asked /\ phase' = "done"
    BY <1>5 DEF ClientLeaves, upstream
  <2>2. wire'.headers = wire.headers /\ wire'.end = "gone"
    BY <1>5 DEF ClientLeaves, CallInv, TypeOK
  <2> QED
    BY <1>0, <2>1, <2>2, SameHeaders
<1>6. CASE NoMessage \/ ReadTrailers
  BY <1>6, UnaryEndHeaders
<1>7. CASE HttpBodyFirst \/ HttpBodyNone
  BY <1>7, HttpBodyHeaders
<1>8. CASE JsonFrame \/ JsonEnd \/ HttpBodyChunk \/ HttpBodyEnd
  BY <1>8, BodyHeaders
<1>9. ASSUME NEW metadata \in Metadata, Opened(metadata) PROVE HeadersInv'
  BY <1>9, OpenedHeaders
<1>10. ASSUME NEW status \in Statuses, NEW metadata \in Metadata, TrailersOnly(status, metadata) PROVE HeadersInv'
  BY <1>10, TrailersOnlyHeaders
<1> QED
  BY <1>1, <1>2, <1>3, <1>4, <1>5, <1>6, <1>7, <1>8, <1>9, <1>10 DEF Next, Proxy, Answering, Body

\* At first there are none.
LEMMA HeadersInit == Init => HeadersInv
  BY DEF Init, HeadersInv, HeadersPassed, NoResponse

\* Whatever the upstream sends and wherever the call ends, the headers that go out
\* (UpstreamHeaders) are the upstream's in their order, those of the trailers behind
\* those before, and none of gRPC's own or a denied one.
THEOREM HeadersArePassed == Spec => []HeadersPassed
<1>1. Init => HeadersInv
  BY HeadersInit
<1>2. CallInv /\ HeadersInv /\ [Next]_vars => HeadersInv'
  <2> SUFFICES ASSUME CallInv, HeadersInv, [Next]_vars PROVE HeadersInv'
    OBVIOUS
  <2>1. CASE Next
    BY <2>1, HeadersNext
  <2>2. CASE UNCHANGED vars
    BY <2>2 DEF vars, HeadersInv, HeadersPassed, Faithful
  <2> QED
    BY <2>1, <2>2
<1>3. HeadersInv => HeadersPassed
  BY DEF HeadersInv
<1> QED
  BY <1>1, <1>2, <1>3, CallSound, PTL DEF Spec

-----------------------------------------------------------------------------
\* The pool that complete_with_canonical leaves.

\* What is known of the pool once the first k canonical files are merged: it holds
\* the product's files and copies of those, no type is in two files, what is
\* imported for one of them provides its types unless one of those is lost or the
\* product's file of that name is hollow, and one is lost only for a cause.
OwnFiles(files, acc, k) ==
  \A f \in acc.files : \/ f \in files
                       \/ \E j \in 1 .. k : /\ f.types \subseteq Canonical[j].types
                                            /\ f.name \in {Canonical[j].name, Copy(Canonical[j].name)}
TypesApart(files) == \A f, g \in files : f.types \cap g.types # {} => f.name = g.name
Unusable(files, acc, j) == Hollow(files, Canonical[j]) \/ Lost(acc.files, Canonical[j])
Cause(files, acc, k, i) ==
  \/ Present(files, Copy(Canonical[i].name))
  \/ \E j \in 1 .. k : Canonical[j].name \in Canonical[i].imports /\ Unusable(files, acc, j)
Provides(acc, j) ==
  /\ \A name \in ImportOf(acc, Canonical[j].name) : Present(acc.files, name)
  /\ \A type \in Canonical[j].types :
       \E f \in acc.files : f.name \in ImportOf(acc, Canonical[j].name) /\ type \in f.types
StandsIn(acc, k) == \A s \in acc.standIns : \E j \in 1 .. k : s.for = Canonical[j].name
Merged(files, acc, k) ==
  /\ acc = [files |-> acc.files, standIns |-> acc.standIns] /\ files \subseteq acc.files
  /\ OwnFiles(files, acc, k) /\ TypesApart(acc.files) /\ StandsIn(acc, k)
  /\ \A j \in 1 .. k : Unusable(files, acc, j) \/ Provides(acc, j)
  /\ \A j \in 1 .. k : Lost(acc.files, Canonical[j]) => Cause(files, acc, k, j)

\* A name and its copy's determine each other.
LEMMA CopyApart ==
  ASSUME NEW a, NEW b, a \in Seq(ToSet(a)), b \in Seq(ToSet(b)), Copy(a) = Copy(b)
  PROVE  a = b
<1> DEFINE h == <<"structured-proxy/canonical">>
           c == h \o a
           d == h \o b
           S == ToSet(a) \cup ToSet(b)
<1>0. h \in Seq(ToSet(h)) /\ Len(h) = 1
  BY DEF ToSet
<1>1. Len(a) \in Nat /\ Len(b) \in Nat /\ DOMAIN a = 1 .. Len(a) /\ DOMAIN b = 1 .. Len(b)
  OBVIOUS
<1>2. Len(c) = 1 + Len(a) /\ \A i \in 1 .. Len(a) : c[1 + i] = a[i]
  BY <1>0
<1>3. Len(d) = 1 + Len(b) /\ \A i \in 1 .. Len(b) : d[1 + i] = b[i]
  BY <1>0
<1>4. c = d
  BY DEF Copy
<1> HIDE DEF c, d, h, S
<1>5. Len(a) = Len(b)
  <2>1. Len(c) = Len(d)
    BY <1>4
  <2>2. 1 + Len(a) = 1 + Len(b)
    BY <1>2, <1>3, <2>1
  <2> DEFINE x == Len(a)
             y == Len(b)
  <2>3. x \in Nat /\ y \in Nat /\ 1 + x = 1 + y
    BY <1>1, <2>2
  <2> HIDE DEF x, y
  <2>4. x = y
    BY <2>3
  <2> QED
    BY <2>4 DEF x, y
<1>6. \A i \in 1 .. Len(a) : a[i] = b[i]
  BY <1>2, <1>3, <1>4, <1>5
<1>7. a \in Seq(S) /\ b \in Seq(S)
  <2>1. ToSet(a) \subseteq S /\ ToSet(b) \subseteq S
    BY DEF S
  <2> QED
    BY <2>1
<1> QED
  BY <1>5, <1>6, <1>7

\* The names of the canonical files and of their copies.
LEMMA CanonicalNames ==
  ASSUME NEW i \in DOMAIN Canonical, NEW j \in DOMAIN Canonical
  PROVE  /\ Canonical[i].name # Copy(Canonical[j].name)
         /\ i # j => /\ Canonical[i].name # Canonical[j].name
                     /\ Copy(Canonical[i].name) # Copy(Canonical[j].name)
                     /\ Canonical[i].types \cap Canonical[j].types = {}
BY CanonicalAssumption, CopyApart

\* What is not of the canonical files merged so far is the product's.
LEMMA NextIsOwn ==
  ASSUME NEW files \in Products, NEW acc, NEW k \in Nat, k + 1 \in 1 .. Len(Canonical), OwnFiles(files, acc, k),
         NEW f \in acc.files,
         f.name = Canonical[k + 1].name \/ f.types \cap Canonical[k + 1].types # {}
  PROVE  f \in files
<1> SUFFICES ASSUME f \notin files PROVE FALSE
  OBVIOUS
<1>0. k + 1 \in DOMAIN Canonical /\ 1 .. k \subseteq DOMAIN Canonical
  BY CanonicalAssumption
<1>1. PICK j \in 1 .. k : /\ f.types \subseteq Canonical[j].types
                          /\ f.name \in {Canonical[j].name, Copy(Canonical[j].name)}
  BY DEF OwnFiles
<1>2. j \in DOMAIN Canonical /\ j # k + 1
  BY <1>0, <1>1
<1>3. /\ Canonical[k + 1].name # Copy(Canonical[j].name)
      /\ Canonical[k + 1].name # Canonical[j].name
      /\ Canonical[k + 1].types \cap Canonical[j].types = {}
  BY <1>0, <1>2, CanonicalNames
<1> QED
  BY <1>1, <1>3

\* The copy's name is free, unless the product uses it.
LEMMA CopyFree ==
  ASSUME NEW files \in Products, NEW acc, NEW k \in Nat, k + 1 \in 1 .. Len(Canonical), OwnFiles(files, acc, k),
         ~Present(files, Copy(Canonical[k + 1].name))
  PROVE  ~Present(acc.files, Copy(Canonical[k + 1].name))
<1> SUFFICES ASSUME NEW f \in acc.files, f.name = Copy(Canonical[k + 1].name) PROVE FALSE
  BY DEF Present
<1>0. k + 1 \in DOMAIN Canonical /\ 1 .. k \subseteq DOMAIN Canonical
  BY CanonicalAssumption
<1>1. f \notin files
  BY DEF Present
<1>2. PICK j \in 1 .. k : f.name \in {Canonical[j].name, Copy(Canonical[j].name)}
  BY <1>1 DEF OwnFiles
<1>3. j \in DOMAIN Canonical /\ j # k + 1
  BY <1>0, <1>2
<1> QED
  BY <1>0, <1>2, <1>3, CanonicalNames

\* What is imported for a file, stand-ins or not.
LEMMA ImportCases ==
  ASSUME NEW acc, NEW n, NEW U, U = UNION StandIns(acc, n)
  PROVE  /\ StandIns(acc, n) = {} => ImportOf(acc, n) = {n}
         /\ StandIns(acc, n) # {} /\ Present(acc.files, n) => ImportOf(acc, n) = U \cup {n}
         /\ StandIns(acc, n) # {} /\ ~Present(acc.files, n) => ImportOf(acc, n) = U
BY DEF ImportOf

\* As files go in, only a file that is there is imported beside those before.
LEMMA ImportsMore ==
  ASSUME NEW acc, NEW more, NEW n, acc.files \subseteq more.files, StandIns(more, n) = StandIns(acc, n),
         NEW I, I = ImportOf(acc, n), NEW J, J = ImportOf(more, n)
  PROVE  I \subseteq J /\ \A x \in J : x \in I \/ Present(more.files, x)
<1>1. Present(acc.files, n) => Present(more.files, n)
  BY DEF Present
<1>2. PICK U : U = UNION StandIns(acc, n)
  OBVIOUS
<1>3. U = UNION StandIns(more, n)
  BY <1>2
<1>4. /\ StandIns(acc, n) = {} => I = {n}
      /\ StandIns(acc, n) # {} /\ Present(acc.files, n) => I = U \cup {n}
      /\ StandIns(acc, n) # {} /\ ~Present(acc.files, n) => I = U
  BY <1>2, ImportCases
<1>5. /\ StandIns(acc, n) = {} => J = {n}
      /\ StandIns(acc, n) # {} /\ Present(more.files, n) => J = U \cup {n}
      /\ StandIns(acc, n) # {} /\ ~Present(more.files, n) => J = U
  BY <1>3, ImportCases
<1>6. CASE StandIns(acc, n) = {}
  BY <1>4, <1>5, <1>6
<1>7. CASE StandIns(acc, n) # {} /\ Present(more.files, n)
  <2>1. J = U \cup {n} /\ (I = U \cup {n} \/ I = U)
    BY <1>4, <1>5, <1>7
  <2>2. \A x \in J : x \in U \/ x = n
    BY <2>1
  <2> QED
    BY <1>7, <2>1, <2>2
<1>8. CASE StandIns(acc, n) # {} /\ ~Present(more.files, n)
  BY <1>1, <1>4, <1>5, <1>8
<1> QED
  BY <1>6, <1>7, <1>8

\* What was provided stays provided when a file goes in.
LEMMA ProvidesMore ==
  ASSUME NEW acc, NEW more, NEW j, Provides(acc, j), acc.files \subseteq more.files,
         StandIns(more, Canonical[j].name) = StandIns(acc, Canonical[j].name)
  PROVE  Provides(more, j)
<1>0. PICK I, J : I = ImportOf(acc, Canonical[j].name) /\ J = ImportOf(more, Canonical[j].name)
  OBVIOUS
<1>1. I \subseteq J /\ \A x \in J : x \in I \/ Present(more.files, x)
  BY <1>0, ImportsMore
<1>3. \A x : Present(acc.files, x) => Present(more.files, x)
  BY DEF Present
<1>4. \A x \in I : Present(acc.files, x)
  BY <1>0 DEF Provides
<1>5. \A type \in Canonical[j].types : \E f \in acc.files : f.name \in I /\ type \in f.types
  BY <1>0 DEF Provides
<1>6. \A x \in J : Present(more.files, x)
  BY <1>1, <1>3, <1>4
<1>7. \A type \in Canonical[j].types : \E f \in more.files : f.name \in J /\ type \in f.types
  BY <1>1, <1>5
<1> QED
  BY <1>0, <1>6, <1>7 DEF Provides

\* A stand-in of one more canonical file, which leaves those of the others alone.
StandIn(file, by) == [for |-> file.name, by |-> by]
StoodIn(acc, more, k, by) ==
  /\ StandIns(more, Canonical[k + 1].name) = {by}
  /\ \A j \in 1 .. k : StandIns(more, Canonical[j].name) = StandIns(acc, Canonical[j].name)
  /\ StandsIn(more, k + 1)

\* It does.
LEMMA StandInsApart ==
  ASSUME NEW acc, NEW more, NEW k \in Nat, k + 1 \in 1 .. Len(Canonical), StandsIn(acc, k), NEW by,
         more.standIns = acc.standIns \cup {StandIn(Canonical[k + 1], by)}
  PROVE  StoodIn(acc, more, k, by)
<1> DEFINE n == Canonical[k + 1].name
           s == StandIn(Canonical[k + 1], by)
<1>0. k + 1 \in DOMAIN Canonical /\ 1 .. k \subseteq DOMAIN Canonical /\ 1 .. k \subseteq 1 .. k + 1 /\ k + 1 \in 1 .. k + 1
  BY CanonicalAssumption
<1>1. \A j \in 1 .. k : Canonical[j].name # n
  <2> SUFFICES ASSUME NEW j \in 1 .. k PROVE Canonical[j].name # n
    OBVIOUS
  <2>1. j \in DOMAIN Canonical /\ j # k + 1
    BY <1>0
  <2> QED
    BY <1>0, <2>1, CanonicalNames
<1>2. s.for = n /\ s.by = by
  BY DEF StandIn
<1>3. more.standIns = acc.standIns \cup {s}
  OBVIOUS
<1> HIDE DEF s
<1>4. \A t \in acc.standIns : t.for # n
  BY <1>1 DEF StandsIn
<1>5. StandIns(more, n) = {by}
  BY <1>2, <1>3, <1>4 DEF StandIns
<1>6. \A j \in 1 .. k : StandIns(more, Canonical[j].name) = StandIns(acc, Canonical[j].name)
  BY <1>1, <1>2, <1>3 DEF StandIns
<1>7. StandsIn(more, k + 1)
  <2> SUFFICES ASSUME NEW t \in more.standIns PROVE \E j \in 1 .. k + 1 : t.for = Canonical[j].name
    BY DEF StandsIn
  <2>1. CASE t \in acc.standIns
    BY <1>0, <2>1 DEF StandsIn
  <2>2. CASE t = s
    BY <1>0, <1>2, <2>2
  <2> QED
    BY <1>3, <2>1, <2>2
<1> QED
  BY <1>5, <1>6, <1>7 DEF StoodIn

\* None stands in for a file before it is merged.
LEMMA NoStandIn ==
  ASSUME NEW acc, NEW k \in Nat, k + 1 \in 1 .. Len(Canonical), StandsIn(acc, k)
  PROVE  StandIns(acc, Canonical[k + 1].name) = {} /\ StandsIn(acc, k + 1)
<1>0. k + 1 \in DOMAIN Canonical /\ 1 .. k \subseteq DOMAIN Canonical /\ 1 .. k \subseteq 1 .. k + 1
  BY CanonicalAssumption
<1>1. \A j \in 1 .. k : Canonical[j].name # Canonical[k + 1].name
  <2> SUFFICES ASSUME NEW j \in 1 .. k PROVE Canonical[j].name # Canonical[k + 1].name
    OBVIOUS
  <2>1. j \in DOMAIN Canonical /\ j # k + 1
    BY <1>0
  <2> QED
    BY <1>0, <2>1, CanonicalNames
<1> QED
  BY <1>0, <1>1 DEF StandIns, StandsIn

\* What merging one canonical file does, case by case.
Defining(acc, file) == UNION {DefinedIn(acc.files, type) : type \in file.types}
Missing(acc, file) == {type \in file.types : DefinedIn(acc.files, type) = {}}
Renamed(acc, file) == Defining(acc, file) # {} \/ Present(acc.files, file.name)
CopyOf(acc, file) ==
  [name |-> IF Renamed(acc, file) THEN Copy(file.name) ELSE file.name, types |-> Missing(acc, file),
   uses |-> file.uses, imports |-> ImportsOf(acc, file) \cup Defining(acc, file)]

\* The cases.
LEMMA MergeIs ==
  ASSUME NEW acc, NEW file, acc = [files |-> acc.files, standIns |-> acc.standIns]
  PROVE  LET copy == CopyOf(acc, file)
             defining == Defining(acc, file)
             m == Merge(acc, file)
         IN  /\ Missing(acc, file) = {} /\ Present(acc.files, file.name) => m = acc
             /\ Missing(acc, file) = {} /\ ~Present(acc.files, file.name) =>
                  m = [files |-> acc.files, standIns |-> acc.standIns \cup {StandIn(file, defining)}]
             /\ Missing(acc, file) # {} /\ ~Addable(acc.files, copy) => m = acc
             /\ Missing(acc, file) # {} /\ Addable(acc.files, copy) /\ Renamed(acc, file) =>
                  m = [files |-> acc.files \cup {copy},
                       standIns |-> acc.standIns \cup {StandIn(file, defining \cup {copy.name})}]
             /\ Missing(acc, file) # {} /\ Addable(acc.files, copy) /\ ~Renamed(acc, file) =>
                  m = [files |-> acc.files \cup {copy}, standIns |-> acc.standIns]
<1> DEFINE copy == CopyOf(acc, file)
           defining == Defining(acc, file)
           m == Merge(acc, file)
           with(by) == [acc EXCEPT !.standIns = @ \cup {StandIn(file, by)}]
<1>1. m = IF Missing(acc, file) = {}
          THEN IF Present(acc.files, file.name) THEN acc ELSE with(defining)
          ELSE IF ~Addable(acc.files, copy) THEN acc
          ELSE [(IF Renamed(acc, file) THEN with(defining \cup {copy.name}) ELSE acc)
                  EXCEPT !.files = @ \cup {copy}]
  BY DEF Merge, CopyOf, Defining, Missing, Renamed, StandIn
<1>2. \A by : with(by) = [files |-> acc.files, standIns |-> acc.standIns \cup {StandIn(file, by)}]
  OBVIOUS
<1> HIDE DEF m, with, copy, defining
<1>3. CASE Missing(acc, file) = {}
  <2>1. CASE Present(acc.files, file.name)
    BY <1>1, <1>3, <2>1 DEF m, copy, defining
  <2>2. CASE ~Present(acc.files, file.name)
    <3>1. m = with(defining)
      BY <1>1, <1>3, <2>2
    <3> QED
      BY <1>2, <1>3, <2>2, <3>1 DEF m, copy, defining
  <2> QED
    BY <2>1, <2>2
<1>4. CASE Missing(acc, file) # {} /\ Addable(acc.files, copy)
  <2>1. CASE Renamed(acc, file)
    <3>1. m = [with(defining \cup {copy.name}) EXCEPT !.files = @ \cup {copy}]
      BY <1>1, <1>4, <2>1
    <3>2. m = [files |-> acc.files \cup {copy},
               standIns |-> acc.standIns \cup {StandIn(file, defining \cup {copy.name})}]
      BY <1>2, <3>1
    <3> QED
      BY <1>4, <2>1, <3>2 DEF m, copy, defining
  <2>2. CASE ~Renamed(acc, file)
    <3>1. m = [acc EXCEPT !.files = @ \cup {copy}]
      BY <1>1, <1>4, <2>2
    <3>2. m = [files |-> acc.files \cup {copy}, standIns |-> acc.standIns]
      BY <3>1
    <3> QED
      BY <1>4, <2>2, <3>2 DEF m, copy, defining
  <2> QED
    BY <2>1, <2>2
<1>5. CASE Missing(acc, file) # {} /\ ~Addable(acc.files, copy)
  BY <1>1, <1>5 DEF m, copy, defining
<1> QED
  BY <1>3, <1>4, <1>5 DEF copy, defining, m

\* The files that define the types of a canonical file, and the types none does.
LEMMA DefiningFacts ==
  ASSUME NEW acc, NEW file
  PROVE  /\ \A n \in Defining(acc, file) : Present(acc.files, n)
         /\ \A type \in file.types : type \in Missing(acc, file) \/
              \E f \in acc.files : f.name \in Defining(acc, file) /\ type \in f.types
         /\ \A type \in Missing(acc, file) : type \in file.types /\ \A f \in acc.files : type \notin f.types
         /\ Defining(acc, file) = {} => Missing(acc, file) = file.types
<1>1. ASSUME NEW n \in Defining(acc, file) PROVE Present(acc.files, n)
  BY <1>1 DEF Defining, DefinedIn, Present
<1>2. ASSUME NEW type \in file.types, type \notin Missing(acc, file)
      PROVE  \E f \in acc.files : f.name \in Defining(acc, file) /\ type \in f.types
  <2>1. DefinedIn(acc.files, type) # {}
    BY <1>2 DEF Missing
  <2>2. PICK f \in acc.files : type \in f.types /\ f.name \in DefinedIn(acc.files, type)
    BY <2>1 DEF DefinedIn
  <2>3. f.name \in Defining(acc, file)
    BY <1>2, <2>2 DEF Defining
  <2> QED
    BY <2>2, <2>3
<1>3. ASSUME NEW type \in Missing(acc, file)
      PROVE  type \in file.types /\ \A f \in acc.files : type \notin f.types
  BY <1>3 DEF Missing, DefinedIn
<1>4. ASSUME Defining(acc, file) = {} PROVE Missing(acc, file) = file.types
  BY <1>2, <1>3, <1>4
<1> QED
  BY <1>1, <1>2, <1>3, <1>4

\* A file that is there under its canonical name with none of its types missing
\* is one its importers can take for it, unless it is hollow.
LEMMA PresentProvides ==
  ASSUME NEW files \in Products, NEW acc, NEW k \in Nat, k + 1 \in 1 .. Len(Canonical), Merged(files, acc, k),
         Missing(acc, Canonical[k + 1]) = {}, Present(acc.files, Canonical[k + 1].name),
         ~Hollow(files, Canonical[k + 1])
  PROVE  Provides(acc, k + 1)
<1> DEFINE file == Canonical[k + 1]
<1>0. k + 1 \in DOMAIN Canonical
  BY CanonicalAssumption
<1>1. StandIns(acc, file.name) = {}
  BY NoStandIn DEF Merged
<1>2. ImportOf(acc, file.name) = {file.name}
  BY <1>1 DEF ImportOf
<1>3. PICK f \in acc.files : f.name = file.name
  BY DEF Present
<1>4. f \in files
  BY <1>3, NextIsOwn DEF Merged
<1>5. ASSUME NEW type \in file.types PROVE DefinedIn(files, type) # {}
  <2>1. PICK g \in acc.files : type \in g.types
    BY <1>5, DefiningFacts
  <2>2. g.types \cap Canonical[k + 1].types # {}
    BY <1>5, <2>1
  <2>3. g \in files
    BY <2>1, <2>2, NextIsOwn DEF Merged
  <2> QED
    BY <2>1, <2>3 DEF DefinedIn
<1>6. ASSUME NEW type \in file.types PROVE type \in f.types
  <2>1. Present(files, file.name)
    BY <1>3, <1>4 DEF Present
  <2>2. file.name \in DefinedIn(files, type)
    BY <1>5, <1>6, <2>1 DEF Hollow
  <2>3. PICK g \in files : type \in g.types /\ g.name = file.name
    BY <2>2 DEF DefinedIn
  <2>4. g = f
    BY <1>3, <1>4, <2>3, ProductsAssumption
  <2> QED
    BY <2>3, <2>4
<1>7. f.name \in ImportOf(acc, file.name) /\ \A n \in ImportOf(acc, file.name) : Present(acc.files, n)
  BY <1>2, <1>3
<1> QED
  BY <1>6, <1>7 DEF Provides

\* The copy can go in, unless there is a cause for it to be lost.
LEMMA CopyAddable ==
  ASSUME NEW files \in Products, NEW acc, NEW k \in Nat, k + 1 \in 1 .. Len(Canonical), Merged(files, acc, k),
         ~Cause(files, acc, k, k + 1)
  PROVE  Addable(acc.files, CopyOf(acc, Canonical[k + 1]))
<1> DEFINE file == Canonical[k + 1]
           copy == CopyOf(acc, file)
           defining == Defining(acc, file)
<1>0. k + 1 \in DOMAIN Canonical /\ k + 1 \in Nat /\ (k + 1) - 1 = k
  BY CanonicalAssumption
<1>1. /\ copy.name = IF Renamed(acc, file) THEN Copy(file.name) ELSE file.name
      /\ copy.types = Missing(acc, file) /\ copy.uses = file.uses
      /\ copy.imports = ImportsOf(acc, file) \cup defining
  BY DEF CopyOf
<1>2. ~Present(acc.files, copy.name)
  <2>1. CASE Renamed(acc, file)
    <3>1. copy.name = Copy(Canonical[k + 1].name)
      BY <1>1, <2>1
    <3>2. ~Present(files, Copy(Canonical[k + 1].name))
      BY DEF Cause
    <3> HIDE DEF copy
    <3> QED
      BY <3>1, <3>2, CopyFree DEF Merged
  <2>2. CASE ~Renamed(acc, file)
    <3>1. copy.name = file.name /\ ~Present(acc.files, file.name)
      BY <1>1, <2>2 DEF Renamed
    <3> HIDE DEF copy, file
    <3> QED
      BY <3>1
  <2> QED
    BY <2>1, <2>2
<1>3. ASSUME NEW j \in 1 .. k, Canonical[j].name \in file.imports
      PROVE  /\ Provides(acc, j) /\ ImportOf(acc, Canonical[j].name) \subseteq copy.imports
  <2>1. ~Unusable(files, acc, j)
    BY <1>3 DEF Cause
  <2>2. Provides(acc, j)
    BY <2>1 DEF Merged
  <2>3. ImportOf(acc, Canonical[j].name) \subseteq ImportsOf(acc, file)
    BY <1>3 DEF ImportsOf
  <2> HIDE DEF copy, defining
  <2> QED
    BY <1>1, <2>2, <2>3
<1>4. ASSUME NEW name \in copy.imports PROVE Present(acc.files, name)
  <2>1. CASE name \in defining
    BY <2>1, DefiningFacts
  <2>2. CASE name \in ImportsOf(acc, file)
    <3>1. PICK n \in file.imports : name \in ImportOf(acc, n)
      BY <2>2 DEF ImportsOf
    <3>2. PICK j \in 1 .. k : Canonical[j].name = n
      BY <1>0, <3>1, CanonicalAssumption
    <3> QED
      BY <1>3, <3>1, <3>2 DEF Provides
  <2> HIDE DEF copy, defining
  <2> QED
    BY <1>1, <1>4, <2>1, <2>2
<1>5. ASSUME NEW type \in copy.uses \ copy.types
      PROVE  \E f \in acc.files : f.name \in copy.imports /\ type \in f.types
  <2>0. type \in file.uses /\ type \notin Missing(acc, file)
    BY <1>1, <1>5
  <2>1. CASE type \in file.types
    <3>1. PICK f \in acc.files : f.name \in defining /\ type \in f.types
      BY <2>0, <2>1, DefiningFacts
    <3> HIDE DEF copy, defining
    <3> QED
      BY <1>1, <3>1
  <2>2. CASE type \notin file.types
    <3>1. PICK j \in 1 .. k : Canonical[j].name \in file.imports /\ type \in Canonical[j].types
      BY <1>0, <2>0, <2>2, CanonicalAssumption
    <3> HIDE DEF copy, file
    <3> QED
      BY <1>3, <3>1 DEF Provides
  <2> QED
    BY <2>1, <2>2
<1> HIDE DEF copy
<1> QED
  BY <1>2, <1>4, <1>5 DEF Addable, copy

\* Types that are missing are lost.
LEMMA MissingLost ==
  ASSUME NEW acc, NEW file
  PROVE  Lost(acc.files, file) <=> Missing(acc, file) # {}
BY DEF Lost, Missing

\* A canonical file that goes in neither loses a type of those before nor brings
\* one back.
LEMMA LostStays ==
  ASSUME NEW acc, NEW more, NEW k \in Nat, k + 1 \in 1 .. Len(Canonical), NEW j \in 1 .. k,
         acc.files \subseteq more.files,
         \A f \in more.files : f \in acc.files \/ f.types \subseteq Canonical[k + 1].types
  PROVE  Lost(more.files, Canonical[j]) <=> Lost(acc.files, Canonical[j])
<1>0. k + 1 \in DOMAIN Canonical /\ j \in DOMAIN Canonical /\ j # k + 1
  BY CanonicalAssumption
<1>1. Canonical[k + 1].types \cap Canonical[j].types = {}
  BY <1>0, CanonicalNames
<1>2. ASSUME NEW type \in Canonical[j].types
      PROVE  DefinedIn(more.files, type) = {} <=> DefinedIn(acc.files, type) = {}
  <2>1. \A f \in more.files : type \in f.types => f \in acc.files
    BY <1>1, <1>2
  <2>2. DefinedIn(more.files, type) = DefinedIn(acc.files, type)
    BY <2>1 DEF DefinedIn
  <2> QED
    BY <2>2
<1> QED
  BY <1>2 DEF Lost

\* Merging the next canonical file keeps what is known of the pool.
LEMMA MergeKeeps ==
  ASSUME NEW files \in Products, NEW acc, NEW k \in Nat, k + 1 \in 1 .. Len(Canonical), Merged(files, acc, k)
  PROVE  Merged(files, Merge(acc, Canonical[k + 1]), k + 1)
<1> DEFINE file == Canonical[k + 1]
           copy == CopyOf(acc, file)
           defining == Defining(acc, file)
           more == Merge(acc, file)
<1>0. /\ k + 1 \in DOMAIN Canonical /\ 1 .. k \subseteq 1 .. k + 1 /\ k + 1 \in 1 .. k + 1
      /\ \A j \in 1 .. k + 1 : j \in 1 .. k \/ j = k + 1
  BY CanonicalAssumption
<1>1. /\ acc = [files |-> acc.files, standIns |-> acc.standIns] /\ files \subseteq acc.files
      /\ OwnFiles(files, acc, k) /\ TypesApart(acc.files) /\ StandsIn(acc, k)
      /\ \A j \in 1 .. k : Unusable(files, acc, j) \/ Provides(acc, j)
      /\ \A j \in 1 .. k : Lost(acc.files, Canonical[j]) => Cause(files, acc, k, j)
  BY DEF Merged
<1>2. /\ copy.name = IF Renamed(acc, file) THEN Copy(file.name) ELSE file.name
      /\ copy.types = Missing(acc, file)
  BY DEF CopyOf
<1>3. Addable(acc.files, copy) \/ Cause(files, acc, k, k + 1)
  BY CopyAddable
<1>4. /\ \A n \in defining : Present(acc.files, n)
      /\ \A type \in file.types : type \in Missing(acc, file) \/
           \E f \in acc.files : f.name \in defining /\ type \in f.types
      /\ \A type \in Missing(acc, file) : type \in file.types /\ \A f \in acc.files : type \notin f.types
      /\ defining = {} => Missing(acc, file) = file.types
  BY DefiningFacts
<1>5. /\ Missing(acc, file) = {} /\ Present(acc.files, file.name) => more = acc
      /\ Missing(acc, file) = {} /\ ~Present(acc.files, file.name) =>
           more = [files |-> acc.files, standIns |-> acc.standIns \cup {StandIn(file, defining)}]
      /\ Missing(acc, file) # {} /\ ~Addable(acc.files, copy) => more = acc
      /\ Missing(acc, file) # {} /\ Addable(acc.files, copy) /\ Renamed(acc, file) =>
           more = [files |-> acc.files \cup {copy},
                   standIns |-> acc.standIns \cup {StandIn(file, defining \cup {copy.name})}]
      /\ Missing(acc, file) # {} /\ Addable(acc.files, copy) /\ ~Renamed(acc, file) =>
           more = [files |-> acc.files \cup {copy}, standIns |-> acc.standIns]
  BY <1>1, MergeIs
<1> HIDE DEF copy, defining, more
<1>6. ASSUME more.files = acc.files
      PROVE  OwnFiles(files, more, k + 1) /\ TypesApart(more.files)
  BY <1>0, <1>1, <1>6 DEF OwnFiles
<1>7. ASSUME more.files = acc.files \cup {copy}
      PROVE  OwnFiles(files, more, k + 1) /\ TypesApart(more.files) /\ ~Lost(more.files, file)
  <2>0. copy.types \subseteq file.types /\ copy.name \in {file.name, Copy(file.name)}
    BY <1>2, <1>4
  <2>1. OwnFiles(files, more, k + 1)
    <3> SUFFICES ASSUME NEW f \in more.files, f \notin files
                 PROVE  \E j \in 1 .. k + 1 : /\ f.types \subseteq Canonical[j].types
                                              /\ f.name \in {Canonical[j].name, Copy(Canonical[j].name)}
      BY DEF OwnFiles
    <3>1. CASE f \in acc.files
      BY <1>0, <1>1, <3>1 DEF OwnFiles
    <3>2. CASE f = copy
      BY <1>0, <2>0, <3>2
    <3> QED
      BY <1>7, <3>1, <3>2
  <2>2. TypesApart(more.files)
    <3> SUFFICES ASSUME NEW f \in more.files, NEW g \in more.files, f.types \cap g.types # {}
                 PROVE  f.name = g.name
      BY DEF TypesApart
    <3>1. PICK type : type \in f.types /\ type \in g.types
      OBVIOUS
    <3>2. \A h \in acc.files : \A t \in copy.types : t \notin h.types
      BY <1>2, <1>4
    <3>3. CASE f \in acc.files /\ g \in acc.files
      BY <1>1, <3>1, <3>3 DEF TypesApart
    <3>4. CASE f = copy \/ g = copy
      BY <1>7, <3>1, <3>2, <3>4
    <3> QED
      BY <1>7, <3>3, <3>4
  <2>3. ~Lost(more.files, file)
    <3>1. \A type \in file.types : \E f \in more.files : type \in f.types
      BY <1>2, <1>4, <1>7
    <3> QED
      BY <3>1 DEF Lost, DefinedIn
  <2> QED
    BY <2>1, <2>2, <2>3
<1>8. ASSUME acc.files \subseteq more.files, more = [files |-> more.files, standIns |-> more.standIns],
             \A f \in more.files : f \in acc.files \/ f.types \subseteq file.types,
             OwnFiles(files, more, k + 1) /\ TypesApart(more.files), StandsIn(more, k + 1),
             Unusable(files, more, k + 1) \/ Provides(more, k + 1),
             Lost(more.files, file) => Cause(files, acc, k, k + 1),
             \A j \in 1 .. k : StandIns(more, Canonical[j].name) = StandIns(acc, Canonical[j].name)
      PROVE  Merged(files, more, k + 1)
  <2>1. \A j \in 1 .. k : Lost(more.files, Canonical[j]) <=> Lost(acc.files, Canonical[j])
    BY <1>8, LostStays
  <2>2. ASSUME NEW j \in 1 .. k, ~Unusable(files, more, j) PROVE Provides(more, j)
    <3>1. ~Unusable(files, acc, j)
      BY <2>1, <2>2 DEF Unusable
    <3> QED
      BY <1>1, <1>8, <3>1, ProvidesMore
  <2>3. \A j \in 1 .. k + 1 : Unusable(files, more, j) \/ Provides(more, j)
    BY <1>0, <1>8, <2>2
  <2>4. ASSUME NEW i \in 1 .. k + 1, Cause(files, acc, k, i) PROVE Cause(files, more, k + 1, i)
    BY <1>0, <2>1, <2>4 DEF Cause, Unusable
  <2>5. ASSUME NEW i \in 1 .. k + 1, Lost(more.files, Canonical[i]) PROVE Cause(files, more, k + 1, i)
    <3>1. CASE i = k + 1
      BY <1>8, <2>4, <2>5, <3>1
    <3>2. CASE i \in 1 .. k
      BY <1>1, <2>1, <2>4, <2>5, <3>2
    <3> QED
      BY <1>0, <3>1, <3>2
  <2> QED
    BY <1>1, <1>8, <2>3, <2>5 DEF Merged
<1>9. CASE Missing(acc, file) = {} /\ Present(acc.files, file.name)
  <2>1. more = acc
    BY <1>5, <1>9
  <2>2. StandsIn(acc, k + 1)
    BY <1>1, NoStandIn
  <2>3. Unusable(files, acc, k + 1) \/ Provides(acc, k + 1)
    BY <1>9, PresentProvides DEF Unusable
  <2>4. OwnFiles(files, more, k + 1) /\ TypesApart(more.files)
    BY <1>6, <2>1
  <2>5. ~Lost(more.files, file)
    BY <1>9, <2>1, MissingLost
  <2> QED
    BY <1>1, <1>8, <2>1, <2>2, <2>3, <2>4, <2>5 DEF more
<1>10. CASE Missing(acc, file) = {} /\ ~Present(acc.files, file.name)
  <2>1. more.files = acc.files /\ more.standIns = acc.standIns \cup {StandIn(file, defining)}
        /\ more = [files |-> more.files, standIns |-> more.standIns]
    BY <1>5, <1>10
  <2>2. /\ StandIns(more, file.name) = {defining} /\ StandsIn(more, k + 1)
        /\ \A j \in 1 .. k : StandIns(more, Canonical[j].name) = StandIns(acc, Canonical[j].name)
    <3>1. StoodIn(acc, more, k, defining)
      BY <1>1, <2>1, StandInsApart
    <3> QED
      BY <3>1 DEF StoodIn
  <2>3. ImportOf(more, file.name) = defining
    <3>1. UNION StandIns(more, file.name) = defining /\ StandIns(more, file.name) # {}
      BY <2>2
    <3>2. ~Present(more.files, file.name)
      BY <1>10, <2>1
    <3> QED
      BY <3>1, <3>2 DEF ImportOf
  <2>4. Provides(more, k + 1)
    BY <1>4, <1>10, <2>1, <2>3 DEF Provides
  <2>5. ~Lost(more.files, file)
    BY <1>10, <2>1, MissingLost
  <2> QED
    BY <1>6, <1>8, <2>1, <2>2, <2>4, <2>5 DEF more
<1>11. CASE Missing(acc, file) # {} /\ Addable(acc.files, copy) /\ Renamed(acc, file)
  <2> DEFINE by == defining \cup {copy.name}
  <2>1. more.files = acc.files \cup {copy} /\ more.standIns = acc.standIns \cup {StandIn(file, by)}
        /\ more = [files |-> more.files, standIns |-> more.standIns]
    <3>1. more = [files |-> acc.files \cup {copy}, standIns |-> acc.standIns \cup {StandIn(file, by)}]
      BY <1>5, <1>11
    <3> HIDE DEF by
    <3> QED
      BY <3>1
  <2>2. /\ StandIns(more, file.name) = {by} /\ StandsIn(more, k + 1)
        /\ \A j \in 1 .. k : StandIns(more, Canonical[j].name) = StandIns(acc, Canonical[j].name)
    <3> HIDE DEF by
    <3>1. StoodIn(acc, more, k, by)
      BY <1>1, <2>1, StandInsApart
    <3> QED
      BY <3>1 DEF StoodIn
  <2>3. by \subseteq ImportOf(more, file.name)
        /\ \A n \in ImportOf(more, file.name) : n \in by \/ Present(more.files, n)
    <3> HIDE DEF by
    <3>1. by = UNION StandIns(more, file.name) /\ StandIns(more, file.name) # {}
      BY <2>2
    <3>2. PICK I : I = ImportOf(more, file.name)
      OBVIOUS
    <3>3. /\ Present(more.files, file.name) => I = by \cup {file.name}
          /\ ~Present(more.files, file.name) => I = by
      BY <3>1, <3>2, ImportCases
    <3>4. CASE Present(more.files, file.name)
      <4>1. \A n \in I : n \in by \/ n = file.name
        BY <3>3, <3>4
      <4> QED
        BY <3>2, <3>3, <3>4, <4>1
    <3>5. CASE ~Present(more.files, file.name)
      BY <3>2, <3>3, <3>5
    <3> QED
      BY <3>4, <3>5
  <2>4. \A n \in by : Present(more.files, n)
    BY <1>4, <2>1 DEF Present
  <2>5. \A type \in file.types : \E f \in more.files : f.name \in by /\ type \in f.types
    BY <1>2, <1>4, <2>1
  <2>6. Provides(more, k + 1)
    <3> HIDE DEF by
    <3> QED
      BY <2>3, <2>4, <2>5 DEF Provides
  <2>7. copy.types \subseteq file.types
    BY <1>2, <1>4
  <2> QED
    BY <1>7, <1>8, <2>1, <2>2, <2>6, <2>7 DEF more
<1>12. CASE Missing(acc, file) # {} /\ Addable(acc.files, copy) /\ ~Renamed(acc, file)
  <2>1. more.files = acc.files \cup {copy} /\ more.standIns = acc.standIns
        /\ more = [files |-> more.files, standIns |-> more.standIns]
    BY <1>5, <1>12
  <2>2. StandIns(acc, file.name) = {} /\ StandsIn(acc, k + 1)
    BY <1>1, NoStandIn
  <2>3. /\ StandIns(more, file.name) = {} /\ StandsIn(more, k + 1)
        /\ \A j \in 1 .. k : StandIns(more, Canonical[j].name) = StandIns(acc, Canonical[j].name)
    BY <2>1, <2>2 DEF StandIns, StandsIn
  <2>4. ImportOf(more, file.name) = {file.name}
    BY <2>3 DEF ImportOf
  <2>5. copy.name = file.name /\ copy.types = file.types
    BY <1>2, <1>4, <1>12 DEF Renamed, defining
  <2>6. Provides(more, k + 1)
    BY <2>1, <2>4, <2>5 DEF Provides, Present
  <2> QED
    BY <1>7, <1>8, <2>1, <2>3, <2>5, <2>6 DEF more
<1>13. CASE Missing(acc, file) # {} /\ ~Addable(acc.files, copy)
  <2>1. more = acc
    BY <1>5, <1>13
  <2>2. StandsIn(acc, k + 1)
    BY <1>1, NoStandIn
  <2>3. Unusable(files, acc, k + 1)
    BY <1>13, MissingLost DEF Unusable
  <2>4. OwnFiles(files, more, k + 1) /\ TypesApart(more.files)
    BY <1>6, <2>1
  <2> QED
    BY <1>1, <1>3, <1>8, <1>13, <2>1, <2>2, <2>3, <2>4 DEF more
<1> QED
  BY <1>9, <1>10, <1>11, <1>12, <1>13

\* The files are merged one after the other.
Completion(acc, files) ==
  acc = [n \in 0 .. Len(Canonical) |->
           IF n = 0 THEN [files |-> files, standIns |-> {}] ELSE Merge(acc[n - 1], Canonical[n])]

\* There is such a function, since each file only looks at what was merged before.
LEMMA CompletionExists ==
  ASSUME NEW files
  PROVE  \E acc : Completion(acc, files)
<1> DEFINE At(n, x) == IF n = 0 THEN [files |-> files, standIns |-> {}] ELSE Merge(x, Canonical[n])
           Part(f, k) == f = [n \in 0 .. k |-> At(n, f[n - 1])]
           T == {k \in Nat : \E f : Part(f, k)}
<1>0. \A x, y : At(0, x) = At(0, y)
  OBVIOUS
<1>00. Len(Canonical) \in Nat
  BY CanonicalAssumption
<1> HIDE DEF At
<1>1. 0 \in T
  <2> DEFINE f == [n \in 0 .. 0 |-> At(0, 0)]
  <2>1. \A n \in 0 .. 0 : f[n] = At(n, f[n - 1])
    BY <1>0
  <2>2. f = [n \in 0 .. 0 |-> f[n]]
    OBVIOUS
  <2> HIDE DEF f
  <2>3. Part(f, 0)
    BY <2>1, <2>2
  <2> QED
    BY <2>3
<1>2. ASSUME NEW k \in Nat, k \in T PROVE k + 1 \in T
  <2>1. PICK f : Part(f, k)
    BY <1>2
  <2> DEFINE g == [n \in 0 .. k + 1 |-> At(n, f[n - 1])]
  <2>2. \A n \in 0 .. k : g[n] = f[n]
    BY <2>1
  <2>3. ASSUME NEW n \in 0 .. k + 1 PROVE g[n] = At(n, g[n - 1])
    <3>1. CASE n = 0
      BY <1>0, <3>1
    <3>2. CASE n # 0
      <4>1. n - 1 \in 0 .. k
        BY <3>2
      <4> QED
        BY <2>2, <4>1
    <3> QED
      BY <3>1, <3>2
  <2>4. g = [n \in 0 .. k + 1 |-> g[n]]
    OBVIOUS
  <2> HIDE DEF g
  <2>5. [n \in 0 .. k + 1 |-> g[n]] = [n \in 0 .. k + 1 |-> At(n, g[n - 1])]
    BY <2>3
  <2>6. Part(g, k + 1)
    BY <2>4, <2>5
  <2> HIDE DEF Part
  <2>7. \E f2 : Part(f2, k + 1)
    BY <2>6
  <2> QED
    BY <2>7
<1> HIDE DEF T
<1>3. Len(Canonical) \in T
  BY <1>00, <1>1, <1>2, Induction
<1>4. PICK f : Part(f, Len(Canonical))
  BY <1>3 DEF T
<1> QED
  BY <1>4 DEF At, Completion

\* The pool before the first of them and after each.
LEMMA CompletingDef ==
  ASSUME NEW files
  PROVE  /\ Completing(files)[0] = [files |-> files, standIns |-> {}]
         /\ \A t \in 0 .. Len(Canonical) - 1 :
              Completing(files)[t + 1] = Merge(Completing(files)[t], Canonical[t + 1])
<1> DEFINE g == CHOOSE acc : Completion(acc, files)
<1>0. \E acc : Completion(acc, files)
  BY CompletionExists
<1>00. Len(Canonical) \in Nat
  BY CanonicalAssumption
<1>1. Completion(g, files)
  BY <1>0, Zenon
<1>2. Completing(files) = g
  BY DEF Completing, Completion
<1> HIDE DEF g
<1>3. g[0] = [files |-> files, standIns |-> {}]
  BY <1>00, <1>1 DEF Completion
<1>4. ASSUME NEW t \in 0 .. Len(Canonical) - 1
      PROVE  g[t + 1] = Merge(g[t], Canonical[t + 1])
  <2> DEFINE n == t + 1
  <2>1. n \in 0 .. Len(Canonical) /\ n # 0 /\ n - 1 = t
    BY <1>00
  <2> HIDE DEF n
  <2>2. g[n] = Merge(g[n - 1], Canonical[n])
    BY <1>1, <2>1 DEF Completion
  <2> QED
    BY <2>1, <2>2 DEF n
<1> QED
  BY <1>2, <1>3, <1>4

\* So all of it is known once the last is merged.
LEMMA CompletedMerged ==
  ASSUME NEW files \in Products
  PROVE  Merged(files, Completing(files)[Len(Canonical)], Len(Canonical))
<1> DEFINE acc == Completing(files)
           T == {t \in Nat : t <= Len(Canonical) => Merged(files, acc[t], t)}
<1>0. Len(Canonical) \in Nat
  BY CanonicalAssumption
<1>1. /\ acc[0] = [files |-> files, standIns |-> {}]
      /\ \A t \in 0 .. Len(Canonical) - 1 : acc[t + 1] = Merge(acc[t], Canonical[t + 1])
  BY CompletingDef
<1> HIDE DEF acc
<1>2. 0 \in T
  <2>1. acc[0].files = files /\ acc[0].standIns = {} /\ 1 .. 0 = {}
    BY <1>1
  <2>2. TypesApart(files)
    BY ProductsAssumption DEF TypesApart
  <2>3. Merged(files, acc[0], 0)
    BY <1>1, <2>1, <2>2 DEF Merged, OwnFiles, StandsIn
  <2> QED
    BY <2>3
<1>3. ASSUME NEW t \in Nat, t \in T PROVE t + 1 \in T
  <2> SUFFICES ASSUME t + 1 <= Len(Canonical) PROVE Merged(files, acc[t + 1], t + 1)
    OBVIOUS
  <2>1. t \in 0 .. Len(Canonical) - 1 /\ t + 1 \in 1 .. Len(Canonical) /\ t <= Len(Canonical)
    BY <1>0
  <2>2. Merged(files, acc[t], t)
    BY <1>3, <2>1
  <2>3. Merged(files, Merge(acc[t], Canonical[t + 1]), t + 1)
    BY <2>1, <2>2, MergeKeeps
  <2> QED
    BY <1>1, <2>1, <2>3
<1> HIDE DEF T
<1>4. Len(Canonical) \in T
  BY <1>0, <1>2, <1>3, Induction
<1> QED
  BY <1>0, <1>4 DEF T, acc

\* Whatever a product defines and wherever, complete_with_canonical defines no type
\* twice and leaves a canonical one out only where the product has the name of the
\* copy, or behind an import that a hollow file of the product, or one that was left
\* out itself, answers.
THEOREM CanonicalCompleted == TypesSpec => []LostForCause
<1> DEFINE PoolInv == (~completed => pool \in Products /\ product = pool) /\ LostForCause
<1>1. TypesInit => PoolInv
  BY DEF TypesInit, LostForCause
<1>2. PoolInv /\ [Complete]_poolVars => PoolInv'
  <2> SUFFICES ASSUME PoolInv, [Complete]_poolVars PROVE PoolInv'
    OBVIOUS
  <2>1. CASE UNCHANGED poolVars
    <3>1. pool' = pool /\ completed' = completed /\ product' = product
      BY <2>1 DEF poolVars
    <3>2. LostForCause' = LostForCause
      BY <3>1 DEF LostForCause
    <3> QED
      BY <3>1, <3>2
  <2>2. CASE Complete
    <3> DEFINE acc == Completing(pool)[Len(Canonical)]
               n == Len(Canonical)
    <3>1. pool \in Products /\ product = pool /\ completed' = TRUE /\ pool' = acc.files /\ product' = product
      BY <2>2 DEF Complete, CompleteWithCanonical
    <3>2. Merged(product, acc, n)
      BY <3>1, CompletedMerged
    <3>3. DOMAIN Canonical = 1 .. n
      BY CanonicalAssumption
    <3> HIDE DEF acc, n
    <3>4. TypesApart(pool')
      BY <3>1, <3>2 DEF Merged
    <3>5. ASSUME NEW i \in DOMAIN Canonical, Lost(pool', Canonical[i])
          PROVE  \/ Present(product', Copy(Canonical[i].name))
                 \/ \E j \in DOMAIN Canonical :
                      /\ Canonical[j].name \in Canonical[i].imports
                      /\ Hollow(product', Canonical[j]) \/ Lost(pool', Canonical[j])
      <4>1. Cause(product, acc, n, i)
        BY <3>1, <3>2, <3>3, <3>5 DEF Merged
      <4> QED
        BY <3>1, <3>3, <4>1 DEF Cause, Unusable
    <3>6. LostForCause'
      BY <3>4, <3>5 DEF LostForCause, TypesApart
    <3> QED
      BY <3>1, <3>6
  <2> QED
    BY <2>1, <2>2
<1>3. PoolInv => LostForCause
  OBVIOUS
<1> HIDE DEF PoolInv
<1> QED
  BY <1>1, <1>2, <1>3, PTL DEF TypesSpec
=============================================================================
