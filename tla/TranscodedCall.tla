--------------------------- MODULE TranscodedCall ---------------------------
(***************************************************************************)
(* One request on a transcoded route, from its body to the end of its      *)
(* response (transcode/mod.rs: serve, begin, start, Call::open,            *)
(* call_unary, streaming_call, http_body_stream; response.rs, httpbody.rs; *)
(* the status mapping of error.rs).  The upstream answers, streams, fails  *)
(* or stalls as it likes, and the client may leave at any time.            *)
(***************************************************************************)
EXTENDS Naturals, Sequences

CONSTANTS
  Entries,     \* routes: [streaming, shape, envelope, details]
  Metadata,    \* metadata the upstream sends: sequences of <<key, value>>
  Denied,      \* denied_response_headers
  Statuses,    \* how the upstream ends a call: [code, malformed], Ok one of them
  MaxMessages  \* bound: messages the upstream sends

VARIABLES
  entry, head, sse,    \* the route; whether the method is HEAD; whether SSE was negotiated
  phase,               \* where the proxy is with the call
  up,                  \* the upstream call: "idle", "called", "streaming", "ended", "cancelled"
  count, sent, pipe,   \* how many messages the upstream sent, those of them the route
                       \* carries, and those not read yet
  outcome,             \* how the upstream ended, a status
  initial, trailers,   \* its metadata
  first,               \* the message of a unary call, read ahead of its trailers
  wire                 \* the response: [status, type, headers, frames, end]

vars == <<entry, head, sse, phase, up, count, sent, pipe, outcome, initial, trailers, first, wire>>
asked == <<entry, head, sse>>
upstream == <<count, sent, outcome, initial, trailers>>


-----------------------------------------------------------------------------
\* Statuses.  grpc_to_http_status:
HttpStatus ==
  [ok |-> 200, cancelled |-> 499, unknown |-> 500, invalid_argument |-> 400,
   deadline_exceeded |-> 504, not_found |-> 404, already_exists |-> 409, permission_denied |-> 403,
   resource_exhausted |-> 429, failed_precondition |-> 400, aborted |-> 409, out_of_range |-> 400,
   unimplemented |-> 501, internal |-> 500, unavailable |-> 503, data_loss |-> 500,
   unauthenticated |-> 401]

\* A status, and whether its details can be read.
Status(code) == [code |-> code, malformed |-> FALSE]
Running == Status("none")
Ok == Status("ok")

Pairs == UNION {{metadata[i] : i \in DOMAIN metadata} : metadata \in Metadata}

\* What the routes, the metadata, and the statuses of tonic are.
ASSUME CallAssumption ==
  /\ MaxMessages \in Nat /\ Metadata \subseteq Seq(Pairs)
  /\ Entries \subseteq [streaming : BOOLEAN, shape : {"json", "http_body"}, envelope : BOOLEAN,
                        details : BOOLEAN]
  /\ Statuses \subseteq [code : DOMAIN HttpStatus, malformed : BOOLEAN]
  /\ \A status \in Statuses : status.code = "ok" => status = Ok

\* render: a status whose details are malformed is a generic INTERNAL on a route
\* that renders details, and then nothing of the upstream's answer is passed on.
Faithful(status) == ~(entry.details /\ status.malformed)
Rendered(status) == IF Faithful(status) THEN status.code ELSE "internal"

\* Response metadata as headers: UpstreamHeaders.
Withheld == {"grpc-x", "x-bin", "content-type", "connection", "x-http-code"}
Absorbing(metadata) ==
  LET kept[n \in 0 .. Len(metadata)] ==
        IF n = 0 THEN <<>>
        ELSE IF metadata[n][1] \in Withheld \cup Denied THEN kept[n - 1]
        ELSE Append(kept[n - 1], metadata[n])
  IN kept
Absorb(metadata) == Absorbing(metadata)[Len(metadata)]
HttpCodes(metadata) == SelectSeq(metadata, LAMBDA kv : kv[1] = "x-http-code")

\* record_http_code: one value, an integer in 200-599.
CodeOf(metadata) ==
  LET codes == HttpCodes(metadata)
  IN IF codes = <<>> THEN 200
     ELSE IF Len(codes) > 1 \/ codes[1][2] \notin 200 .. 599 THEN 0
     ELSE codes[1][2]

-----------------------------------------------------------------------------
\* The response.

NoResponse == [status |-> 0, type |-> "none", headers |-> <<>>, frames |-> <<>>, end |-> "open"]
Frame(kind, of) == [kind |-> kind, of |-> of]
Chunk(m) == IF m = "empty" THEN <<>> ELSE <<Frame("data", m)>>

\* response::build: 204, 205 and 304 have no content.
Full(status, headers, type, frames) ==
  IF status \in {204, 205, 304}
  THEN [NoResponse EXCEPT !.status = status, !.headers = headers, !.end = "clean"]
  ELSE [status |-> status, type |-> type, headers |-> headers, frames |-> frames, end |-> "clean"]

ErrorAnswer(status, metadata) ==
  Full(HttpStatus[Rendered(status)], IF Faithful(status) THEN Absorb(metadata) ELSE <<>>, "json",
       <<Frame("error", Rendered(status))>>)
Malformed == Full(500, <<>>, "json", <<Frame("error", "internal")>>)
Streamed(headers, type, frames) ==
  [status |-> 200, type |-> type, headers |-> headers, frames |-> frames, end |-> "open"]

\* The answer is complete: a HEAD gets none of it (serve), and what is left of
\* the upstream call goes with it.
Answer(response) ==
  /\ wire' = [response EXCEPT !.frames = IF head THEN <<>> ELSE @]
  /\ phase' = "done" /\ pipe' = <<>>
  /\ up' = IF up \in {"called", "streaming"} THEN "cancelled" ELSE up

\* A response with its body still to come; the body of a HEAD is dropped at once.
Begin(response, rest) ==
  IF head THEN Answer([response EXCEPT !.end = "clean"])
  ELSE wire' = response /\ phase' = "body" /\ pipe' = rest /\ up' = IF up = "called" THEN "streaming" ELSE up

-----------------------------------------------------------------------------
Init ==
  /\ entry \in Entries /\ head \in BOOLEAN /\ sse \in BOOLEAN
  /\ sse => entry.streaming
  /\ phase = "reading" /\ up = "idle" /\ count = 0 /\ sent = <<>> /\ pipe = <<>>
  /\ outcome = Running /\ initial = <<>> /\ trailers = <<>> /\ first = "none"
  /\ wire = NoResponse

\* begin: the body cannot be read, or the request cannot be mapped (its headers,
\* its message, its target): answered before the upstream is called.
Refuse ==
  /\ phase = "reading"
  /\ \/ Answer(Full(413, <<>>, "text", <<Frame("error", "body")>>))
     \/ Answer(ErrorAnswer(Status("invalid_argument"), <<>>))
  /\ UNCHANGED <<asked, upstream, first>>

Prepare ==
  /\ phase = "reading" /\ phase' = "opening"
  /\ UNCHANGED <<asked, upstream, first, up, pipe, wire>>

\* Call::open: the upstream takes the call or fails to, and answers it with its
\* headers or with a status alone, all within the deadline.
Ready ==
  /\ phase = "opening" /\ up = "idle" /\ up' = "called"
  /\ UNCHANGED <<asked, upstream, first, phase, pipe, wire>>

NotReady ==
  /\ phase = "opening" /\ up = "idle" /\ Answer(ErrorAnswer(Status("unavailable"), <<>>))
  /\ UNCHANGED <<asked, upstream, first>>

Expire ==
  /\ phase = "opening" /\ up \in {"idle", "called"}
  /\ Answer(ErrorAnswer(Status("deadline_exceeded"), <<>>))
  /\ UNCHANGED <<asked, upstream, first>>

TrailersOnly(status, metadata) ==
  /\ phase = "opening" /\ up = "called" /\ up' = "ended" /\ outcome' = status
  /\ wire' = [ErrorAnswer(status, metadata) EXCEPT !.frames = IF head THEN <<>> ELSE @]
  /\ phase' = "done" /\ trailers' = metadata
  /\ UNCHANGED <<asked, count, sent, initial, first, pipe>>

\* The upstream's headers are in.  A JSON stream starts at once; an HttpBody and
\* a unary answer wait for a message.
Opened(metadata) ==
  /\ phase = "opening" /\ up = "called" /\ initial' = metadata
  /\ IF entry.streaming /\ entry.shape = "json"
     THEN Begin(Streamed(Absorb(metadata), IF sse THEN "sse" ELSE "ndjson", <<>>), <<>>)
     ELSE phase' = "first" /\ up' = "streaming" /\ UNCHANGED <<wire, pipe>>
  /\ UNCHANGED <<asked, count, sent, outcome, trailers, first>>

-----------------------------------------------------------------------------
\* The upstream.  Its message may be empty, have no JSON form, look like a status
\* in JSON, or carry a content type no header can.
Kinds == IF entry.shape = "json" THEN {"plain", "odd", "typed"} ELSE {"plain", "empty", "bad_type"}

\* A unary route carries one message, and an empty one carries nothing.
Carries(m) == m # "empty" /\ (entry.streaming \/ count = 0)

UpstreamSends(m) ==
  /\ up = "streaming" /\ count < MaxMessages /\ m \in Kinds /\ count' = count + 1
  /\ pipe' = Append(pipe, m) /\ sent' = IF Carries(m) THEN Append(sent, m) ELSE sent
  /\ UNCHANGED <<asked, outcome, initial, trailers, phase, up, first, wire>>

UpstreamEnds(status, metadata) ==
  /\ up = "streaming" /\ up' = "ended" /\ outcome' = status /\ trailers' = metadata
  /\ UNCHANGED <<asked, count, sent, initial, phase, pipe, first, wire>>

\* The client goes away: the response and the call with it are dropped.
ClientLeaves ==
  /\ phase # "done" /\ phase' = "done" /\ pipe' = <<>>
  /\ up' = IF up \in {"called", "streaming"} THEN "cancelled" ELSE up
  /\ wire' = [wire EXCEPT !.end = "gone"]
  /\ UNCHANGED <<asked, upstream, first>>

-----------------------------------------------------------------------------
\* Unary: the message, then the trailers (tonic reads past further messages).

Next1 == Head(pipe)
Drained == pipe = <<>> /\ up = "ended"

ReadMessage ==
  /\ phase = "first" /\ ~entry.streaming /\ pipe # <<>>
  /\ first' = Next1 /\ pipe' = Tail(pipe) /\ phase' = "trailers"
  /\ UNCHANGED <<asked, upstream, up, wire>>

NoMessage ==
  /\ phase = "first" /\ ~entry.streaming /\ Drained
  /\ LET status == IF outcome = Ok THEN Status("internal") ELSE outcome
         own == IF outcome = Ok THEN <<>> ELSE trailers
     IN Answer(ErrorAnswer(status, initial \o own))
  /\ UNCHANGED <<asked, upstream, first>>

\* Fault: the trailers' metadata replaces the initial one.
UnarySuccessMerged(message) ==
  IF CodeOf(initial \o trailers) = 0 \/ message = "bad_type" THEN Malformed
  ELSE IF message = "odd" THEN ErrorAnswer(Status("internal"), <<>>)
  ELSE Full(CodeOf(initial \o trailers), IF trailers = <<>> THEN Absorb(initial) ELSE Absorb(trailers),
            entry.shape, Chunk(message))

\* unary_success: the status x-http-code sets, the metadata of both, the body.
UnarySuccess(message) ==
  IF CodeOf(initial \o trailers) = 0 \/ message = "bad_type" THEN Malformed
  ELSE IF message = "odd" THEN ErrorAnswer(Status("internal"), <<>>)
  ELSE Full(CodeOf(initial \o trailers), Absorb(initial \o trailers), entry.shape,
            Chunk(message))

\* Fault: the trailers are expected right behind the message.
ReadTrailersAtOnce ==
  /\ phase = "trailers" /\ Drained
  /\ Answer(IF outcome = Ok THEN UnarySuccess(first) ELSE ErrorAnswer(outcome, initial \o trailers))
  /\ UNCHANGED <<asked, upstream, first>>

ReadTrailers ==
  /\ phase = "trailers"
  /\ IF Drained THEN Answer(IF outcome = Ok THEN UnarySuccess(first)
                            ELSE ErrorAnswer(outcome, initial \o trailers))
     ELSE pipe # <<>> /\ pipe' = Tail(pipe) /\ UNCHANGED <<phase, up, wire>>
  /\ UNCHANGED <<asked, upstream, first>>

-----------------------------------------------------------------------------
\* Streams of JSON: json_frames.

Push(frame) == wire' = [wire EXCEPT !.frames = Append(@, frame)]
Close(frames, how) ==
  /\ wire' = [wire EXCEPT !.frames = @ \o frames, !.end = how]
  /\ phase' = "done" /\ pipe' = <<>> /\ up' = IF up = "streaming" THEN "cancelled" ELSE up

\* Fault: a message with no JSON form is passed over.
JsonFrameSkipping ==
  /\ phase = "body" /\ entry.shape = "json" /\ pipe # <<>>
  /\ IF Next1 = "odd" THEN UNCHANGED wire ELSE Push(Frame("data", Next1))
  /\ pipe' = Tail(pipe) /\ UNCHANGED <<phase, up>>
  /\ UNCHANGED <<asked, upstream, first>>

JsonFrame ==
  /\ phase = "body" /\ entry.shape = "json" /\ pipe # <<>>
  /\ IF Next1 = "odd" THEN Close(<<Frame("error", "internal")>>, "clean")
     ELSE Push(Frame("data", Next1)) /\ pipe' = Tail(pipe) /\ UNCHANGED <<phase, up>>
  /\ UNCHANGED <<asked, upstream, first>>

JsonEnd ==
  /\ phase = "body" /\ entry.shape = "json" /\ Drained
  /\ Close(IF outcome = Ok THEN <<>> ELSE <<Frame("error", Rendered(outcome))>>, "clean")
  /\ UNCHANGED <<asked, upstream, first>>

-----------------------------------------------------------------------------
\* Streams of HttpBody: the headers wait for the first message.

HttpBodyFirst ==
  /\ phase = "first" /\ entry.streaming /\ pipe # <<>>
  /\ IF Next1 = "bad_type" THEN Answer(Malformed)
     ELSE Begin(Streamed(Absorb(initial), "http_body", Chunk(Next1)), Tail(pipe))
  /\ UNCHANGED <<asked, upstream, first>>

HttpBodyNone ==
  /\ phase = "first" /\ entry.streaming /\ Drained
  /\ IF outcome = Ok THEN Answer([Streamed(Absorb(initial), "none", <<>>) EXCEPT !.end = "clean"])
     ELSE Answer(ErrorAnswer(outcome, initial \o trailers))
  /\ UNCHANGED <<asked, upstream, first>>

HttpBodyChunk ==
  /\ phase = "body" /\ entry.shape = "http_body" /\ pipe # <<>>
  /\ wire' = [wire EXCEPT !.frames = @ \o Chunk(Next1)]
  /\ pipe' = Tail(pipe) /\ UNCHANGED <<asked, upstream, first, phase, up>>

\* Fault: the body of a failed call ends like a good one.
HttpBodyEndClean ==
  /\ phase = "body" /\ entry.shape = "http_body" /\ Drained
  /\ Close(<<>>, "clean") /\ UNCHANGED <<asked, upstream, first>>

\* The raw body has no error frame: it is aborted, never ended cleanly.
HttpBodyEnd ==
  /\ phase = "body" /\ entry.shape = "http_body" /\ Drained
  /\ Close(<<>>, IF outcome = Ok THEN "clean" ELSE "aborted")
  /\ UNCHANGED <<asked, upstream, first>>

\* What the handler does up to the headers, and what a poll of the body does.
Answering == ReadMessage \/ NoMessage \/ ReadTrailers \/ HttpBodyFirst \/ HttpBodyNone
Body == JsonFrame \/ JsonEnd \/ HttpBodyChunk \/ HttpBodyEnd
Proxy == Prepare \/ Answering \/ Body

Next ==
  \/ Refuse \/ Proxy \/ Ready \/ NotReady \/ Expire \/ ClientLeaves
  \/ \E metadata \in Metadata : Opened(metadata)
  \/ \E status \in Statuses, metadata \in Metadata : status # Ok /\ TrailersOnly(status, metadata)
  \/ \E status \in Statuses, metadata \in Metadata : UpstreamEnds(status, metadata)
  \/ \E m \in {"plain", "odd", "typed", "empty", "bad_type"} : UpstreamSends(m)

\* The runtime polls a handler that can go on and its timer fires.  Nothing is
\* assumed of the upstream or of the client: a request is prepared once the client
\* has sent its body, and a body is polled as the client takes it.
Spec == Init /\ [][Next]_vars /\ WF_vars(Answering) /\ WF_vars(Expire)

-----------------------------------------------------------------------------
\* A body of frames fails when it ends in an error; the rest are the messages.
Erred(frames) == frames # <<>> /\ frames[Len(frames)].kind = "error"
Data(frames) ==
  [i \in 1 .. IF Erred(frames) THEN Len(frames) - 1 ELSE Len(frames) |-> frames[i].of]
Saw(m) == \E i \in DOMAIN sent : sent[i] = m

\* The promise of ServerStream, kept by every framing.  A HEAD gets no message, and
\* an answer without a body is cut like one whose client left.
Verdict(bodiless, response) ==
  IF response.end = "open" THEN "open"
  ELSE IF bodiless \/ response.end = "gone" \/ response.status \in {204, 205, 304} THEN "cut"
  ELSE IF response.end = "aborted" \/ Erred(response.frames) THEN "error" ELSE "ok"
Ended == CASE outcome = Running -> "no" [] outcome = Ok -> "ok" [] OTHER -> "error"
Promise ==
  INSTANCE ServerStream WITH
    Message <- {"plain", "odd", "typed", "bad_type"},
    sent <- sent,
    ended <- Ended,
    got <- Data(wire.frames),
    verdict <- Verdict(head, wire)
KeepsPromise == Promise!StreamSpec

\* What a reader of the format makes of a frame: an SSE reader goes by the event,
\* an enveloped line says what it is, and a bare line is an error when its @type
\* says so, which only the messages of an RPC that streams such types can fake.
ReadsAsError(frame) ==
  \/ frame.kind = "error"
  \/ frame.of = "typed" /\ wire.type = "ndjson" /\ ~entry.envelope

\* A failure is never read as success, nor a success as failure: a client that
\* reads to the end knows how the call went, and an error is the last it reads.
FailureVisible ==
  LET seen == \/ wire.status >= 400 \/ wire.end = "aborted"
              \/ \E i \in DOMAIN wire.frames : ReadsAsError(wire.frames[i])
  IN /\ (wire.end \in {"clean", "aborted"} /\ ~head) =>
          /\ outcome # Ok => seen
          /\ (outcome = Ok /\ seen) =>
               \/ Saw("odd") \/ Saw("bad_type")
               \/ Saw("typed") /\ wire.type = "ndjson" /\ ~entry.envelope
               \/ CodeOf(initial \o trailers) \notin 200 .. 399 \/ count = 0
     /\ \A i \in DOMAIN wire.frames :
          wire.frames[i].kind = "error" => i = Len(wire.frames) /\ wire.end # "open"

\* Headers of the response: the upstream's, those that came before its messages
\* ahead of those after, and none that is gRPC's own, denied, or of an answer the
\* proxy does not vouch for.
HeadersPassed ==
  /\ \A i \in DOMAIN wire.headers : wire.headers[i][1] \notin Withheld \cup Denied
  /\ (wire.end = "clean" /\ ~entry.streaming /\ outcome # Running /\ Faithful(outcome)
        /\ wire.frames # <<Frame("error", "internal")>> /\ ~head) =>
       wire.headers = Absorb(initial) \o Absorb(trailers)

\* A call opens within its deadline, or is answered without the upstream.  Once the
\* upstream has ended it, the response is there or has begun, and one that has begun
\* ends where the client goes on taking it; once the response is over the proxy holds
\* no call on the upstream, which may never end by itself.
ResponseEnds ==
  /\ phase = "opening" ~> phase # "opening"
  /\ up = "ended" ~> wire.end # "open" \/ phase = "body"
  /\ WF_vars(Body) => (up = "ended" ~> wire.end # "open")
  /\ [](wire.end # "open" => up \notin {"called", "streaming"})
=============================================================================
