------------------------------- MODULE Guards -------------------------------
(***************************************************************************)
(* Requests through the guards in front of the upstream (service.rs,       *)
(* guard.rs, guard/gate.rs, guard/concurrency.rs, guard/grpc.rs, held.rs,  *)
(* cors.rs, and the middleware of auth/mod.rs, auth/authz.rs, embed.rs and *)
(* shield/mod.rs), several at once, each dropped at any await.  Local rate *)
(* budgets are counters here (GcraStore is their detail) and what the      *)
(* fleet, the authorization server, the decider and the upstream answer is *)
(* left open.                                                              *)
(***************************************************************************)
EXTENDS Naturals, Sequences, FiniteSets

CONSTANTS
  Request,      \* the requests in progress at a time
  Configs,      \* [scopes, policies, failOpen, fleet, cors, webCors]
  Kinds,        \* what a request is: [speaks, route, inside, rules, target, exempt,
                \* client, token, origin]
  Checks,       \* answers of the authorization server
  Decisions,    \* answers of the embedder's decider
  MaxInFlight,  \* concurrency.max_in_flight
  Limit, Period \* the budget of a phase, and the time one unit of it takes

VARIABLES
  cfg,
  slots,    \* free permits of the concurrency limit
  budget,   \* what is left to each bucket of the shield
  stage,    \* where each request is,
  call,     \* what it is,
  holding,  \* whether it has a permit,
  reports,  \* what each phase of the shield that admitted it reports,
  charged,  \* how often each has charged it,
  passed,   \* the authenticating guards that let it through,
  carried,  \* its headers: whose values each has,
  answer    \* and the response on its way to the client

requests == <<stage, call, holding, reports, charged, passed, carried, answer>>
guardVars == <<cfg, slots, budget, requests>>

Phases == {"pre", "post"}

\* What a request can be, and what configuration loading and the answers' types
\* leave possible.
KindType ==
  [speaks : {"http", "preflight", "grpc", "web", "web_preflight"},
   route : {"transcoded", "endpoints", "verify", "fallback"}, inside : BOOLEAN,
   rules : SUBSET Phases, target : BOOLEAN, exempt : BOOLEAN,
   client : {"client", "invalid", "unknown"}, token : {"none", "invalid", "weak", "valid"},
   origin : {"listed", "other"}]
GrpcCode ==
  {"ok", "cancelled", "unknown", "invalid_argument", "deadline_exceeded", "not_found",
   "already_exists", "permission_denied", "resource_exhausted", "failed_precondition", "aborted",
   "out_of_range", "unimplemented", "internal", "unavailable", "data_loss", "unauthenticated"}
ASSUME GuardAssumption ==
  /\ IsFiniteSet(Request) /\ MaxInFlight \in Nat
  /\ Limit \in [Phases -> Nat] /\ Period \in [Phases -> Nat]
  /\ Kinds \subseteq KindType /\ \A c \in Configs : c.cors \in {"any", "listed"}
  /\ \A check \in Checks : check.http \in Nat /\ check.code \in GrpcCode \cup {"none", "failed"}
  /\ \A decision \in Decisions : decision.http \in Nat

-----------------------------------------------------------------------------
\* Which guards a request meets.

\* ProxyService::call: a gRPC content type goes the gRPC way, a gRPC-Web
\* preflight too but past the guards, the rest by its route; the CORS layer of
\* the proxy's own routes answers their preflights.
Class(kind) ==
  CASE kind.speaks \in {"grpc", "web"} -> "grpc"
    [] kind.speaks = "web_preflight" -> "none"
    [] kind.speaks = "preflight" /\ kind.route # "fallback" -> "none"
    [] OTHER -> kind.route

\* Class::bit: the verify endpoint counts as an endpoint.
Traffic(kind) == IF Class(kind) = "verify" THEN "endpoints" ELSE Class(kind)
Authenticating == {"auth", "post", "authz", "decider"}
ScopeOf(guard) == IF guard \in Phases THEN "shield" ELSE guard
Covers(guard, traffic) == traffic \in cfg.scopes[ScopeOf(guard)].traffic
Guarded(traffic) == \E guard \in DOMAIN cfg.scopes : Covers(guard, traffic)

\* The guard's scope covers the request; for the shield, a rule of the phase
\* matches it and has a limit.
Applies(guard, kind) ==
  /\ Covers(guard, Traffic(kind)) /\ (cfg.scopes[ScopeOf(guard)].narrows => kind.inside)
  /\ guard \in Authenticating => Class(kind) # "verify"
  /\ guard \in Phases => guard \in kind.rules

\* Fault: the limits by claim run before the claims are verified.
InnerPostFirst == <<"post", "auth", "authz", "decider">>

\* guard_stack, behind the gate.
Inner == <<"auth", "post", "authz", "decider">>
Position(guard) == IF guard = "gate" THEN 0 ELSE CHOOSE i \in DOMAIN Inner : Inner[i] = guard
After(guard, kind) ==
  LET left == {i \in DOMAIN Inner : i > Position(guard) /\ Applies(Inner[i], kind)}
  IN IF left = {} THEN "inside" ELSE Inner[CHOOSE i \in left : \A j \in left : i <= j]

-----------------------------------------------------------------------------
\* Responses.

HttpOf ==
  [code \in {"invalid_argument", "unauthenticated", "permission_denied", "resource_exhausted",
             "unavailable", "internal", "unknown", "ok"} |->
     CASE code = "invalid_argument" -> 400 [] code = "unauthenticated" -> 401
       [] code = "permission_denied" -> 403 [] code = "resource_exhausted" -> 429
       [] code = "unavailable" -> 503 [] code = "ok" -> 200 [] OTHER -> 500]

\* Fault: an HTTP success stands for OK.
HttpToGrpcLenient(status) ==
  CASE status \in 200 .. 299 -> "ok" [] status = 401 -> "unauthenticated"
    [] status = 403 -> "permission_denied" [] status = 503 -> "unavailable" [] OTHER -> "unknown"

\* http_to_grpc_code.
HttpToGrpc(status) ==
  CASE status = 400 -> "invalid_argument" [] status = 401 -> "unauthenticated"
    [] status = 403 -> "permission_denied" [] status = 404 -> "not_found"
    [] status = 409 -> "aborted" [] status = 429 -> "resource_exhausted"
    [] status = 499 -> "cancelled" [] status = 501 -> "unimplemented"
    [] status = 503 -> "unavailable" [] status = 504 -> "deadline_exceeded"
    [] status \in (500 .. 599) \ {501, 503, 504} -> "internal" [] OTHER -> "unknown"

NoRate == [by |-> "none", remaining |-> 0, reset |-> 0]
Response(by, status, code, rate, retry) ==
  [by |-> by, status |-> status, code |-> code, rate |-> rate, retry |-> retry]
Refusal(by, code, rate, retry) == Response(by, HttpOf[code], code, rate, retry)
Reject(by, code) == Refusal(by, code, NoRate, 0)

Widened(retry, reset) == IF retry # 0 /\ reset > retry THEN reset ELSE retry

\* Fault: on a tie the budget already there stays.
TightenOver(limits, report) ==
  IF limits.rate # NoRate /\ limits.rate.remaining <= report.remaining THEN limits
  ELSE [rate |-> report, retry |-> Widened(limits.retry, report.reset)]

\* maybe_tighten_rate_headers: the budget that binds first, and on a tie the
\* longer wait; Retry-After is only ever widened with it.
Tighten(limits, report) ==
  IF /\ limits.rate # NoRate
     /\ \/ limits.rate.remaining < report.remaining
        \/ limits.rate.remaining = report.remaining /\ limits.rate.reset >= report.reset
  THEN limits
  ELSE [rate |-> report, retry |-> Widened(limits.retry, report.reset)]

\* A response passes only the limiters that admitted its request.
Past(limits, report) == IF report = NoRate THEN limits ELSE Tighten(limits, report)

\* GrpcRejections, there when some guard covers gRPC: what a guard refused, and
\* any answer that is not gRPC, is written anew as a status.
Converts(kind, response) ==
  /\ Class(kind) = "grpc" /\ Guarded("grpc")
  /\ response.by # "inside" \/ response.code = "none"

\* Policy::allow_origin, where the policy is applied: the proxy's own routes,
\* and gRPC-Web when the configuration says so.
Granted(kind) ==
  LET applied == \/ kind.speaks \in {"http", "preflight"} /\ kind.route # "fallback"
                 \/ kind.speaks \in {"web", "web_preflight"} /\ cfg.webCors
  IN CASE applied /\ cfg.cors = "any" -> "*"
       [] applied /\ cfg.cors = "listed" /\ kind.origin = "listed" -> "origin"
       [] OTHER -> "none"

\* The response on its way out: past the limiters that admitted the request,
\* the inner one first, into gRPC for a gRPC call, and past CORS last.
Outbound(r, response) ==
  LET kind == call[r]
      limits == Past(Past([rate |-> response.rate, retry |-> response.retry], reports[r]["post"]),
                     reports[r]["pre"])
      anew == Converts(kind, response)
  IN [by |-> response.by, status |-> IF anew THEN 200 ELSE response.status,
      code |-> IF anew /\ response.code = "none" THEN HttpToGrpc(response.status) ELSE response.code,
      rate |-> limits.rate, retry |-> limits.retry, cors |-> Granted(kind),
      form |-> IF anew THEN "status" ELSE "own"]

-----------------------------------------------------------------------------
NoCall ==
  [speaks |-> "http", route |-> "fallback", inside |-> FALSE, rules |-> {}, target |-> FALSE,
   exempt |-> FALSE, client |-> "unknown", token |-> "none", origin |-> "other"]
NoReports == [phase \in Phases |-> NoRate]
NoCharges == [phase \in Phases |-> 0]
NoHeaders == [name \in {"address", "claim", "extra"} |-> {}]
NoAnswer ==
  [by |-> "none", status |-> 0, code |-> "none", rate |-> NoRate, retry |-> 0, cors |-> "none",
   form |-> "own"]

GuardInit ==
  /\ cfg \in Configs /\ slots = MaxInFlight
  /\ budget = [b \in Phases \X {"client", "user", "invalid", "unknown"} |-> Limit[b[1]]]
  /\ stage = [r \in Request |-> "idle"] /\ call = [r \in Request |-> NoCall] /\ holding = {}
  /\ reports = [r \in Request |-> NoReports] /\ charged = [r \in Request |-> NoCharges]
  /\ passed = [r \in Request |-> {}] /\ carried = [r \in Request |-> NoHeaders]
  /\ answer = [r \in Request |-> NoAnswer]

\* The request's permit goes back with whatever held it: its future, its body.
Release(r) == holding' = holding \ {r} /\ slots' = IF r \in holding THEN slots + 1 ELSE slots

\* Fault: the permit is released with the response, not with its body.
RespondFreeing(r, response) ==
  /\ stage' = [stage EXCEPT ![r] = "body"] /\ answer' = [answer EXCEPT ![r] = Outbound(r, response)]
  /\ Release(r) /\ UNCHANGED <<call, reports, charged, passed, carried>>

\* An answer of a guard or of the service behind them all.  The permit stays with
\* its body, unless the gate itself refuses, or the body is dropped for a status.
Respond(r, response) ==
  /\ stage' = [stage EXCEPT ![r] = "body"] /\ answer' = [answer EXCEPT ![r] = Outbound(r, response)]
  /\ IF response.by # "pre" /\ ~Converts(call[r], response) THEN UNCHANGED <<holding, slots>>
     ELSE Release(r)
  /\ UNCHANGED <<call, reports, charged, passed, carried>>

\* Resolver::apply rewrites the client-address header before any guard; the
\* client sends copies of the others.
Arrive(r, kind) ==
  /\ stage[r] = "idle" /\ call' = [call EXCEPT ![r] = kind]
  /\ stage' = [stage EXCEPT ![r] = IF Class(kind) = "none" THEN "preflight" ELSE "gate"]
  /\ carried' = [carried EXCEPT ![r] =
                   [address |-> IF kind.client = "client" THEN {"proxy"} ELSE {},
                    claim |-> {"client"}, extra |-> {"client"}]]
  /\ UNCHANGED <<cfg, slots, budget, holding, reports, charged, passed, answer>>

\* A preflight is answered by the proxy's CORS layer, or by the upstream when it
\* owns the CORS of gRPC-Web.
Preflight(r) ==
  /\ stage[r] = "preflight" /\ Respond(r, Response("none", 200, "none", NoRate, 0))
  /\ UNCHANGED <<cfg, budget>>

-----------------------------------------------------------------------------
\* Gate::admit, up to the concurrency limit.

PastGate(kind) == IF Applies("pre", kind) THEN "pre" ELSE After("gate", kind)

Gate(r) ==
  LET kind == call[r]
      unresolved == Applies("require_client", kind) /\ kind.client # "client"
      closed == Applies("maintenance", kind) /\ ~kind.exempt
      limited == Applies("concurrency", kind)
  IN /\ stage[r] = "gate"
     /\ \/ /\ unresolved
           /\ Respond(r, Reject("require_client", IF kind.client = "invalid" THEN "invalid_argument"
                                                  ELSE "internal"))
        \/ ~unresolved /\ closed /\ Respond(r, Refusal("maintenance", "unavailable", NoRate, 300))
        \/ /\ ~unresolved /\ ~closed /\ limited /\ slots = 0
           /\ Respond(r, Refusal("concurrency", "unavailable", NoRate, 1))
        \/ /\ ~unresolved /\ ~closed /\ (limited => slots > 0)
           /\ stage' = [stage EXCEPT ![r] = PastGate(kind)]
           /\ IF limited THEN slots' = slots - 1 /\ holding' = holding \cup {r}
              ELSE UNCHANGED <<slots, holding>>
           /\ UNCHANGED <<call, reports, charged, passed, carried, answer>>
     /\ UNCHANGED <<cfg, budget>>

\* rule_key: a claim of the verified token, else the client address, else one
\* bucket per reason there is none.
Bucket(r, phase) ==
  <<phase, IF phase = "post" /\ call[r].token \in {"valid", "weak"} /\ "auth" \in passed[r]
           THEN "user" ELSE call[r].client>>

Shown(phase, remaining, reset) == [by |-> phase, remaining |-> remaining, reset |-> reset]
Backoff == 1

\* Shield::charge: the fleet's budget is read first, the local one charged, and
\* the tighter of the two reported.
Charge(r, phase, fleet) ==
  LET bucket == Bucket(r, phase)
      left == budget[bucket] - 1
      reset == (Limit[phase] - left) * Period[phase]
      binds == cfg.fleet /\ fleet - 1 <= left
      report == IF binds THEN Shown(phase, fleet - 1, IF reset > Backoff THEN reset ELSE Backoff)
                ELSE Shown(phase, left, reset)
      spent == cfg.fleet /\ fleet = 0
  IN /\ stage[r] = phase /\ (~cfg.fleet => fleet = 0)
     /\ \/ /\ spent /\ UNCHANGED budget
           /\ Respond(r, Refusal(phase, "resource_exhausted", Shown(phase, 0, Backoff), Backoff))
        \/ /\ ~spent /\ budget[bucket] = 0 /\ UNCHANGED budget
           /\ Respond(r, Refusal(phase, "resource_exhausted",
                                Shown(phase, 0, Limit[phase] * Period[phase]), Period[phase]))
        \/ /\ ~spent /\ budget[bucket] > 0 /\ budget' = [budget EXCEPT ![bucket] = left]
           /\ reports' = [reports EXCEPT ![r][phase] = report]
           /\ charged' = [charged EXCEPT ![r][phase] = @ + 1]
           /\ stage' = [stage EXCEPT ![r] = After(IF phase = "pre" THEN "gate" ELSE phase, call[r])]
           /\ UNCHANGED <<slots, call, holding, passed, carried, answer>>
     /\ UNCHANGED cfg

\* The store's time passing (GcraStore).
Replenish(b) ==
  /\ budget[b] < Limit[b[1]] /\ budget' = [budget EXCEPT ![b] = @ + 1]
  /\ UNCHANGED <<cfg, slots, requests>>

-----------------------------------------------------------------------------
\* Auth::decide: an invalid token is refused whatever the policy says.
AuthDecision(kind) ==
  LET matching == {i \in DOMAIN cfg.policies : cfg.policies[i].everywhere \/ kind.target}
      requires == IF matching = {} THEN "nothing"
                  ELSE cfg.policies[CHOOSE i \in matching : \A j \in matching : i <= j].requires
  IN CASE kind.token = "invalid" -> "unauthenticated"
       [] kind.token = "none" -> IF requires = "nothing" THEN "allow" ELSE "unauthenticated"
       [] kind.token = "weak" -> IF requires = "role" THEN "permission_denied" ELSE "allow"
       [] kind.token = "valid" -> "allow"

Pass(r, guard, headers) ==
  /\ stage' = [stage EXCEPT ![r] = After(guard, call[r])]
  /\ carried' = [carried EXCEPT ![r] = headers] /\ passed' = [passed EXCEPT ![r] = @ \cup {guard}]
  /\ UNCHANGED <<slots, call, holding, reports, charged, answer>>

\* Fault: an anonymous request keeps the claim headers it came with.
ClaimHeadersOver(kind, headers) ==
  IF kind.token = "none" THEN headers ELSE [headers EXCEPT !["claim"] = {"jwt"}]

\* strip_claim_headers, then the verified claims.
ClaimHeaders(kind, headers) ==
  [headers EXCEPT !["claim"] = IF kind.token = "none" THEN {} ELSE {"jwt"}]

\* auth::middleware, once the token is verified.
Authenticate(r) ==
  LET decision == AuthDecision(call[r])
  IN /\ stage[r] = "auth"
     /\ IF decision # "allow" THEN Respond(r, Reject("auth", decision))
        ELSE Pass(r, "auth", ClaimHeaders(call[r], carried[r]))
     /\ UNCHANGED <<cfg, budget>>

\* apply_headers: appended, but for what the proxy sets from the client address.
ApplyHeaders(headers, added) ==
  [name \in DOMAIN headers |-> headers[name] \cup IF name \in added \ {"address"} THEN {"check"} ELSE {}]

\* evaluate: only an OK status allows.
Evaluate(check) == check.code = "ok"

Denial(check) ==
  IF check.http = 0 THEN Reject("authz", "permission_denied")
  ELSE Response("authz", check.http, IF check.code = "none" THEN HttpToGrpc(check.http) ELSE check.code,
                NoRate, 0)

\* authz::middleware: the answer of the check, or none within its timeout.
Authorize(r, check) ==
  /\ stage[r] = "authz"
  /\ \/ check.code = "failed" /\ cfg.failOpen /\ Pass(r, "authz", carried[r])
     \/ check.code = "failed" /\ ~cfg.failOpen /\ Respond(r, Reject("authz", "unavailable"))
     \/ check.code # "failed" /\ Evaluate(check)
        /\ Pass(r, "authz", ApplyHeaders(carried[r], check.headers))
     \/ check.code # "failed" /\ ~Evaluate(check) /\ Respond(r, Denial(check))
  /\ UNCHANGED <<cfg, budget>>

\* strip_then_insert.
StripThenInsert(headers, injected) ==
  [name \in DOMAIN headers |-> IF name \in injected \ {"address"} THEN {"decider"} ELSE headers[name]]

\* auth_decider_gate: allow, deny with an answer of its own, or a redirect.
Decider(r, decision) ==
  /\ stage[r] = "decider"
  /\ \/ /\ decision.is = "allow"
        /\ Pass(r, "decider", StripThenInsert(carried[r], decision.headers))
     \/ /\ decision.is = "deny"
        /\ Respond(r, Response("decider", decision.http, HttpToGrpc(decision.http), NoRate, 0))
     \/ /\ decision.is = "redirect"
        /\ Respond(r, Response("decider", 302, "unauthenticated", NoRate, 0))
  /\ UNCHANGED <<cfg, budget>>

-----------------------------------------------------------------------------
\* ForwardAuth::verify and verify_via_decider: the verify endpoint answers as the
\* JWT gate would, or the decider's.
Verify(r) ==
  LET decision == AuthDecision(call[r])
  IN /\ stage[r] = "inside" /\ Class(call[r]) = "verify"
     /\ IF cfg.scopes["decider"].traffic # {}
        THEN \E d \in Decisions :
               LET http == CASE d.is = "allow" -> 200 [] d.is = "deny" -> d.http [] OTHER -> 401
               IN Respond(r, Response("inside", http, "none", NoRate, 0))
        ELSE Respond(r, IF decision = "allow" THEN Response("inside", 200, "none", NoRate, 0)
                        ELSE Reject("inside", decision))
     /\ UNCHANGED <<cfg, budget>>

\* Anything else answers in its own protocol or fails to; an upstream that does
\* not speak gRPC to a gRPC call answers with plain HTTP.
Serve(r) ==
  LET class == Class(call[r])
  IN /\ stage[r] = "inside" /\ class # "verify"
     /\ \E code \in {"ok", "unavailable", "none"} :
          Respond(r, Response("inside", IF class = "grpc" \/ code = "none" THEN 200 ELSE HttpOf[code],
                              code, NoRate, 0))
     /\ UNCHANGED <<cfg, budget>>

\* Held: the body ends or fails, or the client leaves, while it is answered or
\* before.
Clear(r) ==
  /\ stage' = [stage EXCEPT ![r] = "idle"] /\ call' = [call EXCEPT ![r] = NoCall] /\ Release(r)
  /\ reports' = [reports EXCEPT ![r] = NoReports] /\ charged' = [charged EXCEPT ![r] = NoCharges]
  /\ passed' = [passed EXCEPT ![r] = {}] /\ carried' = [carried EXCEPT ![r] = NoHeaders]
  /\ answer' = [answer EXCEPT ![r] = NoAnswer]
BodyEnds(r) == stage[r] = "body" /\ Clear(r) /\ UNCHANGED <<cfg, budget>>
Leaves(r) == stage[r] \notin {"idle", "body"} /\ Clear(r) /\ UNCHANGED <<cfg, budget>>

Step(r) ==
  \/ \E kind \in Kinds : Arrive(r, kind)
  \/ Preflight(r) \/ Gate(r) \/ Authenticate(r) \/ Verify(r) \/ Serve(r) \/ BodyEnds(r) \/ Leaves(r)
  \/ \E phase \in Phases, fleet \in 0 .. 2 : Charge(r, phase, fleet)
  \/ \E check \in Checks : Authorize(r, check)
  \/ \E decision \in Decisions : Decider(r, decision)

GuardNext == (\E r \in Request : Step(r)) \/ (\E b \in DOMAIN budget : Replenish(b))
GuardSpec == GuardInit /\ [][GuardNext]_guardVars

-----------------------------------------------------------------------------
Working(r) ==
  \/ stage[r] \in {"pre", "auth", "post", "authz", "decider", "inside"}
  \/ stage[r] = "body" /\ answer[r].by = "inside" /\ answer[r].form = "own"

\* The permits and who has them, at every moment of every request: one that is
\* turned away, dropped, or whose body ends gives its permit back, once, and a
\* covered request counts from the gate until the last of the body behind it.
PermitsConserved ==
  /\ slots + Cardinality(holding) = MaxInFlight
  /\ Cardinality({r \in Request : Working(r) /\ Applies("concurrency", call[r])}) <= MaxInFlight

Answered(r) == stage[r] = "body"
By(r) == answer[r].by

\* What is behind the guards sees a request only when each of those that cover
\* it let it through, whatever order they run in: its client resolved, outside
\* maintenance, within the limit, its token good enough, and the authorization
\* server and the decider asked.  The verify endpoint meets none of the gates it
\* answers for.  And a request a guard turns away spends no budget further in:
\* none at all before the gate is passed, none after auth on one that is not
\* authenticated, and none twice.
VettedInOrder ==
  \A r \in Request :
    LET kind == call[r]
    IN /\ stage[r] = "inside" =>
            /\ Applies("require_client", kind) => kind.client = "client"
            /\ Applies("maintenance", kind) => kind.exempt
            /\ Applies("concurrency", kind) => r \in holding
            /\ Applies("auth", kind) => AuthDecision(kind) = "allow"
            /\ {g \in {"auth", "authz", "decider"} : Applies(g, kind)} \subseteq passed[r]
            /\ \A phase \in Phases : Applies(phase, kind) => charged[r][phase] = 1
            /\ kind.route = "verify" /\ kind.speaks = "http" => passed[r] = {}
       /\ \A phase \in Phases : charged[r][phase] <= 1
       /\ Answered(r) /\ By(r) \in {"require_client", "maintenance", "concurrency", "pre"} =>
            charged[r] = NoCharges
       /\ Answered(r) /\ By(r) \in {"auth", "post"} => charged[r]["post"] = 0

\* Headers that say who the client is are never the client's own words: the
\* address is the resolved one alone, claims are a verified token's or a
\* guard's, and what the decider sets is its own alone.  Other headers that the
\* authorization server adds stand beside the client's (apply_headers appends).
HeadersGenuine ==
  \A r \in Request : stage[r] = "inside" =>
    /\ carried[r]["address"] \subseteq {"proxy"}
    /\ Applies("auth", call[r]) => "client" \notin carried[r]["claim"]
    /\ \A name \in DOMAIN carried[r] :
         "decider" \in carried[r][name] => carried[r][name] = {"decider"}

\* The budget a response reports is the tightest of the phases that admitted or
\* refused the request, by what remains and then by how long it lasts; and where
\* another phase's budget is reported than that of the phase that refused, a
\* Retry-After never sends the client back before it has room again.
TightestReported ==
  \A r \in Request : Answered(r) =>
    LET shown == answer[r].rate
        retry == answer[r].retry
    IN /\ \A phase \in Phases :
            LET other == reports[r][phase]
            IN other # NoRate =>
                 /\ shown # NoRate
                 /\ \/ shown.remaining < other.remaining
                    \/ shown.remaining = other.remaining /\ shown.reset >= other.reset
       /\ (retry # 0 /\ shown.by # By(r) /\ shown # NoRate) => retry >= shown.reset

\* A gRPC call some guard covers ends in a gRPC status, and in OK only when the
\* upstream itself said so: never for what a guard refused, whatever HTTP answer
\* it gave, nor for a page from something that is no gRPC server.  A browser the
\* policy admits can read it: CORS is outside the guards.
RefusedInGrpc ==
  \A r \in Request : Answered(r) =>
    LET kind == call[r]
        response == answer[r]
    IN /\ Class(kind) = "grpc" /\ Guarded("grpc") => response.code # "none"
       /\ Class(kind) = "grpc" /\ response.by # "inside" => response.code # "ok"
       /\ response.code = "ok" /\ Class(kind) = "grpc" => response.form = "own"
       /\ (kind.speaks = "web" /\ cfg.webCors /\ cfg.cors = "any") => response.cors = "*"
       /\ (kind.speaks = "web" /\ cfg.webCors /\ kind.origin = "listed") => response.cors # "none"
=============================================================================
