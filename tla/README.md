# Verification of structured-proxy

structured-proxy puts a REST and gRPC front on a gRPC upstream: it transcodes
HTTP requests by their `google.api.http` bindings and guards them with
authentication, rate limits and load shedding. This directory models the parts
of it that keep state between requests, decide between many candidates or have
to keep an order between several steps, checks them with TLC on small instances and proves the main safety properties
with TLAPS for every instance. `PROJECT.json` maps every definition to the lines
it models (paths below are relative to the repository's `src/`).

Contents: [inventory](#inventory), [modules](#modules), [runs](#runs),
[proofs](#proofs), [disagreements and observations](#disagreements-and-observations),
[what is not modelled](#what-is-not-modelled), [plan](#plan).

## Inventory

| Component | State | Operations | Interacts with | What is hard | What makes it correct |
|---|---|---|---|---|---|
| Local rate-limit store (`shield/gcra.rs`, `shield/store.rs`) | key -> TAT, last sweep | `check`, `maybe_sweep`, `evict_drained` | called by `Shield::charge` for every metered request | the clock is read before any lock; sweeps race with updates; tiers change under a kept TAT | the rate is never exceeded, verdict headers are exact, sweeps stay rare |
| Fleet counters (`shield/global.rs`, `shield/window.rs`) | key -> counts of an epoch, carried-over counts, estimate; the shared store | `fleet_remaining`, `record`, the reconcile pass | `charge` gates and records; a background task talks to Redis | windows roll under requests with old clock readings; a push may commit unanswered | an admit is published at most once and in its own epoch, and published at all when nothing fails |
| Dynamic limits (`shield/resolve.rs`) | cache of profiles, refreshes in flight | `resolve`, `trigger_refresh`, `insert_capped`, `sweep` | `charge` asks it; it asks an HTTP service in the background | refreshes race, fail, time out; the cache is capped | one refresh per key at a time, a limit is always available |
| Shield (`shield/mod.rs`, `matcher.rs`, `rate.rs`) | none of its own | `decide`, `charge`, headers | composes the three above | steps of one request interleave with other requests and passes | a rejected request is not charged, headers report the tighter budget |
| Claims cache (`auth/cache.rs`) | token -> claims with deadlines, slot counter, next sweep | `get`, `insert`, `sweep` | `Auth::verify` around every verification | the counter and the map change in separate steps; two clocks, one of which may be set back | the cache never exceeds its size or leaks room, and no answer outlives `exp` or `max_ttl_secs` |
| JWKS cache (`auth/jwks.rs`) | key set with its age, last refresh | `key_for`, `refresh` | the verifier asks it; it asks the identity provider | an async mutex held across HTTP by a request that may be dropped; throttling | a removed key stops verifying in bounded time, fetches stay spaced, nobody waits for ever |
| Token policy and authorization (`auth/mod.rs`, `policy.rs`, `verifier.rs`, `authz.rs`, `forward.rs`, the decider of `embed.rs`) | none | `decide`, `middleware`, `Check` calls, the verify endpoint | caches above, an authorization service, an embedder's decider | fail-open and fail-closed answers, headers written by four parties | no request passes a policy it does not meet; identity headers are never the client's |
| Server loop (`serve.rs`) | slots, connection tasks, stream tasks, stop and cancel flags | accept loop, `drive`, drain | hyper, the request service | slots change owners; the serve future can be dropped anywhere; streams outlive connections | no slot leaks, nothing survives the shutdown, the shutdown ends, no idle connection keeps the backlog waiting |
| Idle connections (`serve/idle.rs`) | count in flight, a notification permit | `enter`, drop, `idle_for` | `drive` closes a connection when it resolves | relaxed steps between the count and the wait | busy connections are not closed, idle ones are |
| Route selection (`transcode/path.rs`, `transcode/table.rs`, `transcode/mod.rs`, `lib.rs`, `service.rs`) | tables per router path, built once | `MountedPath::new`, `PathTable::add`, `Routes::choose_ranked`, `Direct::takes`, `ChooseRouted::call` | axum and matchit routers, other routes of the proxy | two independent matchers must agree; escapes, verbs, HEAD, empty segments, overlapping templates | every URL reaches the binding its template names, both ways alike |
| Request transcoding (`transcode/rule.rs`, `request.rs`, `presence.rs`, `select.rs`, `codec.rs`) | which fields are set, while a message is built | `bind_params`, `decode_request`, `build` | the chosen binding | three sources and two spellings for one field, oneofs, messages with a JSON form of their own | a field has the value of its first source, and a refusal has a cause |
| Responses and streams (`transcode/mod.rs`, `response.rs`, `httpbody.rs`, `error.rs`, `metadata.rs`) | position in a call and in a stream | `Call::open`, `call_unary`, `streaming_call`, `json_frames`, `http_body_stream`, `StatusDetails::render` | tonic streams, hyper bodies | errors after the first byte, a stalled upstream, a client that leaves | a client that reads to the end has every message and knows how the call went; no debug information leaves |
| Guards (`guard.rs`, `guard/*.rs`, `service.rs`, `received.rs`, `cors.rs`) | concurrency permits | `ProxyService::call`, `admit`, `settle`, `in_grpc`, CORS | wrap every request | permits held across bodies that may be dropped; layers assembled from scopes; HTTP refusals of gRPC calls | a permit is returned once and not early, what is behind the guards was vetted by all that cover it, a refused request costs nothing further in |
| Client address (`client_address.rs`) | none | `resolve`, `walk`, `apply` | runs first, feeds shield, guards and upstream; proxies stand one behind another | chains with trusted, malformed and forged hops, rewritten by every proxy | the address is never one an untrusted hop wrote |
| Upstream, TLS, runtime, configuration, OIDC, OpenAPI, builders | fixed after startup | | | | |

The request path ties them together: `serve.rs` accepts a connection and runs
`ProxyService::call` (`service.rs`) per request; the client address is resolved,
the guards admit it (maintenance, concurrency, the shield's pre-auth phase), the
token is verified through the claims and JWKS caches, the shield charges it, and
the chosen binding is transcoded and sent upstream. Background tasks are the
reconcile pass of the fleet counters and the refreshes of the limit cache.
Everything shared is behind sharded map locks, atomics or an async mutex, so the
models interleave at exactly those points.

## Modules

Atomicity: one action is what runs between two points where another task can
interfere: a lock taken or released, an atomic operation, an `await`. Definitions
named "Fault" in a comment are plausible defects; no specification uses them.

**`Gcra`**: the arithmetic of `gcra.rs`. `FromProfile` derives interval,
tolerance and burst; `Check` is the verdict with its saturating subtractions and
the `u32` cap of `remaining`.

**`GcraStore`** (`store.rs`): each request goes through `Read` (the clock, before
any lock), `LoadSweep`, `ClaimSweep` (the compare-and-swap), `EvictKey` per key,
`SweepEnd` and `Charge` (the update under the key's lock). `ClockTick` lets at most
`MaxLag` pass between a reading and its use; `ChangeTier` is `charge` passing
another profile for the same key. `Observe` starts an observation at any moment,
so that the rate bound is about every interval and not only about runs from
start-up.

**`GlobalCounters`** (`global.rs`, `window.rs`): requests `Arrive`, `Gate`, are
admitted or rejected by the local limiter (abstracted to a choice) and `Record`,
each step under the key's lock with the reading taken on arrival. A pass of an
instance goes through `StartPass`, `ClaimKey` per key, `ClaimsDone`, `Push` (or
`PushFail`, with or without the commit), `ReadTotals` (or `ReadFail`), `ApplyKey`
per key and `EndPass`. The store is external: counters that expire.

**`ClaimsCache`** (`auth/cache.rs` with `Auth::verify`): `Begin` reads both
clocks, `GetHit`/`GetMiss`/`Purge`/`DropSlot` are `get`, `Accept`/`Refuse` the
verifier's answer, the others `insert` with its reservation, sweep and retry.

**`JwksCache`** (`auth/jwks.rs`): lookups with the refresh slot; `Cancel` drops a
lookup at any await. The provider (`Remove`, `Publish`, `GoDown`, `ComeUp`,
`Respond`) is external.

**`Serve`** (`serve.rs`): the accept loop with its biased selects, handshakes,
stream tasks, winding down, drain, abort, and a dropped serve future. A failed
accept is skipped or pauses the loop (`AcceptSkips`, `AcceptPauses`). hyper and
the clients are external: a request may never end, nor a connection that was told
to.

**`IdleTimer`** (`serve/idle.rs`): every atomic operation of `enter`, of the
drop of `InFlight` and of `idle_for` is a step.

**`PathTemplates`** (`transcode/path.rs`, parts of `table.rs`): how a template is
mounted on the router, whether a path that matched follows it (`Fits`), which
bindings `Clash`. `UrlMatches` is the reference: the URLs a template names,
stated on the template as written.

**`Routing`** (`table.rs`, `transcode/mod.rs`, `lib.rs`, `service.rs`): `Declare`
adds bindings one by one, as `path_tables` does; `Start` drops paths the router
would refuse and runs the collision check; `Ask` answers a request twice,
`DirectAnswer` past any router and `RoutedAnswer` through axum. The text of a
segment is opaque except for its verb and its escapes. matchit's ranking and
axum's method routing are external, stated by what the code relies on.
`EmptyLast` is the code's own probe of the router (`empty_last_matches`).

**`LimitService`** (`shield/resolve.rs`): a request's `Ask`, with the load and
`Claim` of the sweep, `Retain` and `Trim` key by key, `Lookup`, `Mark` and `Spawn`
or `NoSlot`; a fetch task's `Respond` or `Failed`, `Count` and `Insert` (the two
halves of `insert_capped`), `Unmark` and `Release`. The service is external: its
limit of a key changes, and an answer is the limit of the moment. Times are ages
that stop counting where the code no longer tells them apart.

**`ClientAddress`** and **`ForwardingPath`** (`client_address.rs`): `Resolve` is
`Resolver::resolve` with its three sources, `Walk` the walk of X-Forwarded-For
right to left, `Apply` the rewriting of the forwarding headers by each of the
five policies. `ForwardingPath` puts proxies one behind another: `ProxyPass` is one of
them, `ForeignPass` a trusted proxy of another make (external). `Config` holds what
`Resolver::build` accepts, with X-Real-IP or one name of its own for the client
header and one for the audit header, all proxies having one list of trusted ones;
`Policies`, a constant, is the part of it the proxies are drawn from. Addresses are hosts in IPv4 or mapped form; an
element of a list may also be blank or no address.

**`Guards`** (`service.rs`, `guard.rs`, `guard/*.rs`, `held.rs`, `cors.rs`, and the
middleware of `auth/mod.rs`, `auth/authz.rs`, `auth/forward.rs`, `embed.rs` and
`shield/mod.rs`): a request goes through `Arrive`, `Gate` (required client,
maintenance, concurrency), `Charge` of the pre-auth phase, `Authenticate`, `Charge`
of the post-auth phase, `Authorize`, `Decider`, `Serve` or `Verify`, and `BodyEnds`,
skipping the guards whose scope does not cover it, and may be dropped (`Leaves`) at
any await. `Respond` carries an answer out through the limiters, the conversion to
a gRPC status (which drops the body, and the permit with it) and CORS. Local
budgets are counters that refill (`GcraStore` is their detail); what the fleet
store, the authorization server, the decider and the upstream answer is open.

**`ServerStream`** is the abstract promise of a transcoded call: messages in order,
none skipped, one verdict, a good one only when the upstream ended well.
**`TranscodedCall`** (`transcode/mod.rs`, `response.rs`, `httpbody.rs`, the status
mapping of `error.rs`) is the call itself, from the request's body to the end of
the response, unary or streamed as NDJSON, SSE or raw HttpBody. `Answering` are the
steps of the handler up to the headers, `Body` those hyper polls for as the client
takes bytes. The call implements
`ServerStream` (`KeepsPromise`): `sent` is what the route carries of the upstream's
messages (a unary route carries the first, and an empty message carries nothing;
`count` is how many were sent in all), `got` the data frames on the wire, `verdict`
what the end of the response says; an answer whose body the protocol forbids (HEAD, 204, 205, 304) maps to a
reader that stopped.

**`RequestBinding`** (`request.rs`, `request/presence.rs`): `Build` puts path, body
and query into one message, with `Presence` as the flat list of entries the code
keeps and `Blocks` as its scan of it. `Expected` is the reference: the value of a
field by precedence, without the order of reading. A text is good, bad, or out of
range in a message with a JSON form of its own.

**`StatusDetails`** and **`CanonicalTypes`** (`error.rs`): which details of an error
status are rendered, with `google.rpc.DebugInfo` scrubbed out of a tree of packed
messages; and the completion of a product's descriptors with the canonical ones it
lacks. The product's files may have any names, canonical ones included. prost-reflect's
pool is external.

`MCGlobalCounters`, `MCRouting`, `MCShield` (`GcraStore` and `LimitService`), `MCServe`
(`Serve` and `IdleTimer`), `MCAdmission` (`ForwardingPath`, `Guards` and
`ClaimsCache`) and `MCTranscode` (`TranscodedCall`, `RequestBinding`,
`StatusDetails` and `CanonicalTypes`) hold the instances; the last four check
their components part by part, a variable `part` saying which one a behaviour
exercises while the others rest. `GcraStoreProofs`, `GlobalCountersProofs`,
`AdmissionProofs` (`ClaimsCache`, `ForwardingPath` and `Guards`), `ServeProofs`
(`Serve` and `IdleTimer`), `JwksCacheProofs`, `LimitServiceProofs`,
`RoutingProofs` and `TranscodedCallProofs` (`TranscodedCall` and `CanonicalTypes`)
hold the theorems.

## Runs

| Run | Checks | Bounds, and why they are enough |
|---|---|---|
| `shield_local`, part store | `RateBound`, `VerdictTruthful`, `SweepThrottled` | one key, two requests, two tiers, four clock values, readings up to two units old. Two requests are what it takes for a reading to be overtaken, two units of lag exceed the sweep spacing, and the tiers differ in rate and burst |
| `shield_local`, part limits | `SingleFlight`, `CacheBounded`, `LimitNeverRegresses` | three keys, two requests, two fetches over a cache of one entry, one change of a limit. The cap can be passed by one and a third key shows where that ends; `Focus` lets requests overlap while at most two keys are in play, which keeps three keys affordable |
| `global_fleet` | `NeverDoublePublished`, `EstimateOfWindow` | two instances, one key, two requests, windows of 1 and 2 s, failing, unanswered and slow passes. The clock crosses a boundary of both windows, and requests reset the key from one window to the other while a pass is under way |
| `global_delivery` | `EventuallyPublished` | one instance, two requests at a time and three in all, three clock values; failures off, since a failed push drops its admits by design |
| `global_lone` | `LoneInstanceWithinBudget` is violated | one instance, one request at a time |
| `admission`, part claims | `SlotsAccounted`, `CachedAnswerFresh` | two requests, two tokens (one expiring, one not yet valid), two entries, a wall clock that moves both ways. Two requests on one token exercise the replacing insert, `max_entries` is reached and swept |
| `admission`, part path | `OriginKept`, `NeverForged` | three trusted proxies in every combination of source, policy and client header (none, X-Real-IP, or one of its own with an audit header, which nothing reads), a client that writes up to two elements of its own (one of them a proxy's address), `MAX_HOPS` of 2. Three proxies are two rewrites and a reader; the chain passes the cap |
| `admission`, part guards | `PermitsConserved`, `VettedInOrder`, `HeadersGenuine`, `TightestReported`, `RefusedInGrpc` | two requests of 17 kinds, one permit, budgets of 2 and 1, under four configurations: concurrency, shield and token policy on everything; token policy narrowed to paths, with the authorization server failing open and a decider; maintenance narrowed, a shield with a fleet budget and authorization failing closed; and one guard that does not cover gRPC. Two requests compete for the permit and for a budget |
| `jwks` | `RevokedKeyRetired`, `RefreshSpaced`, `NoLookupStuck` | two lookups, one key that leaves and returns, five clock values against `max_age` 2 and refresh spacing 2, so that a set ages and is refetched twice |
| `jwks_cancel` | `RevocationBound` is violated | the same with a reachable provider and a longer clock |
| `serve`, part loop | `SlotsConserved`, `DrainComplete`, `ShutdownEnds`, `BacklogServed` | three clients, two slots, two requests: one client always waits; every option on. A client waits for ever only where accepts go on failing, or every slot is held for ever by a connection that goes on having requests, is upgraded, or was told to close and waits for its client |
| `serve`, part idle | `SleepUndisturbed`, `EventuallyIdle` | two overlapping requests, four in all, a timeout of two ticks |
| `routing` | `DirectServesAsRouter`, `AnswersMatch`, `UrlOwned`, `ConstrainedFirst`, `OthersNotOvertaken` | every sequence of up to three of 16 rules beside four sets of other routes, three methods, 16 paths. The rules hold every kind of piece and verb and pairs that share a path, overlap, clash and conflict; three rules are two that interact and one between them in the ranking |
| `routing_allow` | `AllowComplete` is violated | the same |
| `transcode`, part call | `KeepsPromise` (refinement), `FailureVisible`, `HeadersPassed`, `ResponseEnds` | every kind of route, HEAD and SSE or not, up to two messages of every kind, four sets of metadata before and after them. Two messages are one before and one after an error or an end. The client may leave, or stay and stop reading |
| `transcode`, part bind | `BoundAsSaid`, `RefusedForCause` | a message with a oneof, a list, a nested and a special message and JSON names of their own; bodies of up to two keys, queries of up to two pairs in every order, path parameters that are good, bad or nested |
| `transcode`, part details | `DetailsFaithful` | messages packed up to three deep, up to three details, four lists of rules. What is rendered is compared with what was sent, field by field and in order: only what DebugInfo costs may be missing |
| `transcode`, part pool | `LostForCause` | four canonical files, each type defined by the product in the canonical file, in either of two of its own, or not at all, beside files of canonical names, or of the name of a renamed copy, that define nothing |
| `canonical_hollow` | `CanonicalAvailable` is violated | the same products, without the names of renamed copies |

Requests and instances are interchangeable where a run uses symmetry, and no
liveness property is checked under symmetry. Deadlock is checked except in
`serve` and `transcode` (which end), in `admission` (the path ends at the last
proxy) and in `routing` (a refused start stops the proxy, and one request per
configuration is asked, as requests change no table).

Fairness: `global_delivery` assumes that the reconcile task keeps ticking and its
store answers. `jwks` assumes that a runnable task runs, that a fetch ends by its
HTTP timeout, and that tokio's mutex is fair (strong fairness of `Acquire`), which
tokio documents. `serve` assumes that tasks and timers run and that the kernel
hands over its backlog in order unless the accept fails (strong fairness of
`Accept(c) \/ AcceptPauses`). It assumes nothing of requests, which need not end, nor
of clients: after `graceful_shutdown` the connection is awaited without a bound, so a
client that does not answer keeps its slot until the drain expires, and `BacklogServed`
counts that among its causes. Its part `idle` assumes that time passes and
that requests end, without which no connection is idle. `transcode` assumes that
the runtime polls a handler that can go on (`Answering`) and that the deadline of an
opening call fires. The upstream may stall for ever, and the body's steps have no
fairness, as hyper polls a body only while the client takes it: that the client does
is a hypothesis of `ResponseEnds` (`WF_vars(Body)`), in the one conjunct that needs it.

## Proofs

| Theorem | Statement | Argument |
|---|---|---|
| `GcraStoreProofs!TypeCorrect` | types | inductive as it stands |
| `GcraStoreProofs!RateLimited` | `RateBound` for all keys, limiters, requests and staleness | `RateInv` adds `LagBound` (a reading is at most `MaxLag` old) and `Ledger` (the TAT has advanced by the interval of every admitted request, up to evictions; an evicted key's debt is before the clock). `RateBound` alone says nothing of the TAT, so it is not inductive |
| `GcraStoreProofs!EvictionTransparent` | with current readings a sweep is unobservable: tracked keys have the TAT of a store that never evicts | `EvictionInv`, the same with `LagBound` at `MaxLag = 0` |
| `GcraStoreProofs!SweepsSpaced` | `SweepThrottled` | `ClaimIsDue`: a request about to swap read a clock past the spacing of the value it compares with |
| `GcraStoreProofs!VerdictsTruthful` | `VerdictTruthful` | arithmetic of floor division (`DivBrackets`, `DivUnique`) |
| `GlobalCountersProofs!TypeCorrect` | types | inductive; `RollTo` and `Reading` are typed by lemmas |
| `GlobalCountersProofs!NeverDouble` | `NeverDoublePublished` for any fleet, whatever fails | inductive with the types: every step moves admits between the entry, the plan and the store or drops them; rolling never adds to an epoch |
| `AdmissionProofs!TypeCorrect`, `SlotsKept` | the slot counter never wraps and equals what the map and the steps under way account for | `CacheInv` adds `SweepState`: what a sweep freed it has visited, and only a sweep holds freed slots |
| `AdmissionProofs!AnswersFresh` | `CachedAnswerFresh`, an action property, for any number of requests and both clocks | `FreshInv`: no reading and no verification is of the future, claims on their way into the cache were verified after their request's reading, and an entry ends by `exp` and by `max_ttl_secs` past its token's last verification. Without the second part a slow verification could store an entry that outlives the bound |
| `AdmissionProofs!OriginIsKept`, `ClientNeverForged` | `OriginKept`, `NeverForged` for a path of any number of proxies, every list a client writes, every `MAX_HOPS` | `PathInv` adds `Genuine` (a proxy sees the one before it, and the list it gets ends in a trail of the route), `Rewritten` (a list that was rewritten names the client first, then proxies in order) and `OriginListed` (the true client is in the list, close enough to its end for the walk): the properties speak of what was read, not of the list the next proxy will read. The walk of one proxy is an induction from the right end of the list |
| `ServeProofs!TypeCorrect`, `SlotsKept`, `DrainLeavesNothing` | `SlotsConserved`, `DrainComplete` for any number of clients and any options | `ServeInv` adds `Owned` (every running connection is a task of the JoinSet), `BacklogClosed` and `AbortJoined`, without which an abort could miss a connection |
| `ServeProofs!ActivityCounted`, `SleepKept` | the counter of `Activity` is the number of requests in flight and never wraps; `SleepUndisturbed` for any timeout and requests | `IdleInv` adds `Noticed` (a request in flight during a sleep has disturbed it) and `Signalled` (a disturbed sleep has time left, and its permit is there or a request is about to leave it), so that no time passes before the task is woken |
| `JwksCacheProofs!TypeCorrect`, `RevocationHonoured`, `FetchesSpaced` | types, `RevokedKeyRetired`, `RefreshSpaced` for any keys, lookups, ages and timeouts | `JwksInv` adds `PastTimes`, `SlotOwned` (the refresh slot has one owner, who is fetching), `AnswersCurrent` (what a fetch carries is what the provider had since it started), and `LastSettled` and `RereadSettled`, which tie the throttle's time stamp to the age of the set while no fetch was dropped |
| `LimitServiceProofs!TypeCorrect`, `OneFetchPerKey`, `SoftCapHolds`, `LimitsNeverGoBack` | types, `SingleFlight`, `CacheBounded`, `LimitNeverRegresses` for any keys, requests, tasks and caps | `LimitInv` adds `OwnersApart` (no two owners of marks share a key), `SlotsHeld` and `RoomLeft` (entries and inserts that saw room fit the cap and the slots together), and `AnswersInOrder` (an answer on its way is no older than what the cache knows). `CacheBounded` alone is not inductive: it does not see the inserts that have already counted |
| `AdmissionProofs!GuardsSound` and `PermitsKept`, `NothingUnvetted`, `HeadersProxyOwned`, `BudgetsTightest`, `GrpcAnswersTrue` | `PermitsConserved`, `VettedInOrder`, `HeadersGenuine`, `TightestReported`, `RefusedInGrpc` for every configuration, every kind and number of requests and whatever is answered | `GuardInv`: types, no bucket above its limit, every permit free or with one request, and of every request nine facts (`RequestSound`) that tie the stage it is at to the guards that cover it, those it passed, what it was charged, whose words its headers are and what it is answered. A step changes one request; the others' facts are carried over by a frame lemma |
| `TranscodedCallProofs!CallSound`, `FailuresShown`, `NoCallHeld` | `FailureVisible`, and that a finished response holds no call, for any routes, metadata, statuses and number of messages | `CallInv`: types, where the upstream can be while the proxy is in a phase (`InStep`), and for a stream that the frames on the wire are what was sent up to what is still in the pipe (`StreamInStep`). Empty messages are skipped on the way, so `Fits` says so by an alignment of the pipe with the rest of `sent` |
| `TranscodedCallProofs!HeadersArePassed` | `HeadersPassed` for any metadata | `HeadersInv` adds that there is no metadata before the upstream's headers. That `Absorb` keeps only what may pass, and of two lists what it keeps of each, in order, are inductions over the metadata |
| `TranscodedCallProofs!PromiseKept` | `Spec => KeepsPromise`: a transcoded call implements `ServerStream` | step simulation: under `CallInv` every action maps to `Send`, `End`, `Deliver`, `CloseOk`, `StopEarly` or no step. One lemma per action; answers that fail, bodies that end and messages that are delivered are lemmas of their own |
| `TranscodedCallProofs!CanonicalCompleted` | `LostForCause` for any canonical files listed dependencies first and any product that is a valid pool | induction over the canonical files (`Merged`): the pool holds the product's files and copies, no type is in two of them, what is imported for a canonical file that is neither `Hollow` nor `Lost` is there and defines its types (`Provides`), and every file lost so far has its cause. Without `Provides` a copy could be refused for an import, and its types left out without one |
| `RoutingProofs!RoutesSound` and `DirectIsRouter`, `NoneOvertaking`, `AnswersAreNamed`, `ConstrainedAreFirst`, `UrlsAreOwned` | `DirectServesAsRouter`, `OthersNotOvertaken`, `AnswersMatch`, `ConstrainedFirst`, `UrlOwned` for any rules declared in any order, any other routes, paths of any length | `RoutesInv`: the types with `TablesOK` (a table holds mounts of its own router path, the constrained ones before the open), `Checked` (the startup check ruled out other routes for all methods at a table's path, and nothing is answered before it) and the five properties of the last answer. See below |

`RoutingProofs` is three arguments put together. First, `EachInRank`: by induction
on the segments to go, `Index::each` lists exactly the router paths that match, in
the router's rank order; so walking that list and asking the router are the same
choice. Second, `NamedIs`: a template names a path, as `UrlMatches` reads it, exactly
when its mounted path matches and `Binding::fits` lets it through. It is shown piece
by piece, the last piece apart, since only it can be a catch-all with a template of
its own; for that one `follows` is an induction on the parts of the template.
Third, every answer is traced to tables (`Given`: it is the binding or the 405 of one of some tables; `Whole`: no
table that holds the URL has a better one) and with the second part from tables to
templates (`Resolved`). `ConstrainedFirst` comes from the order `PathTable::add`
keeps.

The proofs use the named assumptions of the modules: limiters as `from_profile`
builds them (`LimiterAssumption`), non-zero windows, finite sets of clients,
tokens and requests, non-zero timeouts (`ServeAssumption`, `IdleAssumption`,
`CacheAssumption`, `JwksAssumption`, `LimitAssumption`); in `GuardAssumption`, kinds
of requests that are well formed, limits that are numbers, a CORS policy the code
knows and codes that are gRPC's; in `CallAssumption`, routes that are well formed,
metadata that are sequences of pairs and a status with code OK that is OK; in
`PathAssumption`, proxies on the path that are trusted and a client that is not; in
`PoliciesAssumption`, configurations that can be built; in
`CanonicalAssumption` and `ProductsAssumption`, valid descriptor pools (every name and
every type once) and nothing more of a product; in `RoutingAssumption`, templates of the grammar (`WellFormed`), other routes that are
router paths, and request paths that hold a segment and do not spell a capture. Every one is evaluated by TLC in the runs of the MC
module that extends its module. The types of the modules with theorems
are proved and so not checked by a run as well.

Induction over data is done with a set in place of a property (`Induction`: a set of
numbers that holds 0 and with every number the next holds them all), over recursive
functions (`FlattenSeq` among them), whose unfolding is proved from their definitions.

Only model-checked:

- liveness, which needs fairness: `EventuallyPublished`, `NoLookupStuck`,
  `ShutdownEnds`, `BacklogServed`, `EventuallyIdle` and the first three
  conjuncts of `ResponseEnds`;
- `EstimateOfWindow`: what a pass has read is tied to what the store held at some
  moment since its claim, an invariant over every phase of a pass that has not been
  stated yet;
- `DetailsFaithful`: `StatusDetails` walks a tree of packed messages by a recursive
  operator, which the prover does not take;
- `BoundAsSaid` and `RefusedForCause`: `RequestBinding` is a nest of folds over lists
  and sets of entries, whose inductions have not been carried out.

## Disagreements and observations

The four violated properties are findings of `PROJECT.json`:

- `global_lone`: the module doc of `shield/global.rs` bounds the overshoot by the
  traffic of the *other* instances. Between a pass's claim and its estimate an
  instance also forgets its own admits, so even one instance on its own exceeds
  the budget.
- `jwks_cancel`: `refresh` stamps `last_refresh` before the fetch. When the
  request that fetches goes away, the next ones are throttled and answer from the
  aged set; repeated, this outlasts the bound the repository's README gives.
- `routing_allow`: a 405 lists the methods of one table, although the request was
  offered to several and another of them answers another method.
- `canonical_hollow`: `complete_with_canonical` takes a product file with the name of a
  canonical one for that file once the product defines all of its types, wherever it
  does. No stand-in is recorded, so a canonical file that imports it is added with an
  import that does not provide what it uses, is refused by the pool and left out, with
  the types it would have added, although the comments say they are always available.
  `LostForCause` says that this, or a product file with the name of a renamed copy, is
  the only way to lose one.

Smaller ones, for readers of the code:

- `evict_drained` tests keys with the reading of the request that sweeps. A
  request with an older reading than that can find its key gone and start afresh;
  each such eviction is worth at most the lag between the readings (`lost` in
  `RateBound`), and nothing when readings are current (`EvictionTransparent`).
- A failed push drops the claimed admits. The comments at the claim speak of
  neither doubling nor dropping; the field docs and the log message say dropped.
  The model drops them.
- A request that crosses two boundaries between its reading and its update can
  roll an entry back and forth; admits carried over are then dropped, never
  moved (`NeverDoublePublished` holds, `EventuallyPublished` needs `StaleReads` and
  `SlowPasses` off).
- `StreamExecutor::close` says "No new stream after this"; `TaskTracker::close`
  only lets the wait end, and a stream opened before the client sees the GOAWAY
  still starts. `DrainComplete` holds all the same: the connections are joined
  first.
- `idle_for` can resolve although a request started and ended at the very moment
  its sleep had elapsed (`select` then has two branches to choose from). The
  connection is only wound down gracefully, so nothing is lost;
  `SleepUndisturbed` is about the sleep before that moment.
- Where another route answers GET at the path of a table with a HEAD binding, a
  HEAD that binding's template refuses can be answered by a lower-ranked table
  although the other route would answer it. `OthersNotOvertaken` follows the
  code's own notion of whose request it is (`Ranked::theirs`).
- The doc of `LimitService::fetch` says that on `Err` "the cache should be left
  untouched"; `trigger_refresh` counts a known limit as just fetched and stores a
  negative entry for an unknown key. The model follows `trigger_refresh`.
- After the response headers of the upstream are in, no deadline runs: a stream,
  and the trailers of a unary call, may stall as long as the client stays.
  `ResponseEnds` is about the time before, and about an upstream that ended.
- A bare NDJSON line whose message is itself a `google.rpc.Status` packed in an Any
  reads as an error line, as the doc of `STATUS_TYPE_URL` says; `FailureVisible`
  makes that one exception, and none with the envelope.

## What is not modelled

Signatures, TLS and certificate files, command line and logging, configuration
parsing, OIDC and OpenAPI documents: they keep no state and are tables or library
calls. hyper, tonic, axum, matchit, Redis, the identity provider and the
authorization server appear as external actions or operators. Within modelled
parts:

- `Guards`: whether a scope's paths match, which shield rule a request meets and at
  which tier are flags of the request (`inside`, `target`, `rules`); verified users
  share a bucket, and limits keyed by a header are left out. The verifier is its
  verdict. The attributes sent to the authorization server are left out.
- `TranscodedCall`: request metadata (`metadata.rs`), CONNECT and Content-Length,
  decompression and the size limit except as the refusal it ends in.
- `RequestBinding`: the text of single values, map entries in a query, error
  messages; of a refusal only that there is one is kept.
- `Routing`: the decoding of captures and `bind_params`.
- `JwksCache`: which keys of a document are usable (`parse_jwks`).
- `LimitService`: limits read from token claims.

## Plan

1. Proofs: `RequestBinding` against `Expected`, by the inductions that served
   `RoutingProofs`; `StatusDetails` once its walk is a function over depths; in
   `ClaimsCache` that the sweeps of a full cache are distinct.
2. `Shield`: one `charge` through `GcraStore`, `GlobalCounters` and `LimitService`
   at once, where `Guards` has counters, against an abstract limiter that admits by
   some budget between the local and the fleet one.
3. `LimitService`: that a key asked for again and again ends up with the service's
   limit while slots are free, and limits read from token claims.
4. `bind_params`, `capture` and `parse_jwks`, against reference definitions.
5. `GlobalCounters`: exact accounting of dropped admits in place of the three
   flags; `EstimateOfWindow` as a theorem.
