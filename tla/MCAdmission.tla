----------------------------- MODULE MCAdmission -----------------------------
(***************************************************************************)
(* What a request meets before the upstream, part by part in one run: the  *)
(* proxies its address comes through, the guards, or the cache of verified *)
(* claims.                                                                 *)
(***************************************************************************)
EXTENDS ForwardingPath, Guards, ClaimsCache, TLC

CONSTANTS t1, t2

VARIABLE part   \* the part that runs

mcVars == <<part, pathVars, guardVars, vars>>
Symmetry == Permutations(Request) \cup Permutations(Proc)

-----------------------------------------------------------------------------
\* Three trusted proxies, one listed in IPv6 form, and a client that writes up to
\* two elements of its own, one of them a proxy's address.
Proxies == <<"p1", "p2", "p3">>
TrustedProxies == {V4("p1"), Mapped("p2"), V4("p3")}
\* Every mode and header; the header the client's address goes into is none, X-Real-IP
\* or one of its own, the last with an audit header, which no proxy reads.
AllModes ==
  {conf \in Config : conf.auditHeader = IF conf.clientHeader = "x-client" THEN "x-audit" ELSE "none"}
Lies == {V4("x"), Mapped("p1")}

-----------------------------------------------------------------------------
\* The guards: the limits and the token policy on everything; narrowed scopes with
\* an authorization server that fails open, and a decider; maintenance, a fleet
\* budget and authorization that fails closed; and a guard that spares gRPC.
LimitOf == [pre |-> 2, post |-> 1]
PeriodOf == [pre |-> 3, post |-> 5]

All == {"transcoded", "endpoints", "grpc", "fallback"}
Guard == {"require_client", "maintenance", "concurrency", "shield", "auth", "authz", "decider"}
On(traffic) == [traffic |-> traffic, narrows |-> FALSE]
Narrow(traffic) == [traffic |-> traffic, narrows |-> TRUE]
Scopes(on) == on @@ [g \in Guard |-> On({})]
Policy(everywhere, requires) == [everywhere |-> everywhere, requires |-> requires]

GuardConfigs ==
  {[scopes |-> Scopes("concurrency" :> On(All) @@ "shield" :> On(All) @@ "auth" :> On(All)),
    policies |-> <<Policy(FALSE, "role"), Policy(TRUE, "auth")>>,
    failOpen |-> FALSE, fleet |-> FALSE, cors |-> "any", webCors |-> TRUE],
   [scopes |-> Scopes("auth" :> Narrow(All) @@ "authz" :> On(All) @@ "decider" :> On(All)
                        @@ "require_client" :> Narrow(All) @@ "concurrency" :> On({"grpc"})),
    policies |-> <<Policy(FALSE, "auth")>>,
    failOpen |-> TRUE, fleet |-> FALSE, cors |-> "listed", webCors |-> TRUE],
   [scopes |-> Scopes("maintenance" :> Narrow(All) @@ "shield" :> Narrow({"grpc", "transcoded"})
                        @@ "authz" :> On({"transcoded"})),
    policies |-> <<>>,
    failOpen |-> FALSE, fleet |-> TRUE, cors |-> "listed", webCors |-> FALSE],
   [scopes |-> Scopes("require_client" :> On({"endpoints", "fallback"})),
    policies |-> <<Policy(TRUE, "role")>>,
    failOpen |-> FALSE, fleet |-> FALSE, cors |-> "any", webCors |-> FALSE]}

Kind(speaks, route, inside, who, bearer) ==
  [speaks |-> speaks, route |-> route, inside |-> inside, rules |-> {"pre", "post"},
   target |-> inside, exempt |-> FALSE, client |-> who, token |-> bearer, origin |-> "listed"]
RequestKinds ==
  {Kind("http", "transcoded", TRUE, "client", "valid"), Kind("http", "transcoded", FALSE, "client", "none"),
   Kind("http", "endpoints", TRUE, "unknown", "weak"), Kind("http", "endpoints", FALSE, "client", "invalid"),
   Kind("http", "verify", FALSE, "client", "weak"), Kind("http", "verify", TRUE, "client", "none"),
   Kind("http", "fallback", TRUE, "invalid", "weak"),
   [Kind("http", "transcoded", TRUE, "client", "none") EXCEPT !.exempt = TRUE],
   Kind("grpc", "fallback", TRUE, "client", "valid"), Kind("grpc", "fallback", TRUE, "client", "weak"),
   [Kind("grpc", "fallback", FALSE, "client", "weak") EXCEPT !.rules = {"post"}],
   [Kind("grpc", "fallback", TRUE, "invalid", "none") EXCEPT !.target = FALSE],
   Kind("web", "fallback", TRUE, "client", "none"),
   [Kind("web", "fallback", TRUE, "client", "valid") EXCEPT !.origin = "other", !.exempt = TRUE],
   Kind("web_preflight", "fallback", TRUE, "client", "none"),
   [Kind("preflight", "fallback", TRUE, "client", "none") EXCEPT !.target = FALSE],
   [Kind("preflight", "endpoints", TRUE, "client", "none") EXCEPT !.origin = "other"]}
Check(code, http, added) == [code |-> code, http |-> http, headers |-> added]
ServerChecks ==
  {Check("ok", 0, {"address", "claim", "extra"}), Check("none", 200, {}), Check("failed", 0, {}),
   Check("unauthenticated", 403, {}), Check("permission_denied", 0, {})}
DeciderDecisions ==
  {[is |-> "allow", http |-> 0, headers |-> {"address", "extra"}],
   [is |-> "deny", http |-> 200, headers |-> {}], [is |-> "redirect", http |-> 0, headers |-> {}]}

-----------------------------------------------------------------------------
\* The claims: t1 expires and is not valid at once; t2 outlives the run.
ExpOf == t1 :> 2 @@ t2 :> 3
NbfOf == t1 :> 1 @@ t2 :> 0

-----------------------------------------------------------------------------
Resting(active) ==
  /\ active # "path" => /\ at = 0 /\ peer = NoPeer /\ headers = <<>>
                        /\ client = Resolution("unavailable", NoAddress)
                        /\ last = [forward |-> "none", header |-> "none"]
                        /\ kept = FALSE /\ honest = FALSE
  /\ active # "guards" => cfg = CHOOSE c \in Configs : TRUE
  /\ active # "claims" => unix = 0 /\ token = [p \in Proc |-> t1]

MCInit ==
  /\ part \in {"path", "guards", "claims"}
  /\ Resting(part) /\ GuardInit /\ Init
  /\ part = "path" => PathInit

PathStep == part = "path" /\ PathNext /\ UNCHANGED <<part, guardVars, vars>>
GuardStep == part = "guards" /\ GuardNext /\ UNCHANGED <<part, pathVars, vars>>
ClaimsStep == part = "claims" /\ Next /\ UNCHANGED <<part, pathVars, guardVars>>
MCNext == PathStep \/ GuardStep \/ ClaimsStep
MCSpec == MCInit /\ [][MCNext]_mcVars

=============================================================================
