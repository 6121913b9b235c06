---------------------------- MODULE ClientAddress ----------------------------
(***************************************************************************)
(* Who the client is (client_address.rs): the trusted proxies, the walk of *)
(* X-Forwarded-For, X-Real-IP and the cleaned report, and the forwarding   *)
(* headers the request leaves with.                                        *)
(***************************************************************************)
EXTENDS Naturals, SequencesExt

CONSTANT MaxHops   \* MAX_HOPS, 32 in the code

-----------------------------------------------------------------------------
\* An address is a host in IPv4 form or in IPv4-mapped IPv6 form.  An element
\* of a header's list is an address (a port on it is dropped), empty, or not an
\* address at all, which one longer than MAX_ELEMENT is too.
V4(host) == <<host, "v4">>
Mapped(host) == <<host, "mapped">>
Blank == <<"none", "blank">>
Junk == <<"none", "junk">>

NoAddress == <<"none", "none">>
ParseAddress(element) == IF element[2] \in {"v4", "mapped"} THEN element ELSE NoAddress
\* Fault: an address is compared in the form it was written in.
AsWritten(ip) == ip
Canonical(ip) == V4(ip[1])

\* parse_trusted: the ranges, in the form peers are compared in.
TrustedNets(entries) == {Canonical(e) : e \in entries}
Trusts(cfg, ip) == ip \in TrustedNets(cfg.trusted)

\* The client-address headers, which no guard may set, and those the policy
\* adds to them.
Owned == {"x-forwarded-for", "x-real-ip", "forwarded"}
ConfiguredHeaders(cfg) == {cfg.clientHeader, cfg.auditHeader} \ {"none"}
Reserves(cfg, name) == name \in Owned \cup ConfiguredHeaders(cfg)

\* Resolver::build refuses header names the forwarding already writes.
Buildable(cfg) ==
  /\ cfg.clientHeader \notin {"x-forwarded-for", "forwarded"}
  /\ cfg.auditHeader = "none" \/ cfg.auditHeader \notin Owned \cup {cfg.clientHeader}

-----------------------------------------------------------------------------
Ok(ip) == [result |-> "ok", ip |-> ip]
Err(why) == [result |-> why, ip |-> NoAddress]

\* One element of the walk, which goes right to left and stops at the first
\* result.
Start == [read |-> 0, leftmost |-> NoAddress, hops |-> <<>>, out |-> Err("walking")]

\* Fault: an element that is no address is skipped.
WalkStepSkipping(cfg, w, element) ==
  LET ip == Canonical(ParseAddress(element))
  IN IF w.out.result # "walking" THEN w
     ELSE IF w.read = MaxHops THEN [w EXCEPT !.out = Err("too_many_hops")]
     ELSE IF element \in {Blank, Junk} THEN [w EXCEPT !.read = @ + 1]
     ELSE IF ~Trusts(cfg, ip) THEN [w EXCEPT !.out = Ok(ip)]
     ELSE [w EXCEPT !.read = @ + 1, !.leftmost = ip, !.hops = Append(@, ip)]

WalkStep(cfg, w, element) ==
  LET ip == Canonical(ParseAddress(element))
  IN IF w.out.result # "walking" THEN w
     ELSE IF w.read = MaxHops THEN [w EXCEPT !.out = Err("too_many_hops")]
     ELSE IF element = Blank THEN [w EXCEPT !.read = @ + 1]
     ELSE IF ParseAddress(element) = NoAddress THEN [w EXCEPT !.out = Err("malformed")]
     ELSE IF ~Trusts(cfg, ip) THEN [w EXCEPT !.out = Ok(ip)]
     ELSE [w EXCEPT !.read = @ + 1, !.leftmost = ip, !.hops = Append(@, ip)]

\* Every hop trusted: the leftmost is the client, not a hop.
Walked(w) ==
  IF w.out.result # "walking" THEN w
  ELSE [w EXCEPT !.out = Ok(w.leftmost),
                 !.hops = IF w.leftmost = NoAddress THEN @ ELSE Front(@)]

\* The walk after each number of elements.
Walking(cfg, chain) ==
  LET walk[n \in 0 .. Len(chain)] ==
        IF n = 0 THEN Start ELSE WalkStep(cfg, walk[n - 1], chain[Len(chain) - n + 1])
  IN walk

\* The field lines form one list.
Walk(cfg, lines) ==
  LET chain == FlattenSeq(lines) IN Walked(Walking(cfg, chain)[Len(chain)])

RealIp(lines) ==
  CASE Len(lines) = 0 -> Ok(NoAddress)
    [] Len(lines) > 1 -> Err("repeated")
    [] OTHER -> IF Len(lines[1]) = 1 /\ ParseAddress(lines[1][1]) # NoAddress
                THEN Ok(Canonical(lines[1][1])) ELSE Err("malformed")

\* A cleaned report stands only when every assertion of an address agrees.
CleanedReport(headers) ==
  LET reported == RealIp(headers["x-real-ip"])
      chain == headers["x-forwarded-for"]
      agrees == /\ headers["forwarded"] = <<>>
                /\ \/ chain = <<>>
                   \/ Len(chain) = 1 /\ reported.ip # NoAddress /\ RealIp(chain) = reported
  IN IF reported.result = "ok" /\ ~agrees THEN Err("conflicting") ELSE reported

\* What the trusted peer forwarded.
Forwarded(cfg, headers) ==
  CASE cfg.header = "x_forwarded_for" -> Walk(cfg, headers["x-forwarded-for"]).out
    [] cfg.header = "x_real_ip" -> RealIp(headers["x-real-ip"])
    [] cfg.header = "cleaned_report" -> CleanedReport(headers)

NoPeer == NoAddress
Resolution(how, ip) == [how |-> how, ip |-> ip]

\* resolve_noting: Peer, Forwarded, Invalid (by its reason) or Unavailable.
Resolve(cfg, peer, headers) ==
  LET forwarded == Forwarded(cfg, headers)
  IN CASE peer = NoPeer -> Resolution("unavailable", NoAddress)
       [] peer # NoPeer /\ ~Trusts(cfg, Canonical(peer)) -> Resolution("peer", Canonical(peer))
       [] peer # NoPeer /\ Trusts(cfg, Canonical(peer)) ->
            CASE forwarded.result # "ok" -> Resolution(forwarded.result, NoAddress)
              [] forwarded.result = "ok" /\ forwarded.ip # NoAddress ->
                   Resolution("forwarded", forwarded.ip)
              [] forwarded = Ok(NoAddress) ->
                   IF cfg.required THEN Resolution("unavailable", NoAddress)
                   ELSE Resolution("peer", Canonical(peer))

-----------------------------------------------------------------------------
\* The headers the request leaves with: a field is a sequence of lines, a line
\* a sequence of elements.

Hops(cfg, peer, headers) ==
  IF Trusts(cfg, Canonical(peer)) /\ cfg.header = "x_forwarded_for"
  THEN Walk(cfg, headers["x-forwarded-for"]).hops ELSE <<>>

VerifiedChain(client, peer, hops) ==
  CASE client.how = "peer" -> << <<client.ip>> >>
    [] client.how = "forwarded" ->
         << <<client.ip>> \o Reverse(hops) \o <<Canonical(peer)>> >>
    [] OTHER -> <<>>

AppendedChain(lines, peer) ==
  CASE peer # NoPeer -> << Append(FlattenSeq(lines), Canonical(peer)) >>
    [] peer = NoPeer -> IF lines = <<>> THEN <<>> ELSE << FlattenSeq(lines) >>

\* The resolved address as a header value, when one resolved.
HeaderValue(client) == IF client.ip = NoAddress THEN <<>> ELSE << <<client.ip>> >>

ForwardedFor(cfg, client, peer, headers) ==
  CASE cfg.forward = "verified" -> VerifiedChain(client, peer, Hops(cfg, peer, headers))
    [] cfg.forward = "resolved" -> HeaderValue(client)
    [] cfg.forward = "append" -> AppendedChain(headers["x-forwarded-for"], peer)
    [] cfg.forward = "remove" -> <<>>

SetHeader(headers, name, lines) ==
  IF name = "none" THEN headers ELSE [headers EXCEPT ![name] = lines]

\* Resolver::apply: the audit header, X-Forwarded-For by the mode, the client
\* header last.
Apply(cfg, peer, headers) ==
  LET client == Resolve(cfg, peer, headers)
      audited == SetHeader(headers, cfg.auditHeader, headers["x-forwarded-for"])
      rewritten == IF cfg.forward = "preserve" THEN audited
                   ELSE [audited EXCEPT
                           !["x-forwarded-for"] = ForwardedFor(cfg, client, peer, headers),
                           !["x-real-ip"] = <<>>, !["forwarded"] = <<>>]
  IN SetHeader(rewritten, cfg.clientHeader, HeaderValue(client))
=============================================================================
