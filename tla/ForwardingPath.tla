--------------------------- MODULE ForwardingPath ---------------------------
(***************************************************************************)
(* A request on its way through several proxies, each one resolving the    *)
(* client and rewriting the forwarding headers by its own policy           *)
(* (Resolver::apply, ClientAddressService).  The client writes whatever it *)
(* likes into the headers it sends; what each proxy then reads was left by *)
(* the proxy before it.                                                    *)
(***************************************************************************)
EXTENDS ClientAddress

CONSTANTS
  Origin,   \* the client's host, which no proxy trusts
  Path,     \* the hosts of the proxies, in the order the request meets them
  Trusted,  \* trusted_proxies of every one of them
  Policies, \* the configurations they may have otherwise
  Forged,   \* the elements the client writes
  MaxForged \* bound: elements of X-Forwarded-For the client writes

\* The proxies trust each other, in whichever form they are listed, and not the
\* client.
ASSUME PathAssumption ==
  /\ MaxHops \in Nat /\ MaxForged \in Nat /\ Path \in Seq(ToSet(Path))
  /\ \A i \in DOMAIN Path : V4(Path[i]) \in Trusted \/ Mapped(Path[i]) \in Trusted
  /\ V4(Origin) \notin Trusted /\ Mapped(Origin) \notin Trusted
  /\ Trusted \subseteq {V4(e[1]) : e \in Trusted} \cup {Mapped(e[1]) : e \in Trusted}

VARIABLES
  at,       \* proxies passed so far
  peer,     \* the peer the next proxy sees
  headers,  \* the request's forwarding headers
  client,   \* what the last proxy resolved
  last,     \* the configuration of the last proxy
  kept,     \* history: every proxy but the last appended to the chain, or resolved
            \* the client and wrote it
  honest    \* history: no proxy but the last forwarded what it was sent as it is

pathVars == <<at, peer, headers, client, last, kept, honest>>

\* What Resolver::build makes of a configuration, for any of the two header names
\* or none.
Config ==
  {cfg \in [trusted : {Trusted}, header : {"x_forwarded_for", "x_real_ip", "cleaned_report"},
            required : BOOLEAN,
            forward : {"verified", "resolved", "append", "preserve", "remove"},
            clientHeader : {"none", "x-real-ip", "x-client"}, auditHeader : {"none", "x-audit"}] :
     Buildable(cfg)}
ASSUME PoliciesAssumption == Policies \subseteq Config

\* Lists of at most n elements, on one line or one to a line.
Lines(n) ==
  LET lists == {list \in BoundedSeq(Forged, n) : list # <<>>}
  IN {<<>>} \cup {<<list>> : list \in lists}
       \cup {[i \in DOMAIN list |-> <<list[i]>>] : list \in lists}

\* What the client sends: a list of its own, and the other headers, which it has
\* no business to send, or none of them.
Names == {"x-forwarded-for", "x-real-ip", "forwarded", "x-client", "x-audit"}
Sent ==
  {[n \in Names |-> IF n = "x-forwarded-for" THEN list ELSE others] :
     list \in Lines(MaxForged), others \in {<<>>, << <<V4("x")>> >>}}

Noted(cfg) == [forward |-> cfg.forward, header |-> cfg.header]

\* Its address is recorded in either form, or not at all.
PathInit ==
  /\ at = 0 /\ peer \in {V4(Origin), Mapped(Origin), NoPeer} /\ headers \in Sent
  /\ client = Resolution("unavailable", NoAddress)
  /\ last = [forward |-> "none", header |-> "none"]
  /\ kept = (peer # NoPeer) /\ honest = (peer # NoPeer)

ProxyPass(cfg) ==
  /\ at < Len(Path) /\ at' = at + 1
  /\ client' = Resolve(cfg, peer, headers)
  /\ headers' = Apply(cfg, peer, headers)
  /\ peer' \in {V4(Path[at + 1]), Mapped(Path[at + 1])}
  /\ kept' = (kept /\ (\/ at = 0
                       \/ last.forward = "append"
                       \/ last.forward \in {"verified", "resolved"} /\ client.ip = V4(Origin)))
  /\ honest' = (honest /\ last.forward # "preserve")
  /\ last' = Noted(cfg)

\* A trusted proxy of another make appends its peer to the list, on a line of
\* its own or behind an empty element, or a word where it has no address, and
\* sends no other forwarding header.
ForeignPass(element) ==
  /\ at < Len(Path) /\ at' = at + 1 /\ peer # NoPeer
  /\ headers' = [n \in DOMAIN headers |->
                   IF n # "x-forwarded-for" THEN <<>>
                   ELSE IF element = Blank THEN headers[n] \o << <<Blank, peer>> >>
                   ELSE Append(headers[n], <<element>>)]
  /\ client' = Resolution("unavailable", NoAddress)
  /\ peer' = V4(Path[at + 1])
  /\ kept' = (kept /\ element # Junk /\ (at = 0 \/ last.forward = "append"))
  /\ honest' = (honest /\ last.forward # "preserve")
  /\ last' = [forward |-> "append", header |-> "none"]

PathNext ==
  \/ \E cfg \in Policies : ProxyPass(cfg)
  \/ \E element \in {peer, Blank, Junk} : ForeignPass(element)
PathSpec == PathInit /\ [][PathNext]_pathVars

-----------------------------------------------------------------------------
\* Walking X-Forwarded-For behind proxies that appended to the list, or resolved
\* the client and wrote it, a proxy resolves the true client: whatever the client
\* wrote left of its own address, in whichever form addresses are recorded, and in
\* any mix of the two, but for a proxy of another make right behind one of ours
\* that wrote the list itself; a chain longer than MAX_HOPS (a proxy adds at most
\* two elements here) is refused, never cut.
OriginKept ==
  (kept /\ last.header = "x_forwarded_for") =>
    \/ client.ip = V4(Origin)
    \/ client.how = "too_many_hops" /\ 2 * at > MaxHops + 3

\* The client cannot make itself look like somebody else, whatever is read and
\* however headers were rewritten on the way, as long as no proxy passes them on
\* untouched: an address that resolves is the client's or one of the proxies' the
\* request really passed.  And the list a verified or resolved proxy leaves
\* starts with that address and names hosts of the request's route in their
\* order, each once.
NeverForged ==
  (at > 0 /\ honest) =>
    LET chain == FlattenSeq(headers["x-forwarded-for"])
        route == <<V4(Origin)>> \o [i \in 1 .. (at - 1) |-> V4(Path[i])]
    IN /\ client.ip \in {NoAddress} \cup ToSet(route)
       /\ last.forward \in {"verified", "resolved"} =>
            /\ chain = <<>> <=> client.ip = NoAddress
            /\ chain # <<>> => chain[1] = client.ip
            /\ \A i \in DOMAIN chain : chain[i] \in ToSet(route)
            /\ \A i, j \in DOMAIN chain : i < j =>
                 \E k, l \in DOMAIN route : k < l /\ chain[i] = route[k] /\ chain[j] = route[l]
=============================================================================
