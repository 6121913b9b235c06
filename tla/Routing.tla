------------------------------ MODULE Routing ------------------------------
(***************************************************************************)
(* Which binding answers a request: the tables path_tables builds, the     *)
(* startup check of lib.rs, and the choice of transcode/table.rs, reached  *)
(* in two ways: through the axum router with a Chooser around its routes,  *)
(* or past any router from the proxy's own ranking (Direct).  The routers  *)
(* of axum and matchit are external.                                       *)
(***************************************************************************)
EXTENDS PathTemplates, FiniteSets, FiniteSetsExt

CONSTANTS
  Rules,     \* rules a descriptor or an alias may hold
  OtherSets, \* sets of other routes: [method, path], "*" for every method
  Methods,   \* methods requests use
  Paths,     \* paths requests use
  MaxRules   \* bound: rules of one configuration

\* A router path: a catch-all only at its end.
RouterPath(s) == s \in Seq(ToSet(s)) /\ s # << >> /\ \A i \in 1..Len(s) - 1 : s[i] # RestSeg

\* No segment of a request spells a capture of the router.
ASSUME RoutingAssumption ==
  /\ MaxRules \in Nat /\ "GET" \in Methods
  /\ \A rule \in Rules : WellFormed(rule)
  /\ \A set \in OtherSets : \A o \in set : RouterPath(o.path)
  /\ \A path \in Paths : /\ path \in Seq(ToSet(path)) /\ path # << >>
                          /\ ToSet(path) \cap {AnySeg, RestSeg} = {}

VARIABLES
  phase,     \* "building", "serving" or "refused"
  others,    \* the proxy's other routes
  mounts,    \* every routable binding, in binding order
  shapes,    \* the router paths of the tables, in first-binding order
  tables,    \* router path |-> its bindings, in the order they are tried
  request,   \* the request asked last
  direct,    \* its answer past any router
  routed     \* its answer through the router

vars == <<phase, others, mounts, shapes, tables, request, direct, routed>>

NotFound == [kind |-> "none"]
NoRequest == [method |-> "GET", path |-> << >>]

Init ==
  /\ phase = "building" /\ others \in OtherSets
  /\ mounts = << >> /\ shapes = << >> /\ tables = [s \in {} |-> << >>]
  /\ request = NoRequest
  /\ direct = NotFound /\ routed = NotFound

-----------------------------------------------------------------------------
\* Building the tables.

\* Fault: every binding goes last.
AddedLast(bindings, b) ==
  IF \E i \in 1..Len(bindings) : Clash(bindings[i], b) THEN bindings
  ELSE Append(bindings, b)

\* PathTable::add: a binding that clashes is skipped; a constrained one goes
\* before the open ones.
Added(bindings, b) ==
  LET open == SelectInSeq(bindings, LAMBDA x : ~Constrained(x))
      at == IF Constrained(b) /\ open # 0 THEN open ELSE Len(bindings) + 1
  IN  IF \E i \in 1..Len(bindings) : Clash(bindings[i], b) THEN bindings
      ELSE InsertAt(bindings, at, b)

\* path_tables takes the next binding; one that is not routable is left out.
Declare(rule) ==
  LET b == Mount(rule)
  IN /\ phase = "building" /\ Len(mounts) < MaxRules /\ Routable(rule)
     /\ mounts' = Append(mounts, b)
     /\ IF b.path \in DOMAIN tables
        THEN /\ tables' = [tables EXCEPT ![b.path] = Added(@, b)]
             /\ UNCHANGED shapes
        ELSE /\ tables' = [s \in DOMAIN tables \cup {b.path} |->
                             IF s = b.path THEN <<b>> ELSE tables[s]]
             /\ shapes' = Append(shapes, b.path)
     /\ UNCHANGED <<phase, others, request, direct, routed>>

\* matchit (external) refuses a variable and a catch-all at one position.
Conflict(a, b) ==
  \E i \in 1..Min({Len(a), Len(b)}) :
    SubSeq(a, 1, i - 1) = SubSeq(b, 1, i - 1) /\ {a[i], b[i]} = {AnySeg, RestSeg}

\* retain_mountable: the paths accepted in order.
Retain(kept, s) == IF \E i \in 1..Len(kept) : Conflict(kept[i], s) THEN kept ELSE Append(kept, s)
Retaining(paths) ==
  LET kept[n \in 0..Len(paths)] == IF n = 0 THEN << >> ELSE Retain(kept[n - 1], paths[n])
  IN  kept
Mountable(paths) == Retaining(paths)[Len(paths)]

Mounts(path) == SelectSeq(mounts, LAMBDA b : b.path = path)

\* route_paths: the methods a router path is listed with; two bindings that
\* clash are listed twice.
ListedTwice(path) ==
  \E i, j \in 1..Len(Mounts(path)) : i < j /\ Clash(Mounts(path)[i], Mounts(path)[j])
Listed(path) ==
  LET bs == ToSet(Mounts(path))
  IN  IF \E b \in bs : b.rule.method = "*" \/ b.verb # "" THEN {"*"}
      ELSE {b.rule.method : b \in bs}

\* ProxyServer::routes refuses a path and method registered twice, or paths
\* the router cannot hold together.
Collides(paths) ==
  \/ \E s \in paths : ListedTwice(s)
  \/ \E s \in paths, o \in others :
       \/ o.path = s /\ ({"*", o.method} \cap Listed(s) # {} \/ o.method = "*")
       \/ Conflict(o.path, s)

Start ==
  LET kept == ToSet(Mountable(shapes))
  IN /\ phase = "building" /\ mounts # << >>
     /\ phase' = IF Collides(kept) THEN "refused" ELSE "serving"
     /\ shapes' = Mountable(shapes)
     /\ tables' = [s \in kept |-> tables[s]]
     /\ UNCHANGED <<others, mounts, request, direct, routed>>

-----------------------------------------------------------------------------
\* Index: the router paths of `P` a request's path matches, best-ranked first.
\* Index::visit, with `left` segments of the path to go: a literal before a variable
\* before a catch-all, and `below` what the next segments give.
Visit(path, left, below, P) ==
  LET i == Len(path) - left + 1
      At(seg) == {s \in P : Len(s) >= i /\ s[i] = seg}
      blank == left = 1 /\ path[i] = Empty
  IN  IF P = {} THEN << >>
      ELSE IF left = 0 THEN SetToSeq({s \in P : Len(s) = Len(path)})
      ELSE below[At(path[i])]
           \o (IF ~blank \/ EmptyLast THEN below[At(AnySeg)] ELSE << >>)
           \o (IF ~blank THEN SetToSeq(At(RestSeg)) ELSE << >>)
Visiting(P, path) ==
  LET visit[left \in 0..Len(path)] == [Q \in SUBSET P |-> Visit(path, left, visit[left - 1], Q)]
  IN  visit

Each(P, path) == Visiting(P, path)[Len(path)][P]

\* PathTable::choose among the bindings `admitted`: one of the method itself,
\* else a GET for HEAD, else a 405.
Among(s, bindings, admitted, method) ==
  LET own == {i \in admitted : bindings[i].rule.method \in {"*", method}}
      head == {i \in admitted : method = "HEAD" /\ bindings[i].rule.method = "GET"}
      allow == {bindings[i].rule.method : i \in admitted}
  IN  IF own \cup head # {}
      THEN [kind |-> "rpc", at |-> s,
            binding |-> bindings[Min(IF own # {} THEN own ELSE head)]]
      ELSE [kind |-> "405", at |-> s,
            allow |-> allow \cup (IF "GET" \in allow THEN {"HEAD"} ELSE {})]

Admitted(bindings, path, verb) == {i \in DOMAIN bindings : Admits(bindings[i], verb, path)}
TableChoose(s, method, path, verb) ==
  LET Chosen(admitted) == IF admitted = {} THEN NotFound
                          ELSE Among(s, tables[s], admitted, method)
  IN  Chosen(Admitted(tables[s], path, verb))

\* Ranked: the tables among every route of the proxy.
AllPaths == DOMAIN tables \cup {o.path : o \in others}
Shared(s) == {o.method : o \in {o \in others : o.path = s}}
BindsHead(s) == \E i \in 1..Len(tables[s]) : tables[s][i].rule.method = "HEAD"

\* Fault: HEAD is not taken with GET.
TheirsExact(s, method) == method \in Shared(s)

Theirs(s, method) ==
  \/ method \in Shared(s)
  \/ method = "HEAD" /\ ~BindsHead(s) /\ "GET" \in Shared(s)

\* Fault: only the tables are ranked.
RanksAlways(s, method, path) == TRUE

\* ranks_first: no other route the request reaches comes before the table.
RanksFirst(s, method, path) ==
  LET In(each) == \E k \in 1..Len(each) :
                    /\ each[k] = s
                    /\ \A j \in 1..k : each[j] \in DOMAIN tables /\ ~Theirs(each[j], method)
  IN  In(Each(AllPaths, path))

OrElse(answer, other) == IF answer # NotFound THEN answer ELSE other

\* Fault: the first table's answer stands.
SettleFirst(answers) == Head(answers)

\* Of the answers of the tables tried: the first binding, else the first 405.
Settle(answers) ==
  LET First(kind) == SelectInSeq(answers, LAMBDA a : a.kind = kind)
  IN  IF First("rpc") # 0 THEN answers[First("rpc")]
      ELSE IF First("405") # 0 THEN answers[First("405")] ELSE NotFound

\* Routes::answer: from `first`, the index's own pick, down the tables of
\* `each` while they rank.
Answer(first, each, method, path, verb) ==
  LET Upto(rest) == SubSeq(rest, 1, Max({k \in 0..Len(rest) :
                                           \A j \in 1..k : RanksFirst(rest[j], method, path)}))
      Answers(tried) == [k \in 1..Len(tried) |-> TableChoose(tried[k], method, path, verb)]
  IN  Settle(Answers(<<first>> \o Upto(RemoveFirst(each, first))))

\* choose_ranked, for a request routed to the table at `s`: a path that ends
\* in a literal first, then a bound verb, then the bindings without one.
Holding(verb) == {s \in DOMAIN tables : \E b \in ToSet(tables[s]) : b.verb = verb}
FromTable(s, each, method, path, verb) ==
  IF each # << >> /\ (Head(each) = s \/ RanksFirst(Head(each), method, path))
  THEN Answer(Head(each), each, method, path, verb) ELSE NotFound
ChooseRanked(s, method, path) ==
  LET verb == VerbOf(path)
  IN  OrElse(IF Last(s) \notin {AnySeg, RestSeg}
             THEN TableChoose(s, method, path, "") ELSE NotFound,
      OrElse(IF verb # ""
             THEN FromTable(s, Each(Holding(verb), path), method, path, verb) ELSE NotFound,
      IF s \in Holding("") THEN Answer(s, Each(Holding(""), path), method, path, "")
      ELSE FromTable(s, Each(Holding(""), path), method, path, "")))

\* transcode::choose: a 405 lists the methods of the other routes too.
Choose(s, method, path) ==
  LET WithShared(c, shared) ==
        [c EXCEPT !.allow = @ \cup shared \cup (IF "GET" \in shared THEN {"HEAD"} ELSE {})]
      Listing(c) == IF c.kind = "405" THEN WithShared(c, Shared(c.at)) ELSE c
  IN  Listing(ChooseRanked(s, method, path))

-----------------------------------------------------------------------------
\* The routers of axum and matchit (external).

\* A literal ranks before a variable before a catch-all where two paths differ.
PathMatches(s, path) ==
  LET n == Len(s)
      Takes(i) == \/ s[i] = path[i]
                  \/ s[i] = AnySeg /\ (path[i] # Empty \/ i < Len(path) \/ EmptyLast)
  IN  IF s[n] = RestSeg
      THEN /\ Len(path) >= n /\ \A i \in 1..n - 1 : Takes(i)
           /\ ~(Len(path) = n /\ path[n] = Empty)
      ELSE Len(path) = n /\ \A i \in 1..n : Takes(i)
Rank(seg) == CASE seg = RestSeg -> 2 [] seg = AnySeg -> 1 [] OTHER -> 0
Before(a, b) ==
  \E i \in 1..Min({Len(a), Len(b)}) :
    SubSeq(a, 1, i - 1) = SubSeq(b, 1, i - 1) /\ Rank(a[i]) < Rank(b[i])
Matching(P, path) == {s \in P : PathMatches(s, path)}
Pick(P, path) == CHOOSE s \in Matching(P, path) :
                   \A t \in Matching(P, path) : t = s \/ Before(s, t)

\* A method route before a GET answering HEAD before a route for any method.
OtherAt(s, method) ==
  LET at == Shared(s)
      handler == CASE method \in at -> method
                   [] method \notin at /\ method = "HEAD" /\ "GET" \in at -> "GET"
                   [] OTHER -> "*"
  IN  IF handler \in at THEN [kind |-> "other", at |-> s, handler |-> handler]
      ELSE [kind |-> "denied", at |-> s]

\* The router of the other routes alone, `elsewhere`.
Elsewhere(method, path) ==
  LET P == {o.path : o \in others}
  IN  IF Matching(P, path) = {} THEN NotFound ELSE OtherAt(Pick(P, path), method)

-----------------------------------------------------------------------------
\* Direct::takes, then the dispatcher or the other routes.
DirectAnswer(method, path) ==
  LET Taken(s) == IF s \in DOMAIN tables /\ ~Theirs(s, method)
                  THEN Choose(s, method, path) ELSE NotFound
      First(each) == IF each = << >> THEN NotFound ELSE Taken(Head(each))
  IN  OrElse(First(Each(AllPaths, path)), Elsewhere(method, path))

\* ChooseRouted::call around every route of the router, and dispatch behind
\* the `any` (and `head`) route of a table.
RoutedAnswer(method, path) ==
  LET HeadIsOwn(s) == method = "HEAD" /\ BindsHead(s) /\ "HEAD" \notin Shared(s)
      Dispatched(s, chosen, other) ==
        IF chosen = NotFound THEN Elsewhere(method, path)
        ELSE IF other.kind = "other" /\ ~HeadIsOwn(s) THEN other ELSE chosen
      At(s) == IF s \in DOMAIN tables
               THEN Dispatched(s, Choose(s, method, path), OtherAt(s, method))
               ELSE OtherAt(s, method)
  IN  IF Matching(AllPaths, path) = {} THEN NotFound ELSE At(Pick(AllPaths, path))

\* A request arrives; nothing about it changes the tables, so one is enough.
Ask(method, path) ==
  /\ phase = "serving" /\ request = NoRequest
  /\ request' = [method |-> method, path |-> path]
  /\ direct' = DirectAnswer(method, path)
  /\ routed' = RoutedAnswer(method, path)
  /\ UNCHANGED <<phase, others, mounts, shapes, tables>>

Next ==
  \/ \E rule \in Rules : Declare(rule)
  \/ Start
  \/ \E m \in Methods, p \in Paths : Ask(m, p)

Spec == Init /\ [][Next]_vars

-----------------------------------------------------------------------------
Mounted == UNION {{tables[s][i].rule : i \in 1..Len(tables[s])} : s \in DOMAIN tables}
Free(path) == \A o \in others : ~PathMatches(o.path, path)
Allowing == direct.kind = "405"

\* The proxy's own ranking and the axum router answer every request alike: the
\* same binding, the same 405, the same other route or none.
DirectServesAsRouter == direct = routed

\* A request that reaches a binding is one its template names, as
\* google/api/http.proto reads it, with a method the binding answers.
AnswersMatch ==
  direct.kind = "rpc" =>
    UrlMatches(direct.binding.rule, request.path) /\ Serves(direct.binding.rule, request.method)

\* "A verb some binding of the request's path binds owns that URL": its
\* bindings alone answer, those without a verb only when none is bound; one of
\* them that answers the method is found whatever table ranks first, a 405 is
\* given only when none does, and a URL is left to the fallback only when no
\* template names it.
UrlOwned ==
  LET named == {r \in Mounted : UrlMatches(r, request.path)}
      verbal == {r \in named : r.verb # "" /\ (Last(request.path)[1] # "" \/ Mount(r).empty_ok)}
      owners == IF verbal # {} THEN verbal ELSE {r \in named : r.verb = ""}
      answering == {r \in owners : Serves(r, request.method)}
  IN  request # NoRequest /\ Free(request.path)
      /\ (\A r \in named : Last(r.pieces).kind # "literal")
        => CASE answering # {} -> direct.kind = "rpc" /\ direct.binding.rule \in answering
             [] answering = {} /\ owners # {} -> direct.kind = "405"
             [] OTHER -> direct = NotFound

\* "Of the bindings of one router path, those such a template or an escaped
\* literal constrains are tried before the open ones": an open binding answers
\* only what no constrained one of its path would, in whatever order the rules
\* were declared.
ConstrainedFirst ==
  LET Own(b) == b.rule.method \in {"*", request.method}
      chosen == direct.binding
      rivals == {b \in ToSet(tables[direct.at]) :
                   /\ Constrained(b) /\ b.verb = chosen.verb
                   /\ UrlMatches(b.rule, request.path) /\ Serves(b.rule, request.method)}
  IN  direct.kind = "rpc" /\ ~Constrained(chosen)
        => \A b \in rivals : Own(chosen) /\ ~Own(b)

\* A binding that takes over a request a better-ranked table refused never
\* overtakes another route of the proxy the request reaches: one at a path of
\* its own, or one answering the method at a table's path.
OthersNotOvertaken ==
  direct.kind \in {"rpc", "405"} =>
    \A o \in others :
      PathMatches(o.path, request.path) /\ Before(o.path, direct.at)
        => o.path \in DOMAIN tables /\ ~Theirs(o.path, request.method)

\* The Allow of a 405 lists "every method the target answers" (Ranked::allow).
AllowComplete ==
  Allowing => \A m \in Methods :
                DirectAnswer(m, request.path).kind = "rpc" => m \in direct.allow
=============================================================================
