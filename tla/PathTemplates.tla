--------------------------- MODULE PathTemplates ---------------------------
(***************************************************************************)
(* google.api.http path templates (transcode/path.rs) and how a request's  *)
(* path is held against them (transcode/table.rs).                         *)
(*                                                                         *)
(* A segment is <<text, verb>>: the verb is the text from the segment's    *)
(* first unencoded colon, "" for none.  A path is a sequence of segments.  *)
(* A rule is a binding's method, template and custom verb; its pieces are  *)
(* the segments of the template as written: a literal, a variable of one   *)
(* segment, or a field with a template of its own, a sequence of texts,    *)
(* "*" and "**".                                                           *)
(***************************************************************************)
EXTENDS Naturals, Sequences, SequencesExt

CONSTANT EmptyLast   \* empty_last_matches: does a variable take an empty last segment

ASSUME EmptyLastAssumption == EmptyLast \in BOOLEAN

Literal(text, verb) == [kind |-> "literal", seg |-> <<text, verb>>]
Variable == [kind |-> "variable"]
Field(parts) == [kind |-> "field", parts |-> parts]

Empty == <<"", "">>
AnySeg == <<"{}", "">>    \* `{name}` in a router path
RestSeg == <<"{*}", "">>  \* `{*name}`

\* A template of the grammar: `{name=*}` is the variable it means, a literal is
\* not empty, a verb after one is part of it (split_verb), and none spells a
\* capture of the router (mountable).
WellFormed(rule) ==
  /\ rule.pieces \in Seq(ToSet(rule.pieces)) /\ rule.pieces # << >>
  /\ \A piece \in ToSet(rule.pieces) :
       /\ piece.kind \in {"literal", "variable", "field"}
       /\ piece.kind = "literal" => piece.seg \notin {AnySeg, RestSeg}
       /\ piece.kind = "field" =>
            /\ piece.parts \in Seq(ToSet(piece.parts)) /\ piece.parts \notin {<< >>, <<"*">>}
            /\ ToSet(piece.parts) \cap {"", "{}", "{*}"} = {}
  /\ rule.verb # "" => Last(rule.pieces).kind # "literal"

\* Percent-escapes: two spellings of one octet, and the one in upper case
\* (normalize_escapes, same_octets).
Escaped == {"%e", "%E"}
Octets(text) == IF text \in Escaped THEN "%E" ELSE text
SameOctets(seg, text) == <<Octets(seg[1]), seg[2]>> = <<Octets(text), "">>

\* split_verb on a request's path.
VerbOf(path) == Octets(Last(path)[2])
WithoutVerb(path) == Append(Front(path), <<Last(path)[1], "">>)

-----------------------------------------------------------------------------
\* MountedPath::new: how a template is written for the router.

\* A field before the last segment is spelled out, an escaped literal of it as
\* a variable.
Spelled(parts) ==
  [j \in 1..Len(parts) |->
     IF parts[j] = "*" \/ parts[j] \in Escaped THEN AnySeg ELSE <<parts[j], "">>]

\* convert_segment: a last field of one segment is a variable, any other a
\* catch-all.
Shape(piece, last) ==
  CASE piece.kind = "literal" -> <<piece.seg>>
    [] piece.kind = "variable" -> <<AnySeg>>
    [] piece.kind = "field" /\ ~last -> Spelled(piece.parts)
    [] OTHER -> IF Len(piece.parts) = 1 /\ piece.parts # <<"**">>
                THEN <<AnySeg>> ELSE <<RestSeg>>

\* `**` has a form only as the last part of the path.
Routable(rule) ==
  \A k \in 1..Len(rule.pieces) :
    LET piece == rule.pieces[k]
    IN  piece.kind = "field" =>
          \A j \in 1..Len(piece.parts) :
            piece.parts[j] = "**" => k = Len(rule.pieces) /\ j = Len(piece.parts)

\* The mounted binding: the router path, the escaped literals with their
\* positions, the last field's template and where its value starts, and whether
\* the last capture may be empty.
Mount(rule) ==
  LET n == Len(rule.pieces)
      shapes == [k \in 1..n |-> Shape(rule.pieces[k], k = n)]
      Written(k) == Len(FlattenSeq(SubSeq(shapes, 1, k - 1)))
      spelled == {k \in 1..n - 1 : rule.pieces[k].kind = "field"}
      parts == IF rule.pieces[n].kind = "field" THEN rule.pieces[n].parts ELSE <<"*">>
  IN  [rule |-> rule, verb |-> Octets(rule.verb), path |-> FlattenSeq(shapes),
       literals |-> UNION {{<<Written(k) + j, rule.pieces[k].parts[j]>> :
                              j \in {j \in 1..Len(rule.pieces[k].parts) :
                                       rule.pieces[k].parts[j] \in Escaped}} : k \in spelled},
       template |-> IF parts \in {<<"*">>, <<"**">>} THEN << >> ELSE parts,
       start |-> Written(n) + 1,
       empty_ok |-> Last(parts) = "**"]

-----------------------------------------------------------------------------
\* Whether a binding's path, once the router matched it, is really followed.

\* follows, from each position of the template the positions of the value it is
\* followed from: `**` any number of segments, `*` one that is not empty.
Follow(template, value, i, next) ==
  {j \in 1..Len(value) + 1 :
     IF i > Len(template) THEN j > Len(value)
     ELSE IF template[i] = "**" THEN \E k \in j..Len(value) + 1 : k \in next
     ELSE /\ j <= Len(value)
          /\ IF template[i] = "*" THEN value[j] # Empty ELSE SameOctets(value[j], template[i])
          /\ j + 1 \in next}
Following(template, value) ==
  LET from[left \in 0..Len(template)] ==
        Follow(template, value, Len(template) - left + 1, from[left - 1])
  IN  from
Follows(template, value) == 1 \in Following(template, value)[Len(template)]

\* Fault: escaped literals mounted as variables are not compared.
FitsTemplate(binding, path) ==
  LET read == IF binding.verb = "" THEN path ELSE WithoutVerb(path)
      value == SubSeq(read, binding.start, Len(read))
  IN  binding.template # << >> =>
        /\ binding.start <= Len(path)
        /\ Follows(binding.template, IF value = <<Empty>> THEN << >> ELSE value)

\* Binding::fits.
Fits(binding, path) ==
  LET read == IF binding.verb = "" THEN path ELSE WithoutVerb(path)
      value == SubSeq(read, binding.start, Len(read))
  IN  /\ \A l \in binding.literals :
           l[1] <= Len(path) /\ SameOctets(path[l[1]], l[2])
      /\ binding.template # << >> =>
           /\ binding.start <= Len(path)
           /\ Follows(binding.template, IF value = <<Empty>> THEN << >> ELSE value)

\* The admission of `choose_ranked`: bindings of the verb, or without one.
Admits(binding, verb, path) ==
  /\ binding.verb = verb
  /\ verb # "" => binding.empty_ok \/ Last(path)[1] # ""
  /\ Fits(binding, path)

\* Binding::constrained.
Constrained(binding) == binding.literals # {} \/ binding.template # << >>

\* The methods a rule answers: its own, all of them for `*`, and HEAD for GET.
Serves(rule, method) ==
  rule.method \in {"*", method} \/ (method = "HEAD" /\ rule.method = "GET")

\* clash: two bindings of one router path that cannot both serve.
Clash(a, b) ==
  LET Spelling(parts) == [j \in 1..Len(parts) |-> Octets(parts[j])]
      Claimed(c) == {<<l[1], Octets(l[2])>> : l \in c.literals}
  IN  /\ a.verb = b.verb
      /\ Spelling(a.template) = Spelling(b.template) /\ Claimed(a) = Claimed(b)
      /\ a.rule.method = b.rule.method \/ "*" \in {a.rule.method, b.rule.method}

-----------------------------------------------------------------------------
\* The reference: which URLs a template names (google/api/http.proto), with
\* the router's reading of empty segments.  Stated on the rule as written,
\* never on its mount.

ElementsOf(piece, last) ==
  CASE piece.kind = "literal" -> <<[is |-> "exact", seg |-> piece.seg]>>
    [] piece.kind = "variable" -> <<[is |-> "one"]>>
    [] OTHER ->
         [j \in 1..Len(piece.parts) |->
            CASE piece.parts[j] = "**" -> [is |-> "rest"]
              [] piece.parts[j] = "*" -> [is |-> IF last THEN "some" ELSE "one"]
              [] OTHER -> [is |-> IF piece.parts[j] \in Escaped \/ last THEN "octets" ELSE "exact",
                           seg |-> <<piece.parts[j], "">>]]
Elements(rule) ==
  LET n == Len(rule.pieces)
  IN  FlattenSeq([k \in 1..n |-> ElementsOf(rule.pieces[k], k = n)])

SegmentIs(e, seg) ==
  CASE e.is = "exact" -> seg = e.seg
    [] e.is = "octets" -> SameOctets(seg, e.seg[1])
    [] e.is = "some" -> seg # Empty
    [] OTHER -> TRUE

UrlMatches(rule, path) ==
  LET e == Elements(rule)
      n == Len(e)
      s == IF rule.verb = "" THEN path ELSE WithoutVerb(path)
      Matched(m) == m <= Len(s) /\ \A i \in 1..m : SegmentIs(e[i], s[i])
      \* where the last piece starts, and how much of the path it needs
      open == e[n].is = "rest"
      start == Len(FlattenSeq([k \in 1..Len(rule.pieces) - 1 |->
                                 Shape(rule.pieces[k], FALSE)])) + 1
  IN  /\ rule.verb # "" => VerbOf(path) = Octets(rule.verb)
      /\ Len(path) >= start
      /\ IF open
         THEN /\ Matched(n - 1)
              /\ ~(Len(path) = start /\ path[start] = Empty)
         ELSE /\ Len(s) = n /\ Matched(n)
              /\ e[n].is = "one" /\ s[n] = Empty => EmptyLast /\ rule.verb = ""
=============================================================================
