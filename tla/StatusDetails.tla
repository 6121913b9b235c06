---------------------------- MODULE StatusDetails ----------------------------
(***************************************************************************)
(* The details of an upstream's error status in the error body             *)
(* (transcode/error.rs: ErrorDetailsPolicy, StatusDetails).  A detail is a *)
(* tree of messages; google.rpc.DebugInfo is taken out of it wherever it   *)
(* is packed, and what cannot be rendered faithfully is not rendered at    *)
(* all.  JSON text is abstracted to the tree it spells.                    *)
(***************************************************************************)
EXTENDS Naturals, SequencesExt, FiniteSetsExt

CONSTANTS
  Details,   \* the details an upstream attaches: sequences of packed messages
  Rules      \* error_details overrides: sequences of rules

VARIABLES
  status,    \* [trailer, details]: what grpc-status-details-bin holds
  rules,     \* the overrides, for one route
  rendered   \* the outcome: [is, details, opaque]

detailVars == <<status, rules, rendered>>

-----------------------------------------------------------------------------
\* Messages.  A type is "debug", "any", "unknown" (no descriptor describes it),
\* "broken" (its bytes do not decode, or a required field is missing) or another.

Message(type, fields) == [type |-> type, url |-> TRUE, fields |-> fields]
Field(label, items) == [label |-> label, items |-> items]
Packed(url, m) == [type |-> "any", url |-> url, fields |-> <<Field("packed", <<m>>)>>]
Unpacked(any) == any.fields[1].items[1]

Malformed == [is |-> "malformed"]
Drop == [is |-> "drop"]
Keep(m, changed) == [is |-> "keep", message |-> m, changed |-> changed]

RECURSIVE Scrub(_)

\* Fault: a packed message that changed is not packed again.
ScrubAnyStale(any) ==
  LET inner == Scrub(Unpacked(any))
  IN CASE ~any.url -> Malformed
       [] any.url /\ Unpacked(any).type = "debug" -> Drop
       [] any.url /\ Unpacked(any).type = "unknown" -> Keep(any, FALSE)
       [] OTHER -> IF inner.is = "keep" THEN Keep(any, inner.changed) ELSE inner

\* scrub_any: an unknown packed type is left for the serializer to refuse.
ScrubAny(any) ==
  LET inner == Scrub(Unpacked(any))
  IN CASE ~any.url -> Malformed
       [] any.url /\ Unpacked(any).type = "debug" -> Drop
       [] any.url /\ Unpacked(any).type = "unknown" -> Keep(any, FALSE)
       [] OTHER -> IF inner.is # "keep" THEN inner
                   ELSE Keep(IF inner.changed THEN Packed(any.url, inner.message) ELSE any,
                             inner.changed)

\* scrub_value, over the scrubbed items of one field.
Kept(items) == [i \in DOMAIN items |-> items[i].message]

\* Fault: a list that held DebugInfo goes as a whole.
ScrubFieldWhole(field, items) ==
  [field EXCEPT !.items = IF \E i \in DOMAIN items : items[i].is = "drop" THEN <<>> ELSE Kept(items)]

ScrubField(field, items) == [field EXCEPT !.items = Kept(SelectSeq(items, LAMBDA r : r.is = "keep"))]

\* Fields are read in order: the first that is malformed, or is required and has
\* to go, decides for the message.
Scrub(m) ==
  CASE m.type = "any" -> ScrubAny(m)
    [] m.type = "debug" -> Drop
    [] m.type \in {"broken", "unknown"} -> Malformed
    [] OTHER ->
         LET items == [f \in DOMAIN m.fields |-> [i \in DOMAIN m.fields[f].items |->
                                                    Scrub(m.fields[f].items[i])]]
             has(f, what) == \E i \in DOMAIN items[f] : items[f][i].is = what
             stops == {f \in DOMAIN items : \/ has(f, "malformed")
                                            \/ has(f, "drop") /\ m.fields[f].label = "required"}
             changed == \E f \in DOMAIN items : \/ has(f, "drop")
                                                \/ \E i \in DOMAIN items[f] : items[f][i].changed
         IN IF stops # {} THEN IF has(Min(stops), "malformed") THEN Malformed ELSE Drop
            ELSE Keep([m EXCEPT !.fields = [f \in DOMAIN items |-> ScrubField(@[f], items[f])]],
                      changed)

\* Whether a message has a ProtoJSON form: every type packed in it is known.
RECURSIVE Holds(_, _)
Holds(m, type) ==
  \/ m.type = type
  \/ \E f \in DOMAIN m.fields : \E i \in DOMAIN m.fields[f].items :
       Holds(m.fields[f].items[i], type)

-----------------------------------------------------------------------------
\* ErrorDetailsPolicy.  A rule that matches the route sets the details switch,
\* the opaque one or both.

Decide(default, switch) ==
  LET deciding == SelectSeq(rules, LAMBDA r : r.matches /\ r[switch] # "unset")
  IN IF deciding = <<>> THEN default ELSE Head(deciding)[switch] = "on"
EnabledFor == Decide(TRUE, "enabled")
OpaqueFor == Decide(FALSE, "opaque")

-----------------------------------------------------------------------------
Nothing == [is |-> "plain", details |-> <<>>, opaque |-> <<>>]
MalformedStatus == [Nothing EXCEPT !.is = "malformed"]

\* One detail of render, and its typed_entry.
RenderDetail(acc, i) ==
  LET any == status.details[i]
      index == Len(acc.details) + Len(acc.opaque)
      result == Scrub(Unpacked(any))
  IN CASE acc.is = "malformed" \/ ~any.url -> MalformedStatus
       [] acc.is # "malformed" /\ any.url /\ Unpacked(any).type = "debug" -> acc
       [] acc.is # "malformed" /\ any.url /\ Unpacked(any).type = "unknown" ->
            IF OpaqueFor THEN [acc EXCEPT !.opaque = Append(@, [index |-> index, of |-> i])] ELSE acc
       [] OTHER ->
            IF result.is = "drop" THEN acc
            ELSE IF result.is = "malformed" \/ Holds(result.message, "unknown") THEN MalformedStatus
            ELSE [acc EXCEPT !.details = Append(@, [message |-> result.message, of |-> i])]

\* The trailer has to be a status, and the one grpc-status and grpc-message give.
Render ==
  CASE ~EnabledFor \/ status.trailer = "absent" -> Nothing
    [] EnabledFor /\ status.trailer \in {"garbage", "other_error"} -> MalformedStatus
    [] EnabledFor /\ status.trailer = "status" ->
         FoldLeft(RenderDetail, [Nothing EXCEPT !.is = "detailed"], [i \in DOMAIN status.details |-> i])

DetailsInit ==
  /\ status \in [trailer : {"absent", "garbage", "other_error"}, details : {<<>>}]
                  \cup [trailer : {"status"}, details : Details]
  /\ rules \in Rules /\ rendered = [Nothing EXCEPT !.is = "pending"]
RenderStatus ==
  rendered.is = "pending" /\ rendered' = Render /\ UNCHANGED <<status, rules>>

-----------------------------------------------------------------------------
\* What DebugInfo costs a message.  A message goes with it when it cannot do
\* without: it is one, packs one, or requires a field that goes.
RECURSIVE GoesWith(_)
GoesWith(m) ==
  \/ m.type = "debug"
  \/ \E f \in DOMAIN m.fields :
       /\ m.fields[f].label \in {"required", "packed"}
       /\ \E i \in DOMAIN m.fields[f].items : GoesWith(m.fields[f].items[i])

\* `kept` is `sent` but for what goes: every field is there, and of every field, in
\* order, every item that can stay.
RECURSIVE SentBut(_, _)
SentBut(kept, sent) ==
  /\ kept.type = sent.type /\ kept.url = sent.url
  /\ Len(kept.fields) = Len(sent.fields)
  /\ \A f \in DOMAIN sent.fields :
       LET stay == SelectSeq(sent.fields[f].items, LAMBDA m : ~GoesWith(m))
           have == kept.fields[f].items
       IN /\ kept.fields[f].label = sent.fields[f].label
          /\ Len(have) = Len(stay)
          /\ \A i \in DOMAIN stay : SentBut(have[i], stay[i])

\* Why a status may be refused as a whole: it is garbage or another error, or there
\* is something in it, at whatever depth, that cannot be read or has no JSON form.
RECURSIVE Urls(_)
Urls(m) == m.url /\ \A f \in DOMAIN m.fields : \A i \in DOMAIN m.fields[f].items : Urls(m.fields[f].items[i])
Unreadable(any) ==
  \/ ~Urls(any) \/ Holds(any, "broken")
  \/ Holds(any, "unknown") /\ Unpacked(any).type # "unknown"

\* The details a client gets are the upstream's, in its order, and nothing but
\* DebugInfo is missing.  A status that is rendered shows every detail that can do
\* without DebugInfo, each as it was sent but for the DebugInfo in it, none of which
\* is left, however deep it was packed, in a field, a list, a map or an Any; the
\* unknown ones are opaque where that is switched on; put at their positions those
\* restore the order, without a gap; and no status is refused without a cause.
DetailsFaithful ==
  LET details == rendered.details
      opaque == rendered.opaque
      sent == status.details
      total == Len(details) + Len(opaque)
      opaqueAt(n) == {k \in DOMAIN opaque : opaque[k].index = n}
      plainBefore(n) == Cardinality({k \in 0 .. (n - 1) : opaqueAt(k) = {}})
      merged == [n \in 0 .. (total - 1) |->
                   IF opaqueAt(n) # {} THEN opaque[Min(opaqueAt(n))].of
                   ELSE details[plainBefore(n) + 1].of]
  IN /\ rendered.is = "detailed" =>
          /\ {details[i].of : i \in DOMAIN details} =
               {i \in DOMAIN sent : Unpacked(sent[i]).type # "unknown" /\ ~GoesWith(sent[i])}
          /\ {opaque[k].of : k \in DOMAIN opaque} =
               {i \in DOMAIN sent : Unpacked(sent[i]).type = "unknown" /\ OpaqueFor}
     /\ \A i \in DOMAIN details :
          /\ ~Holds(details[i].message, "debug")
          /\ SentBut(details[i].message, Unpacked(sent[details[i].of]))
     /\ \A k \in DOMAIN opaque : opaque[k].index < total
     /\ \A n \in 1 .. (total - 1) : merged[n - 1] < merged[n]
     /\ rendered.is = "malformed" =>
          status.trailer \in {"garbage", "other_error"} \/ \E i \in DOMAIN sent : Unreadable(sent[i])
     /\ (rendered.is = "plain" /\ EnabledFor) => status.trailer = "absent"
=============================================================================
