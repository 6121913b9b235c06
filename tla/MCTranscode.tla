----------------------------- MODULE MCTranscode -----------------------------
(***************************************************************************)
(* Transcoding, checked part by part in one run: `part` says which of the  *)
(* four components a behaviour exercises, the others keep their variables. *)
(* The call and the pool are those whose modules this one extends.         *)
(***************************************************************************)
EXTENDS TranscodedCall, CanonicalTypes, SequencesExt, FiniteSetsExt, TLC

VARIABLES
  part,
  request, result, status, rules, rendered

bindVars == <<request, result>>
detailVars == <<status, rules, rendered>>
mcVars == <<part, vars, bindVars, detailVars, poolVars>>

-----------------------------------------------------------------------------
\* The call.
CallEntries == [streaming : BOOLEAN, shape : {"json", "http_body"}, envelope : BOOLEAN, details : BOOLEAN]
CallMetadata ==
  {<<>>, << <<"x-a", 1>>, <<"grpc-x", 1>>, <<"x-deny", 1>> >>,
   << <<"x-a", 2>>, <<"x-http-code", 204>> >>, << <<"x-http-code", 99>> >>}
CallDenied == {"x-deny"}
CallStatuses ==
  {[code |-> "ok", malformed |-> FALSE], [code |-> "not_found", malformed |-> FALSE],
   [code |-> "unavailable", malformed |-> TRUE]}

-----------------------------------------------------------------------------
\* The request message: a oneof, fields with a JSON name of their own, a list, a
\* nested message, and one with a special JSON form.
Fields ==
  LET F(path, json, kind, oneof) == [path |-> path, json |-> json, kind |-> kind, oneof |-> oneof]
  IN {F(<<"a">>, <<"a">>, "scalar", "o"), F(<<"b">>, <<"b">>, "scalar", "o"),
      F(<<"n_n">>, <<"nN">>, "scalar", "none"), F(<<"r_r">>, <<"rR">>, "list", "none"),
      F(<<"m">>, <<"m">>, "message", "none"), F(<<"m", "x_x">>, <<"m", "xX">>, "scalar", "none"),
      F(<<"w">>, <<"w">>, "special", "none"), F(<<"w", "s">>, <<"w", "s">>, "scalar", "none")}
Key(depth, key, value) == [depth |-> depth, key |-> key, value |-> value]
JsonBodies ==
  LET pieces == {<<Key(0, "a", "1")>>, <<Key(0, "nN", "1")>>, <<Key(0, "n_n", "bad")>>,
                 <<Key(0, "b", "1")>>, <<Key(0, "m", "object"), Key(1, "xX", "1")>>,
                 <<Key(0, "m", "object")>>, <<Key(0, "w", "object")>>}
  IN {<<>>, <<Key(0, "zz", "1")>>, <<Key(0, "x_x", "1")>>}
       \cup {FlattenSeq(SetToSeq(s)) : s \in kSubset(1, pieces) \cup kSubset(2, pieces)}
FormBodies ==
  {<<>>, << <<<<"n_n">>, "bad">>, <<<<"nN">>, "2">> >>, << <<<<"nN">>, "2">>, <<<<"n_n">>, "1">> >>,
   << <<<<"xX">>, "1">> >>, << <<<<"m", "x_x">>, "1">> >>,
   << <<<<"a">>, "1">>, <<<<"w", "s">>, "far">> >>, << <<<<"r_r">>, "2">>, <<<<"rR">>, "1">> >>}
PathParams ==
  {<<>>, <<"n_n">> :> "p", <<"n_n">> :> "bad", <<"m", "x_x">> :> "p" @@ <<"a">> :> "p"}
Queries ==
  LET same == {{<<<<"a">>, "1">>, <<<<"b">>, "1">>},
               {<<<<"n_n">>, "1">>, <<<<"n_n">>, "bad">>, <<<<"nN">>, "2">>},
               {<<<<"r_r">>, "1">>, <<<<"rR">>, "2">>},
               {<<<<"m", "xX">>, "2">>, <<<<"zz">>, "1">>},
               {<<<<"w", "s">>, "far">>, <<<<"w", "s">>, "1">>}}
  IN UNION {BoundedSeq(pairs, 2) : pairs \in same}
Bind == INSTANCE RequestBinding

-----------------------------------------------------------------------------
\* Error details: messages nested three deep, two of them to a status.
Leaf(type) == [type |-> type, url |-> TRUE, fields |-> <<>>]
AnyOf(url, m) == [type |-> "any", url |-> url, fields |-> <<[label |-> "packed", items |-> <<m>>]>>]
Holder(fields) == [type |-> "product", url |-> TRUE, fields |-> fields]
Field(label, items) == [label |-> label, items |-> items]
Deeper(messages) ==
  {AnyOf(TRUE, m) : m \in messages \cup {Leaf("unknown")}}
    \cup {Holder(<<Field(label, <<m>>)>>) : label \in {"singular", "required"}, m \in messages}
    \cup {Holder(<<Field("repeated", <<m, n>>)>>) : m, n \in messages}
Simple == {Leaf("plain"), Leaf("debug"), Leaf("broken")}
Nested == Deeper(Simple) \cup {AnyOf(FALSE, Leaf("debug"))}
Messages ==
  Simple \cup {Leaf("unknown")} \cup Nested \cup Deeper(Nested)
    \cup {Holder(<<Field("required", <<m>>), Field("map", <<n>>)>>) : m, n \in Simple}
Details ==
  {<<AnyOf(TRUE, m)>> : m \in Messages} \cup {<<AnyOf(FALSE, Leaf("plain"))>>}
    \cup {<<AnyOf(TRUE, l), AnyOf(TRUE, m), AnyOf(TRUE, n)>> :
            l, m, n \in {Leaf("plain"), Leaf("debug"), Leaf("unknown"), AnyOf(TRUE, Leaf("debug"))}}
Rule(matches, enabled, opaque) == [matches |-> matches, enabled |-> enabled, opaque |-> opaque]
Rules ==
  {<<>>, <<Rule(TRUE, "unset", "on")>>, <<Rule(TRUE, "unset", "on"), Rule(TRUE, "off", "unset")>>,
   <<Rule(FALSE, "off", "off"), Rule(TRUE, "on", "unset"), Rule(TRUE, "off", "on")>>}
Errors == INSTANCE StatusDetails

-----------------------------------------------------------------------------
\* Descriptors: google/protobuf/any and duration, google/rpc/status and
\* error_details, each type of them defined by the product in the canonical file,
\* in either of two files of its own, or not at all; and product files that have a
\* canonical name, or that of a copy, and none of the types.
File(name, types, uses, imports) == [name |-> name, types |-> types, uses |-> uses, imports |-> imports]
PoolCanonical ==
  <<File(<<"any">>, {"Any"}, {}, {}), File(<<"duration">>, {"Duration"}, {}, {}),
    File(<<"status">>, {"Status"}, {"Any"}, {<<"any">>}),
    File(<<"error_details">>, {"RetryInfo", "ErrorInfo"}, {"Duration"}, {<<"duration">>})>>
PoolProducts ==
  LET types == UNION {f.types : f \in ToSet(PoolCanonical)}
      home(type) == (CHOOSE f \in ToSet(PoolCanonical) : type \in f.types).name
      places == {p \in [types -> {f.name : f \in ToSet(PoolCanonical)} \cup {<<"own">>, <<"other">>, <<>>}] :
                   \A t \in types : p[t] \in {home(t), <<"own">>, <<"other">>, <<>>}}
      empty == {<<"any">>, <<"duration">>, Copy(<<"error_details">>)}
  IN {{File(name, {t \in types : place[t] = name}, {}, {}) : name \in (Range(place) \ {<<>>}) \cup more} :
        place \in places, more \in SUBSET empty}
\* The same without the names of copies, which a product has no reason to use.
PlainProducts ==
  {files \in PoolProducts : \A f \in ToSet(PoolCanonical) : ~Present(files, Copy(f.name))}

-----------------------------------------------------------------------------
Resting(active) ==
  /\ active # "call" =>
       /\ entry = [streaming |-> FALSE, shape |-> "json", envelope |-> FALSE, details |-> FALSE]
       /\ head = FALSE /\ sse = FALSE /\ phase = "done" /\ up = "idle" /\ count = 0 /\ sent = <<>> /\ pipe = <<>>
       /\ outcome = Running /\ initial = <<>> /\ trailers = <<>> /\ first = "none"
       /\ wire = NoResponse
  /\ active # "bind" => /\ result = Bind!Pending
                        /\ request = [mapping |-> "none", body |-> [type |-> "raw", data |-> <<>>],
                                      params |-> <<>>, query |-> <<>>]
  /\ active # "details" => /\ status = [trailer |-> "absent", details |-> <<>>] /\ rules = <<>>
                           /\ rendered = Errors!Nothing
  /\ active # "pool" => pool = {} /\ completed = FALSE /\ product = {}

MCInit ==
  /\ part \in {"call", "bind", "details", "pool"}
  /\ Resting(part)
  /\ CASE part = "call" -> Init
       [] part = "bind" -> Bind!Init
       [] part = "details" -> Errors!DetailsInit
       [] part = "pool" -> TypesInit

CallStep == part = "call" /\ Next /\ UNCHANGED <<part, bindVars, detailVars, poolVars>>
BindStep == part = "bind" /\ Bind!BindRequest /\ UNCHANGED <<part, vars, detailVars, poolVars>>
DetailsStep == part = "details" /\ Errors!RenderStatus /\ UNCHANGED <<part, vars, bindVars, poolVars>>
PoolStep == part = "pool" /\ Complete /\ UNCHANGED <<part, vars, bindVars, detailVars>>
MCNext == CallStep \/ BindStep \/ DetailsStep \/ PoolStep

\* The pool by itself.
PoolSpec == MCInit /\ part = "pool" /\ [][PoolStep]_mcVars

Others == <<part, bindVars, detailVars, poolVars>>
MCSpec ==
  /\ MCInit /\ [][MCNext]_mcVars
  /\ WF_mcVars(part = "call" /\ Answering /\ UNCHANGED Others)
  /\ WF_mcVars(part = "call" /\ Expire /\ UNCHANGED Others)

-----------------------------------------------------------------------------
\* The request message (see RequestBinding).
BoundAsSaid == Bind!BoundAsSaid
RefusedForCause == Bind!RefusedForCause

\* Error details (see StatusDetails).
DetailsFaithful == Errors!DetailsFaithful
=============================================================================
