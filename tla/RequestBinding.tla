--------------------------- MODULE RequestBinding ---------------------------
(***************************************************************************)
(* The gRPC request message built from an HTTP request                     *)
(* (transcode/request.rs, request/presence.rs): path parameters over the   *)
(* body over query parameters, which only fill what is left, with fields   *)
(* spelled by their proto or JSON names.  Text is abstracted to what the   *)
(* conversions tell apart; of errors only that there is one is kept.       *)
(***************************************************************************)
EXTENDS Naturals, SequencesExt, FiniteSetsExt

CONSTANTS
  Fields,    \* the input's fields: [path, json, kind, oneof], parents listed too
  JsonBodies, FormBodies, PathParams, Queries  \* the requests

VARIABLES
  request,   \* [mapping, body, params, query]
  result     \* the message, or why there is none

vars == <<request, result>>

-----------------------------------------------------------------------------
\* Descriptors.  A field is named by its path of proto names; a special field
\* is a message with a JSON form of its own.

Paths == {f.path : f \in Fields}
FieldAt(path) == CHOOSE f \in Fields : f.path = path
Upto(path, n) == SubSeq(path, 1, n)

\* resolve: the field a key names, each segment by its proto or its JSON name.
Named(key) ==
  {f \in Fields : Len(f.path) = Len(key)
                  /\ \A i \in DOMAIN key : key[i] \in {f.path[i], f.json[i]}}
Resolves(key) == Named(key) # {}
Resolve(key) == (CHOOSE f \in Named(key) : TRUE).path

\* Whether a field lies inside a message with a JSON form of its own.
Inside(path) == \E n \in 1 .. (Len(path) - 1) : FieldAt(Upto(path, n)).kind = "special"

Spelled(path, depth, key) ==
  key \in {path[depth + 1], FieldAt(Upto(path, depth + 1)).json[depth + 1]}

-----------------------------------------------------------------------------
\* What the body and the path set, kept while they are read (Presence).

NoPresence == [whole |-> FALSE, entries |-> <<>>]
Record(presence, depth, key, held) ==
  [presence EXCEPT !.entries = Append(@, [depth |-> depth, key |-> key, held |-> held])]

RecordPath(presence, path, fields) ==
  FoldLeft(LAMBDA p, n : Record(p, n - 1, path[n],
                                IF fields \/ n < Len(path) THEN "fields" ELSE "whole"),
           presence, [n \in DOMAIN path |-> n])

\* One entry of `blocks`: an entry matches when its parent did and its key
\* names the field at its depth.
BlocksStep(path, w, entry) ==
  LET above == SubSeq(w.matched, 1, IF entry.depth < Len(w.matched) THEN entry.depth
                                    ELSE Len(w.matched))
      parent == entry.depth = 0 \/ (entry.depth <= Len(above) /\ above[entry.depth])
      named == /\ parent /\ entry.depth < Len(path)
               /\ Spelled(path, entry.depth, entry.key)
      whole == \/ entry.held = "whole"
               \/ named /\ entry.held = "object"
                  /\ FieldAt(Upto(path, entry.depth + 1)).kind = "special"
      padded == [n \in 1 .. entry.depth |-> n <= Len(above) /\ above[n]]
  IN [matched |-> Append(padded, named),
      blocked |-> w.blocked \/ (named /\ (entry.depth + 1 = Len(path) \/ whole))]

Blocks(presence, path) ==
  \/ presence.whole
  \/ FoldLeft(LAMBDA w, e : BlocksStep(path, w, e),
              [matched |-> <<>>, blocked |-> FALSE], presence.entries).blocked

-----------------------------------------------------------------------------
\* Setting a field: the values of a message's fields, a list for a repeated
\* one, empty where it is not set, <<"set">> where a message is.

Empty == [path \in Paths |-> <<>>]
Building(message, presence) == [message |-> message, presence |-> presence, failed |-> FALSE]
Fail(b) == [b EXCEPT !.failed = TRUE]

\* field_value, and check_well_known for what ends up inside a special message.
Parses(path, values) ==
  CASE FieldAt(path).kind = "list" -> \A i \in DOMAIN values : values[i] # "bad"
    [] FieldAt(path).kind = "scalar" -> Last(values) # "bad"
    [] OTHER -> FALSE
FieldValue(path, values) ==
  IF FieldAt(path).kind = "list" THEN values ELSE <<Last(values)>>

OneofTaken(message, path) ==
  \E f \in Fields : /\ f.oneof # "none" /\ f.oneof = FieldAt(path).oneof
                    /\ f.path # path /\ message[f.path] # <<>>

Store(message, path, value) ==
  [p \in Paths |-> IF p = path THEN value
                   ELSE IF IsStrictPrefix(p, path) THEN <<"set">> ELSE message[p]]

Assign(b, path, values, binding) ==
  IF b.failed \/ (binding = "fill" /\ Blocks(b.presence, path)) THEN b
  ELSE IF \/ ~Parses(path, values)
          \/ \E n \in DOMAIN path : OneofTaken(b.message, Upto(path, n)) THEN Fail(b)
  ELSE [b EXCEPT !.message = Store(@, path, FieldValue(path, values)),
                 !.presence = IF binding = "set" THEN RecordPath(@, path, FALSE) ELSE @]

\* The path sets these fields, whatever the form holds.
Covers(params, path) == \E key \in DOMAIN params : IsPrefix(Resolve(key), path)

ValuesOf(pairs, keys) ==
  LET chosen == SelectSeq(pairs, LAMBDA pair : pair[1] \in keys)
  IN [i \in DOMAIN chosen |-> chosen[i][2]]

BindResolved(b, path, values, binding, params) ==
  IF Covers(params, path) THEN b ELSE Assign(b, path, values, binding)

\* Fault: each spelling of a field is bound on its own.
BindPairsApart(b, pairs, prefix, binding, params) ==
  LET keys == {key \in {pair[1] : pair \in ToSet(pairs)} : Resolves(prefix \o key)}
  IN FoldLeft(LAMBDA acc, key : BindResolved(acc, Resolve(prefix \o key), ValuesOf(pairs, {key}),
                                             binding, params),
              b, SetToSeq(keys))

\* bind_pairs: the proto spellings first, each with its own values; a field that
\* also came under its JSON name is bound again with the values of both in the
\* order of the request, and only that outcome counts.  The order of the fields
\* decides which error is reported, nothing else.
BindPairs(b, pairs, prefix, binding, params) ==
  LET keys == {key \in {pair[1] : pair \in ToSet(pairs)} : Resolves(prefix \o key)}
      aliased == {Resolve(prefix \o key) : key \in {k \in keys : prefix \o k # Resolve(prefix \o k)}}
      plain == {key \in keys : prefix \o key = Resolve(prefix \o key)}
      own(acc, key) ==
        LET bound == BindResolved(acc, prefix \o key, ValuesOf(pairs, {key}), binding, params)
        IN IF bound.failed /\ prefix \o key \in aliased THEN acc ELSE bound
      merged(acc, path) ==
        BindResolved(acc, path, ValuesOf(pairs, {k \in keys : Resolve(prefix \o k) = path}),
                     binding, params)
  IN FoldLeft(merged, FoldLeft(own, b, SetToSeq(plain)), SetToSeq(aliased))

-----------------------------------------------------------------------------
\* A JSON body is the list of its keys in order, [depth, key, value], a key that
\* holds an object followed by the keys of the object one deeper.

\* The key an entry stands for, by its place under the entries before it.
KeyOf(body, i) ==
  LET parents == {j \in 1 .. i : \A k \in (j + 1) .. i : body[k].depth > body[j].depth}
  IN [d \in 1 .. (body[i].depth + 1) |->
        body[CHOOSE j \in parents : body[j].depth = d - 1].key]

Decodable(body) ==
  /\ \A i \in DOMAIN body :
       /\ Resolves(KeyOf(body, i)) /\ body[i].value # "bad"
       /\ (body[i].value = "object") <=> FieldAt(Resolve(KeyOf(body, i))).kind \in {"message", "special"}
  /\ \A i, j \in DOMAIN body : Resolves(KeyOf(body, i)) /\ Resolves(KeyOf(body, j)) =>
       LET f == FieldAt(Resolve(KeyOf(body, i)))
           g == FieldAt(Resolve(KeyOf(body, j)))
       IN f # g => f.oneof = "none" \/ f.oneof # g.oneof

\* deserialize_input: prost-reflect fills the message, Recording keeps the keys.
Deserialize(body) ==
  LET into(b, i) ==
        LET path == Resolve(KeyOf(body, i))
            value == IF body[i].value = "object" THEN <<"set">> ELSE <<body[i].value>>
        IN [b EXCEPT !.message = Store(@, path, value),
                     !.presence = Record(@, body[i].depth, body[i].key,
                                         IF body[i].value = "object" THEN "object" ELSE "whole")]
  IN IF ~Decodable(body) THEN Fail(Building(Empty, NoPresence))
     ELSE FoldLeft(into, Building(Empty, NoPresence), [i \in DOMAIN body |-> i])

\* strip_path_fields: the fields the path binds are taken out of the body.
StripPathFields(body, params) ==
  LET bound(i) == \E key \in DOMAIN params :
                    Resolves(KeyOf(body, i)) /\ IsPrefix(Resolve(key), Resolve(KeyOf(body, i)))
      kept == SelectSeq([i \in DOMAIN body |-> i], LAMBDA i : ~bound(i))
  IN [n \in DOMAIN kept |-> body[kept[n]]]

\* Fault: a body the path's own fields make undecodable is refused.
JsonBodyOnce(body, params) == Deserialize(body)

\* json_body: decoded as it is, and once more without the path's fields when
\* that fails.
JsonBody(body, params) ==
  LET first == Deserialize(body)
  IN IF ~first.failed \/ DOMAIN params = {} THEN first
     ELSE Deserialize(StripPathFields(body, params))

\* Under `body: "field"` the body is the value of that field.
UnderField(name, body) ==
  <<[depth |-> 0, key |-> FieldAt(<<name>>).json[1], value |-> "object"]>>
    \o [i \in DOMAIN body |-> [body[i] EXCEPT !.depth = @ + 1]]

FormBody(prefix, pairs, params) ==
  IF prefix = <<>> THEN BindPairs(Building(Empty, NoPresence), pairs, <<>>, "set", params)
  ELSE BindPairs(Building(Store(Empty, prefix, <<"set">>), RecordPath(NoPresence, prefix, TRUE)),
                 pairs, prefix, "set", params)

\* The message the body gives, by the rule's `body` and the body's media type; a
\* raw body is read elsewhere and only keeps its field.
BodyMessage(mapping, body, params) ==
  CASE mapping = "none" -> Building(Empty, NoPresence)
    [] mapping = "*" /\ body.type = "json" -> JsonBody(body.data, params)
    [] mapping = "*" /\ body.type = "form" -> FormBody(<<>>, body.data, params)
    [] mapping = "*" /\ body.type = "raw" -> Building(Empty, NoPresence)
    [] mapping \notin {"none", "*"} /\ body.type = "json" ->
         JsonBody(UnderField(mapping, body.data), params)
    [] mapping \notin {"none", "*"} /\ body.type = "form" -> FormBody(<<mapping>>, body.data, params)
    [] mapping \notin {"none", "*"} /\ body.type = "raw" ->
         Building(Empty, RecordPath(NoPresence, <<mapping>>, FALSE))

\* check_well_known: what was set from text inside a special message is checked
\* once all of it is there.
WellKnown(message) ==
  \A path \in Paths : Inside(path) /\ message[path] # <<>> => Last(message[path]) # "far"
SetInside(req) ==
  \/ \E key \in DOMAIN req.params : Inside(Resolve(key))
  \/ \E pair \in ToSet(req.query) \cup (IF req.mapping = "*" /\ req.body.type = "form"
                                        THEN ToSet(req.body.data) ELSE {}) :
       Resolves(pair[1]) /\ Inside(Resolve(pair[1]))

Build(req) ==
  LET body == BodyMessage(req.mapping, req.body, req.params)
      pathed == FoldLeft(LAMBDA b, key : Assign(b, Resolve(key), <<req.params[key]>>, "set"),
                         body, SetToSeq(DOMAIN req.params))
      none == [key \in {} |-> "none"]
      built == BindPairs(pathed, req.query, <<>>, "fill", none)
  IN IF built.failed \/ (SetInside(req) /\ ~WellKnown(built.message)) THEN [is |-> "refused", message |-> Empty]
     ELSE [is |-> "bound", message |-> built.message]

-----------------------------------------------------------------------------
Pending == [is |-> "pending", message |-> Empty]

Init ==
  /\ request \in [mapping : {"none", "*", "m"}, body : {[type |-> "raw", data |-> <<>>]},
                  params : PathParams, query : Queries]
       \cup [mapping : {"*", "m"}, body : [type : {"json"}, data : JsonBodies]
                                          \cup [type : {"form"}, data : FormBodies],
             params : PathParams, query : Queries]
  /\ result = Pending

BindRequest == result.is = "pending" /\ result' = Build(request) /\ UNCHANGED request
Next == BindRequest
Spec == Init /\ [][Next]_vars

-----------------------------------------------------------------------------
\* What the sources of a request say, without the order they are read in.

PathSays(path) == {key \in DOMAIN request.params : Resolve(key) = path}
OfField(path) == request.mapping = "*" \/ (request.mapping = path[1])
BodyKeys ==
  CASE request.body.type = "json" ->
         LET body == IF request.mapping = "*" THEN request.body.data
                     ELSE UnderField(request.mapping, request.body.data)
         IN {<<KeyOf(body, i), body[i].value>> : i \in DOMAIN body}
    [] OTHER -> {}
FormPrefix == IF request.mapping = "*" THEN <<>> ELSE <<request.mapping>>
Says(pairs, prefix, path) ==
  ValuesOf(pairs, {key \in {p[1] : p \in ToSet(pairs)} :
                     Resolves(prefix \o key) /\ Resolve(prefix \o key) = path})

\* The values the body gives a field: the last key that names it, or every
\* value of a form.
BodySays(path) ==
  IF request.body.type = "form" THEN FieldValue(path, Says(request.body.data, FormPrefix, path))
  ELSE LET body == IF request.mapping = "*" THEN request.body.data
                   ELSE UnderField(request.mapping, request.body.data)
           at == {i \in DOMAIN body : Resolves(KeyOf(body, i)) /\ Resolve(KeyOf(body, i)) = path}
       IN <<body[Max(at)].value>>
BodyHas(path) ==
  CASE request.mapping = "none" \/ request.body.type = "raw" -> FALSE
    [] request.body.type = "form" -> Says(request.body.data, FormPrefix, path) # <<>>
    [] request.body.type = "json" ->
         \E k \in BodyKeys : Resolves(k[1]) /\ Resolve(k[1]) = path

\* A field is the body's own when the body names it, names a message with a JSON
\* form of its own around it, or is a raw body its message is kept for.
BodyOwns(path) ==
  \/ BodyHas(path)
  \/ request.body.type = "json" /\ \E k \in BodyKeys :
       /\ Resolves(k[1]) /\ IsStrictPrefix(Resolve(k[1]), path)
       /\ FieldAt(Resolve(k[1])).kind = "special"
  \/ request.body.type = "raw" /\ request.mapping = path[1]

Leaves == {f.path : f \in {g \in Fields : g.kind \in {"scalar", "list"}}}
Expected(path) ==
  CASE PathSays(path) # {} -> <<request.params[CHOOSE k \in PathSays(path) : TRUE]>>
    [] PathSays(path) = {} /\ BodyHas(path) -> BodySays(path)
    [] OTHER -> IF BodyOwns(path) \/ Says(request.query, <<>>, path) = <<>> THEN <<>>
                ELSE FieldValue(path, Says(request.query, <<>>, path))

\* The message an accepted request binds to has, field by field, the path's
\* value, or else the body's, or else the query's: a query never reaches into
\* what the body set, in whichever spelling and even to its default, and the
\* values of a field spelled both ways count in the order of the request.  Of a
\* oneof it sets one field at most: no value is dropped without a word.
BoundAsSaid ==
  result.is = "bound" =>
    /\ \A path \in Leaves : result.message[path] = Expected(path)
    /\ \A f, g \in Fields :
         (f.oneof # "none" /\ f.oneof = g.oneof /\ result.message[f.path] # <<>>
            /\ result.message[g.path] # <<>>) => f = g

\* A request is refused only for what is wrong with a value that counts: one
\* that does not parse, a key the JSON body may not have, a field of a oneof
\* beside another, or a part out of range in a special message.
RefusedForCause ==
  result.is = "refused" =>
    \/ \E path \in Leaves : Expected(path) # <<>> /\ ToSet(Expected(path)) \cap {"bad", "far"} # {}
    \/ \E f, g \in Fields : /\ f # g /\ f.oneof # "none" /\ f.oneof = g.oneof
                            /\ \A h \in {f, g} : \/ PathSays(h.path) # {} \/ BodyHas(h.path)
                                                 \/ Says(request.query, <<>>, h.path) # <<>>
    \/ \E k \in BodyKeys : ~Resolves(k[1]) \/ (k[2] = "bad" /\ PathSays(Resolve(k[1])) = {})

=============================================================================
