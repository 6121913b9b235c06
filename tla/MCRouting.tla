----------------------------- MODULE MCRouting -----------------------------
(***************************************************************************)
(* Rules, other routes and requests for model checking Routing: every      *)
(* kind of template, verbs on variables, catch-alls and literals, router   *)
(* paths that share a shape, overlap or conflict.                          *)
(***************************************************************************)
EXTENDS Routing

Rule(method, pieces, verb) == [method |-> method, pieces |-> pieces, verb |-> verb]
A == Literal("a", "")

RuleSet == {
  Rule("GET",  <<A, Variable>>, ""),
  Rule("POST", <<Variable, Variable>>, ""),
  Rule("POST", <<Variable, Variable>>, ":v"),
  Rule("GET",  <<A, Variable>>, ":v"),
  Rule("POST", <<A, Field(<<"**">>)>>, ":v"),
  Rule("GET",  <<A, Literal("b", ":v")>>, ""),
  Rule("HEAD", <<A, Variable>>, ""),
  Rule("*",    <<A, Field(<<"b">>)>>, ""),
  Rule("GET",  <<A, Field(<<"b", "*">>)>>, ""),
  Rule("POST", <<A, Field(<<"b", "**">>)>>, ""),
  Rule("GET",  <<Field(<<"%e", "*">>), Variable>>, ""),
  Rule("POST", <<Variable, Literal("b", "")>>, ""),
  Rule("HEAD", <<A, Field(<<"b">>)>>, ""),
  Rule("POST", <<A, Field(<<"b">>)>>, ""),
  Rule("GET",  <<Variable, Field(<<"%e">>)>>, ""),
  Rule("GET",  <<A, Field(<<"**", "b">>)>>, "")}

Other(method, path) == [method |-> method, path |-> path]
OtherRoutes == {
  {},
  {Other("GET", <<<<"a", "">>, AnySeg>>)},
  {Other("*", <<<<"a", "">>, <<"b", "">>>>), Other("GET", <<<<"x", "">>, AnySeg>>)},
  {Other("GET", <<AnySeg, <<"b", "">>>>)}}

Seg(text) == <<text, "">>
RequestPaths == {
  <<Seg("a"), Seg("")>>, <<Seg("a"), Seg("b")>>, <<Seg("a"), Seg("x")>>,
  <<Seg("x"), Seg("b")>>, <<Seg("a"), <<"b", ":v">>>>, <<Seg("a"), <<"x", ":v">>>>,
  <<Seg("a"), <<"", ":v">>>>, <<Seg("x"), <<"x", ":v">>>>, <<Seg("x"), <<"", ":v">>>>,
  <<Seg("a"), <<"b", ":w">>>>, <<Seg("a"), Seg("%E")>>,
  <<Seg("a"), Seg("b"), Seg("")>>, <<Seg("a"), Seg("b"), Seg("x")>>,
  <<Seg("a"), Seg("b"), <<"x", ":v">>>>,
  <<Seg("%e"), Seg(""), Seg("x")>>, <<Seg("%E"), Seg("x"), Seg("b")>>}
=============================================================================
