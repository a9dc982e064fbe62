-------------------------- MODULE MCParsedRequest --------------------------
(* Instances of ParsedRequest for TLC *)
EXTENDS ParsedRequest

OneKeyOfEach == {<<"a">>, <<"a", "b">>}
OneValue == {<<"u">>}

\* "name: v", "name:v" and "name:"
RestsOfEachForm == {<<SP, "v">>, <<"v">>, <<>>}
=============================================================================
