------------------------------ MODULE MCTokens ------------------------------
(* Small instances of Tokens: two resources, one a prefix of nothing else, *)
(* and scopes that are nested by a pattern.                                *)
EXTENDS Tokens, TLC

CONSTANTS a1, a2, u1, u2

Cap(kind, text, pattern) == [kind |-> kind, text |-> text, pattern |-> pattern]

AllDocs == Cap("read", <<"d">>, TRUE)
DocOne  == Cap("read", <<"d", "1">>, FALSE)

MCAgents == {a1, a2}
MCUsers  == {u1, u2}
MCScopes == {{AllDocs}, {DocOne}, {}}
WideOnly == {{AllDocs}}
MCAsks   == {[kind |-> "read", text |-> <<"d", "2">>]}
=============================================================================
