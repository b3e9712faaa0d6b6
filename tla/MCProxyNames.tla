---------------------------- MODULE MCProxyNames ----------------------------
(* Two upstreams of the MCP proxy, one with a name that ends in an         *)
(* underscore, and a token that is good for every tool of the other.       *)
EXTENDS McpProxy, TLC

UnderscoreUpstreams == <<"a", "_">> :> {<<"x">>} @@ <<"a">> :> {<<"y">>}

NoMap == << >>

WholeOfA ==
  {[name |-> Prefixed(<<"a">>, <<"y">>), args |-> "none",
   chain |-> [holder |-> "bot", depth |-> 1,
              scope |-> {<<"a", "/", "y">>, <<"a", "/", "_", "x">>}]]}
=============================================================================
