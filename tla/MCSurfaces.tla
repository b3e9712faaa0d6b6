----------------------------- MODULE MCSurfaces -----------------------------
(***************************************************************************)
(* Small instances of the parts at the edge of the system: the MCP proxy,  *)
(* the rate limiter, the verification of the identity provider's tokens,   *)
(* the start of the service, the connectors' reads and the read filter.    *)
(* They share no state, so that a behaviour is one of one part: focus says *)
(* of which.                                                               *)
(***************************************************************************)
EXTENDS McpProxy, RateLimiter, OidcProvider, Startup, Connectors, ReadFilter

VARIABLE focus

surfaceVars ==
  <<focus, clock, proxyVars, limiterVars, providerVars, startupVars, connectorVars, filterVars>>

-----------------------------------------------------------------------------
(* The proxy: a tool of b whose name contains the separator, and one that  *)
(* is gated as the tool x of a.  Four chains differ from the first one in  *)
(* one respect: the depth, the holder, and twice the scope.                *)

AX == <<"a", "/", "x">>
BX == <<"b", "/", "a", "_", "_", "x">>
BAX == <<"b", "_", "_", "a", "/", "x">>  \* what a wrong split of the latter would be gated as

MCUpstreams == <<"a">> :> {<<"x">>} @@ <<"b">> :> {<<"a", "_", "_", "x">>, <<"y">>}
MCToolMap   == Prefixed(<<"b">>, <<"y">>) :> AX

ToolChain(holder, depth, scope) == [holder |-> holder, depth |-> depth, scope |-> scope]

ToolDirect    == ToolChain("bot", 1, {AX, BX, BAX, <<"c", "/">>})
ToolDelegated == ToolChain("bot", 2, {AX})
ToolOther     == ToolChain("sub", 1, {AX})
ToolReissued  == ToolChain("bot", 1, {AX})
ToolWithout   == ToolChain("bot", 1, {BX})

Request(name, args, chain) == [name |-> name, args |-> args, chain |-> chain]

MCRequests ==
  {Request(Prefixed(<<"a">>, <<"x">>), "big", ToolDirect),
   Request(Prefixed(<<"a">>, <<"x">>), "small", ToolDirect),
   Request(Prefixed(<<"a">>, <<"x">>), "big", ToolDelegated),
   Request(Prefixed(<<"a">>, <<"x">>), "big", ToolOther),
   Request(Prefixed(<<"a">>, <<"x">>), "big", ToolReissued),
   Request(Prefixed(<<"a">>, <<"x">>), "big", ToolWithout),
   Request(<<ToolPrefix>> \o Prefixed(<<"a">>, <<"x">>), "big", ToolDirect),
   Request(Prefixed(<<"b">>, <<"y">>), "big", ToolDirect),
   Request(Prefixed(<<"b">>, <<"a", "_", "_", "x">>), "big", ToolDirect),
   Request(<<"c">>, "big", ToolDirect),
   Request(Prefixed(<<"a">>, <<" ">>), "big", ToolDirect)}

MCToolApprovals == {[tools |-> {AX}, when |-> ("big" :> "yes" @@ "small" :> "no" @@ "none" :> "yes")]}

-----------------------------------------------------------------------------
(* Tokens: Keycloak's, with a human who chose the name of a service        *)
(* account, and Entra's, with an agent's token that names no client.       *)

Keycloak == [value |-> AnyValue, fallback |-> TRUE]
Entra    == [value |-> "app", fallback |-> FALSE]

Issued(holder, detection, marker, id, azp, service, name, subject) ==
  {[holder |-> holder, detection |-> detection,
    claims |-> [ours |-> TRUE, exp |-> exp, marker |-> marker, id |-> id, azp |-> azp,
                username |-> [service |-> service, name |-> name], subject |-> subject]]
   : exp \in {0, MaxClock}}

Bot == [kind |-> "agent", ref |-> "bot"]

MCIssuedTokens == UNION {
  Issued(Bot, Keycloak, "bot", "bot", "bot", TRUE, "bot", "service-account-bot"),
  Issued(Bot, Keycloak, "", "", "bot", TRUE, "bot", "service-account-bot"),
  Issued(User("ann"), Keycloak, "", "", "portal", FALSE, "ann", "ann"),
  Issued(User("service-account-bot"), Keycloak, "", "", "portal", TRUE, "bot", "service-account-bot"),
  Issued(Bot, Entra, "app", "", "bot", FALSE, "", "bot"),
  Issued(Bot, Entra, "app", "", "", FALSE, "", "bot"),
  Issued(User("ann"), Entra, "user", "", "portal", FALSE, "ann", "ann")}

-----------------------------------------------------------------------------
(* Replicas: two releases that migrate, and one that does not.             *)

CONSTANTS oldRelease, newRelease, strictRelease

MCLatest == oldRelease :> 1 @@ newRelease :> 3 @@ strictRelease :> 3

-----------------------------------------------------------------------------
(* Sources                                                                 *)

ann == Person("ann")
bob == Person("bob")

Dir(path)       == [path |-> path, dir |-> TRUE, doc |-> ""]
File(path, doc) == [path |-> path, dir |-> FALSE, doc |-> doc]

Share(path, type, name, update) == [path |-> path, type |-> type, name |-> name, update |-> update]

CloudTree ==
  {Dir(<< >>), Dir(<<"A">>), Dir(<<"A", "B">>), File(<<"A", "x">>, "x"),
   File(<<"A", "B", "y">>, "y"), File(<<"A", "?">>, "?"), File(<<"z">>, "z")}

AnnOnA == Share(<<"A">>, "user", "ann", FALSE)

CloudShares ==
  {AnnOnA, Share(<<"A", "B">>, "user", "bob", TRUE), Share(<<"A", "x">>, "group", "g", TRUE),
   Share(<<"..">>, "user", "ann", TRUE), Share(<<"z">>, "link", "ann", FALSE),
   Share(<<"z">>, "user", "?", FALSE)}

(* A share is withdrawn; two files change places.                          *)
NextcloudWorlds ==
  {[entries |-> CloudTree, shares |-> CloudShares],
   [entries |-> CloudTree, shares |-> CloudShares \ {AnnOnA}],
   [entries |-> {IF e.doc = "x" THEN [e EXCEPT !.doc = "z"] ELSE
                 IF e.doc = "z" THEN [e EXCEPT !.doc = "x"] ELSE e : e \in CloudTree},
    shares |-> CloudShares]}

DiskTree ==
  {[path |-> <<"A", "x">>, doc |-> "x"], [path |-> <<"A", "B", "C", "y">>, doc |-> "y"],
   [path |-> <<"z">>, doc |-> "z"]}

Folder(s, v)   == [source |-> s, viewers |-> v, editors |-> {}]
Lists(v, e)    == [viewers |-> v, editors |-> e]

(* A folder without a source, and then one that shares its source.         *)
Manifests ==
  {[folders |-> <<"A">> :> Folder("s", {ann}) @@ <<"A", "B">> :> Folder("", {}),
    documents |-> <<"A", "B", "C", "y">> :> Lists({}, {bob})],
   [folders |-> <<"A">> :> Folder("s", {bob}) @@ <<"A", "B", "C">> :> Folder("s", {}),
    documents |-> <<"z">> :> Lists({ann}, {})]}

FilesWorlds == [manifest : Manifests, tree : {DiskTree}]

Permission(type, name, local, r) ==
  [type |-> type, name |-> name, local |-> local, relationship |-> r]

OwnedByAnn == [kb |-> "k", permissions |-> {Permission("user", "ann@x", "ann", "OWNER"),
                                            Permission("user", "bob@x", "bob", "COMMENTER")}]
ForGroup   == [kb |-> "k", permissions |-> {Permission("group", "g", "g", "READER")}]
ForBob     == [kb |-> "", permissions |-> {Permission("user", "bob", "bob", "READER")}]

(* A record is deleted, and with it the positions of the others; two       *)
(* records swap their permissions.                                         *)
PipesHubWorlds ==
  {[list |-> <<"r1", "r2", "r3">>, record |-> "r1" :> OwnedByAnn @@ "r2" :> ForGroup @@ "r3" :> ForBob],
   [list |-> <<"r2", "r3">>, record |-> "r2" :> ForGroup @@ "r3" :> ForBob],
   [list |-> <<"r1", "r2", "r3">>, record |-> "r1" :> ForGroup @@ "r2" :> OwnedByAnn @@ "r3" :> ForBob]}

(* g3 is a child of g1 and g4 a child of g3, both to be asked for; g5 comes *)
(* with g2.                                                                *)
GroupsNamed(path) ==
  [g1 |-> [path |-> "a", inline |-> {}, lazy |-> {"g3"}],
   g2 |-> [path |-> path, inline |-> {"g5"}, lazy |-> {}],
   g3 |-> [path |-> "a/c", inline |-> {}, lazy |-> {"g4"}],
   g4 |-> [path |-> "a/c/d", inline |-> {}, lazy |-> {}],
   g5 |-> [path |-> "b/e", inline |-> {}, lazy |-> {}]]

Member(name) == [name |-> name, enabled |-> TRUE]

MembersOf(first) ==
  [g1 |-> first, g2 |-> <<Member("bob")>>,
   g3 |-> <<Member("ann"), [name |-> "dora", enabled |-> FALSE]>>,
   g4 |-> <<Member("ann")>>, g5 |-> <<Member("bob")>>]

(* A member leaves a group, and another moves up a page; a group is renamed. *)
KeycloakWorlds ==
  {[top |-> <<"g1", "g2">>, group |-> GroupsNamed(p), members |-> MembersOf(m)] :
     p \in {"b", "a2"}, m \in {<<Member("ann"), Member("bob")>>, <<Member("bob")>>}}

MCWorlds == [nextcloud |-> NextcloudWorlds, files |-> FilesWorlds,
             pipeshub |-> PipesHubWorlds, keycloak |-> KeycloakWorlds]

-----------------------------------------------------------------------------
(* Documents in batches of two: the batch strategy needs a second batch    *)
(* exactly when auto would have listed.  The policies hold back the first. *)

MCPolicy == <<"REQUIRE_APPROVAL", "ALLOW", "ALLOW">>

-----------------------------------------------------------------------------
Parts == {"proxy", "listing", "limiter", "provider", "startup", "connectors", "filter"}

SurfacesInit ==
  /\ focus \in Parts
  /\ clock = 0
  /\ ProxyInit /\ LimiterInit /\ ProviderInit /\ StartupInit /\ ConnectorsInit
  /\ FilterInit
  /\ focus # "connectors" => connector = "files" /\ source = CHOOSE w \in FilesWorlds : TRUE
  /\ focus # "filter" => rights = {}

SurfacesNext ==
  \/ /\ focus = "proxy" /\ CallStep
     /\ UNCHANGED <<focus, clock, limiterVars, providerVars, startupVars, connectorVars,
                    filterVars>>
  \/ /\ focus = "listing" /\ ListStep
     /\ UNCHANGED <<focus, clock, limiterVars, providerVars, startupVars, connectorVars,
                    filterVars>>
  \/ /\ focus = "limiter" /\ LimiterStep
     /\ UNCHANGED <<focus, proxyVars, providerVars, startupVars, connectorVars, filterVars>>
  \/ /\ focus = "provider" /\ ProviderStep
     /\ UNCHANGED <<focus, proxyVars, limiterVars, startupVars, connectorVars, filterVars>>
  \/ /\ focus = "startup" /\ StartupNext
     /\ UNCHANGED <<focus, clock, proxyVars, limiterVars, providerVars, connectorVars, filterVars>>
  \/ /\ focus = "connectors" /\ ConnectorsNext
     /\ UNCHANGED <<focus, clock, proxyVars, limiterVars, providerVars, startupVars, filterVars>>
  \/ /\ focus = "filter" /\ FilterNext
     /\ UNCHANGED <<focus, clock, proxyVars, limiterVars, providerVars, startupVars, connectorVars>>

SurfacesSpec == SurfacesInit /\ [][SurfacesNext]_surfaceVars
=============================================================================
