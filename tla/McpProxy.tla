------------------------------ MODULE McpProxy ------------------------------
(***************************************************************************)
(* The guarded MCP proxy (integrations/mcp.py) with the guard, the session *)
(* and the catalogue it is made of.                                        *)
(*                                                                         *)
(* A call of an agent names an exposed tool.  The session verifies the     *)
(* token for the resource the name is gated as, runs the gate or redeems   *)
(* an approval, and only then is the call sent to the upstream the name is *)
(* routed to.  The approvals behind the gate are those of ApprovalContract,*)
(* which ActionGate implements; the request a call asks for has the name   *)
(* of the call.                                                            *)
(*                                                                         *)
(* The upstreams are named (the mapping form of the proxy) and external:   *)
(* ran holds the calls that were sent to them.                             *)
(***************************************************************************)
EXTENDS Decider, ToolNames

CONSTANTS
  Calls, Redemptions, Listings,  \* identifiers, each used once
  Upstreams,     \* name of an upstream to the tools it may have
  ToolMap,       \* --tool-map: some exposed names to the resource to gate
  Requests,      \* what agents send: [name, args, chain]; the token proves the
                 \* chain, [holder, depth, scope], holder its subject and actor
  ToolApprovals, ToolDenials,  \* the configured policies
  NoArguments    \* what a listing evaluates the policies with

ASSUME ProxyAssumption ==
  /\ \A s \in DOMAIN Upstreams :
       ValidUpstream(s) /\ s \in Seq(Characters) /\ Upstreams[s] \subseteq Seq(Characters)
  /\ \A q \in Requests : q.name \in Seq(Characters)
  /\ Calls \cap Redemptions = {} /\ Calls # {} /\ Requests # {}
  /\ Listings \cap (Calls \cup Redemptions) = {}

VARIABLES
  life, served,  \* the approvals
  revoked,       \* the sessions' tokens are on the revocation list
  journal,       \* the decisions recorded
  proxy,         \* the calls
  listing,       \* the listings
  ran            \* history: the calls sent to the upstreams

approvalVars == <<life, served>>
proxyVars    == <<life, served, revoked, journal, proxy, listing, ran>>

Approvals == INSTANCE ApprovalContract WITH Requests <- Calls, Callers <- Redemptions

ProxyCalls == Calls \cup Redemptions

Record(c, outcome) == journal' = journal \cup {<<c, outcome>>}

Journaled(c) == \E outcome \in {"ALLOW", "DENY", "REQUIRE_APPROVAL"} : <<c, outcome>> \in journal

-----------------------------------------------------------------------------
(* Names and resources                                                     *)

(* What _list_tools may collect from the pages of the upstreams.  The      *)
(* proxy's own hoc_redeem contains no separator, so that no upstream tool  *)
(* can be exposed under that name.                                         *)
Candidates ==
  UNION {{Prefixed(s, t) : t \in Upstreams[s]} : s \in DOMAIN Upstreams}

(* tool_resource: `tool:` is put in front unless it is there already.      *)
(* Resources are written without it.                                       *)
Unprefixed(r) == IF r # << >> /\ r[1] = ToolPrefix THEN Tail(r) ELSE r

(* ToolGuard.resource_for, as tool_resource then takes it.                 *)
Resource(name) ==
  Unprefixed(IF name \in DOMAIN ToolMap THEN ToolMap[name] ELSE DefaultResource(name))

(* validate_ref: a blank stands for every other character that a reference *)
(* lacks.                                                                  *)
ValidResource(r) == Len(r) > 0 /\ \A i \in DOMAIN r : r[i] \notin {ToolPrefix, " "}

(* GuardedMcpProxy._route                                                  *)
Routable(name) ==
  LET p == Partition(name) IN p.found /\ p.tool # << >> /\ p.server \in DOMAIN Upstreams

Wanted(c) == Resource(proxy[c].asks.name)

-----------------------------------------------------------------------------
(* _call_tool and _redeem, up to the verification of the token.            *)

(* A name that cannot be a resource is refused before the token is looked  *)
(* at, and nothing is journaled.                                           *)
Start(c) ==
  /\ proxy[c].pc = "idle"
  /\ \E q \in Requests, r \in Calls :
       proxy' = [proxy EXCEPT ![c] =
         [pc |-> IF ValidResource(Resource(q.name)) THEN "verify" ELSE "invalid",
          asks |-> q, req |-> IF c \in Calls THEN c ELSE r, late |-> revoked]]
  /\ UNCHANGED <<approvalVars, revoked, journal, listing, ran>>

(* Mutant: the answer the token got when the session was opened is kept.   *)
MutantTokenPermits(chain, r) == r \in chain.scope

(* TokenService.verify for (caller, act, resource); module Tokens has the  *)
(* whole of it.                                                            *)
TokenPermits(chain, r) == ~revoked /\ r \in chain.scope

(* Mutant: a refused token leaves no trace.                                *)
MutantVerifyToken(c) ==
  /\ proxy[c].pc = "verify"
  /\ proxy' = [proxy EXCEPT ![c].pc =
       IF TokenPermits(proxy[c].asks.chain, Wanted(c)) THEN "gated" ELSE "refused"]
  /\ UNCHANGED <<approvalVars, revoked, journal, listing, ran>>

(* AgentSession._verify: a token that is refused is a journaled denial.    *)
VerifyToken(c) ==
  /\ proxy[c].pc = "verify"
  /\ IF TokenPermits(proxy[c].asks.chain, Wanted(c))
     THEN proxy' = [proxy EXCEPT ![c].pc = "gated"] /\ UNCHANGED journal
     ELSE proxy' = [proxy EXCEPT ![c].pc = "refused"] /\ Record(c, "DENY")
  /\ UNCHANGED <<approvalVars, revoked, listing, ran>>

-----------------------------------------------------------------------------
(* The gate behind the session                                             *)

(* The decision is the decider's; approved tells it from a redemption.     *)
Decided(c, answer, approved) ==
  Evaluate(proxy[c].asks.chain, Wanted(c), answer,
           PolicyVerdict(ToolApprovals, ToolDenials, Wanted(c), proxy[c].asks.args, approved))

(* Mutant: a call that waits for its approval is forwarded.                *)
MutantForwards(outcome) == outcome # "DENY"

(* ToolGuard.authorize and _redeem: anything but ALLOW is an error result. *)
Forwards(outcome) == outcome = "ALLOW"

(* AgentSession.authorize: the gate journals its decision and asks for an  *)
(* approval when one is needed, before it answers.                         *)
Authorize(c) ==
  /\ proxy[c].pc = "gated" /\ c \in Calls
  /\ \E a \in Answers :
       LET outcome == Decided(c, a, FALSE) IN
       /\ Record(c, outcome)
       /\ IF outcome = "REQUIRE_APPROVAL" THEN Approvals!Ask(c) ELSE UNCHANGED approvalVars
       /\ proxy' = [proxy EXCEPT ![c].pc = IF Forwards(outcome) THEN "allowed" ELSE "refused"]
  /\ UNCHANGED <<revoked, listing, ran>>

(* What a request keeps of a chain: subject, actor and depth, not scope.   *)
Identity(chain) == <<chain.holder, chain.depth>>

(* Mutant: the arguments of the redemption are not compared.               *)
MutantSameCall(c, r) ==
  /\ Wanted(c) = Wanted(r)
  /\ Identity(proxy[c].asks.chain) = Identity(proxy[r].asks.chain)

(* The request binds the resource, the arguments and who asked; the token  *)
(* that redeems may be another one, of another scope.                      *)
SameCall(c, r) ==
  /\ Wanted(c) = Wanted(r)
  /\ proxy[c].asks.args = proxy[r].asks.args
  /\ Identity(proxy[c].asks.chain) = Identity(proxy[r].asks.chain)

(* AgentSession.redeem claims the approval ...                             *)
Claim(c) ==
  /\ proxy[c].pc = "gated" /\ c \in Redemptions
  /\ LET r == proxy[c].req IN
     IF life[r] = "granted" /\ SameCall(c, r)
     THEN /\ Approvals!Use(r)
          /\ proxy' = [proxy EXCEPT ![c].pc = "claimed"]
          /\ UNCHANGED journal
     ELSE /\ Record(c, "DENY")
          /\ proxy' = [proxy EXCEPT ![c].pc = "refused"]
          /\ UNCHANGED approvalVars
  /\ UNCHANGED <<revoked, listing, ran>>

(* ... and then decides again, with the approval in hand.                  *)
Confirm(c) ==
  /\ proxy[c].pc = "claimed"
  /\ \E a \in Answers :
       LET outcome == Decided(c, a, TRUE) IN
       /\ Record(c, outcome)
       /\ IF Forwards(outcome)
          THEN /\ Approvals!Serve(proxy[c].req, c)
               /\ proxy' = [proxy EXCEPT ![c].pc = "allowed"]
          ELSE /\ UNCHANGED approvalVars
               /\ proxy' = [proxy EXCEPT ![c].pc = "refused"]
  /\ UNCHANGED <<revoked, listing, ran>>

(* _forward: a name that routes nowhere is an error, whether or not an     *)
(* approval was used up for it.                                            *)
Forward(c) ==
  /\ proxy[c].pc = "allowed"
  /\ IF Routable(proxy[c].asks.name)
     THEN LET p == Partition(proxy[c].asks.name) IN
          /\ ran' = ran \cup {[call |-> c, server |-> p.server, tool |-> p.tool,
                              args |-> proxy[c].asks.args]}
          /\ proxy' = [proxy EXCEPT ![c].pc = "sent"]
     ELSE ran' = ran /\ proxy' = [proxy EXCEPT ![c].pc = "unroutable"]
  /\ UNCHANGED <<approvalVars, revoked, journal, listing>>

(* A store or the journal fails, or the process dies.                      *)
Abort(c) ==
  /\ proxy[c].pc \in {"verify", "gated", "claimed", "allowed"}
  /\ proxy' = [proxy EXCEPT ![c].pc = "raised"]
  /\ UNCHANGED <<approvalVars, revoked, journal, listing, ran>>

-----------------------------------------------------------------------------
(* _list_tools: visible_tools over the candidates.                         *)

(* The upstreams offer some of their tools.  With none, neither the token  *)
(* nor the journal is touched.  Then session.chain and session.permits; a  *)
(* token that is refused shows nothing, and that is journaled.             *)
ListTools(l) ==
  /\ listing[l].pc = "idle"
  /\ \E s \in {q.chain : q \in Requests}, offered \in SUBSET Candidates :
       LET At(pc, names) == listing' = [listing EXCEPT ![l] =
             [pc |-> pc, chain |-> s, offered |-> offered, names |-> names]]
       IN  \/ offered = {} /\ At("done", {}) /\ UNCHANGED journal
           \/ offered # {} /\ revoked /\ At("done", {}) /\ Record(l, "DENY")
           \/ /\ offered # {} /\ ~revoked
              /\ At("decide", {n \in offered : ValidResource(Resource(n))
                                               /\ TokenPermits(s, Resource(n))})
              /\ UNCHANGED journal
  /\ UNCHANGED <<approvalVars, revoked, proxy, ran>>

(* decide_each without arguments: one batch, which may fail.  Only a       *)
(* denial hides a tool, not the approval it needs.                         *)
ListDecide(l) ==
  /\ listing[l].pc = "decide"
  /\ LET s == listing[l].chain
     IN  \E related \in SUBSET {Resource(n) : n \in listing[l].names}, answered \in BOOLEAN :
           listing' = [listing EXCEPT ![l] = [@ EXCEPT !.pc = "record",
             !.names = {n \in listing[l].names : "DENY" #
               EvaluateEach(Resource(n) \in s.scope, Resource(n), related, answered,
                 PolicyVerdict(ToolApprovals, ToolDenials, Resource(n), NoArguments, FALSE))}]]
  /\ UNCHANGED <<approvalVars, revoked, journal, proxy, ran>>

ListRecord(l) ==
  /\ listing[l].pc = "record"
  /\ Record(l, IF listing[l].names = {} THEN "DENY" ELSE "ALLOW")
  /\ listing' = [listing EXCEPT ![l].pc = "done"]
  /\ UNCHANGED <<approvalVars, revoked, proxy, ran>>

-----------------------------------------------------------------------------
(* The rest of the world: the humans and time settle the requests, and the *)
(* owner revokes the token.                                                *)

Settle(r) ==
  /\ Approvals!Approve(r) \/ Approvals!Close({r})
  /\ UNCHANGED <<revoked, journal, proxy, listing, ran>>

Revoke ==
  /\ ~revoked
  /\ revoked' = TRUE
  /\ UNCHANGED <<approvalVars, journal, proxy, listing, ran>>

ProxyInit ==
  /\ Approvals!Init
  /\ revoked = FALSE
  /\ journal = {}
  /\ proxy = [c \in ProxyCalls |->
       [pc |-> "idle", asks |-> CHOOSE q \in Requests : TRUE,
        req |-> CHOOSE r \in Calls : TRUE, late |-> FALSE]]
  /\ listing = [l \in Listings |->
       [pc |-> "idle", chain |-> (CHOOSE q \in Requests : TRUE).chain,
        offered |-> {}, names |-> {}]]
  /\ ran = {}

CallStep ==
  \/ \E c \in ProxyCalls : Start(c) \/ VerifyToken(c) \/ Authorize(c) \/ Claim(c)
                           \/ Confirm(c) \/ Forward(c) \/ Abort(c)
  \/ \E r \in Calls : Settle(r)
  \/ Revoke

ListStep ==
  \/ \E l \in Listings : ListTools(l) \/ ListDecide(l) \/ ListRecord(l)
  \/ Revoke

ProxyNext == CallStep \/ ListStep

ProxySpec == ProxyInit /\ [][ProxyNext]_proxyVars

-----------------------------------------------------------------------------
(* Properties                                                              *)

(* The call a sent call was authorised as: its own, or the one a human     *)
(* approved.                                                               *)
Asked(c) == proxy[proxy[c].req].asks

(* What reaches an upstream was allowed for the resource its server and    *)
(* tool are gated as, for the arguments sent and for whoever asked, at the *)
(* same depth of delegation (gate.py:235-239).  A request does not keep    *)
(* the scope, so an approval may be redeemed with a token of another one:  *)
(* the token that asked and the token that redeems each cover the          *)
(* resource.  One approval is good for one call, and a call that was told  *)
(* to wait is never sent itself (mcp.py, _call_tool, _redeem, _forward).   *)
RanWasAuthorized ==
  /\ \A e \in ran :
       LET r == proxy[e.call].req
           q == proxy[e.call].asks
       IN
       /\ Resource(Asked(e.call).name) = Resource(Prefixed(e.server, e.tool))
       /\ Asked(e.call).args = e.args
       /\ Identity(Asked(e.call).chain) = Identity(q.chain)
       /\ Resource(Asked(e.call).name) \in Asked(e.call).chain.scope \cap q.chain.scope
       /\ life[r] = IF e.call \in Calls THEN "none" ELSE "used"
  /\ \A e, f \in ran : proxy[e.call].req = proxy[f.call].req => e = f

(* Nothing is cached between calls (session.py:3): a call that starts      *)
(* after the token is revoked never reaches an upstream.                   *)
RevokedReachesNothing == \A e \in ran : ~proxy[e.call].late

(* What an agent is told and what the journal says.  A call that was sent  *)
(* has its ALLOW there.  A refusal has its event ("never an unlogged       *)
(* denial", session.py:85) if and only if the name can be a resource: the  *)
(* others are turned away before the token is looked at (session.py:104),  *)
(* and no event says so.  A list that was shown has one if and only if the *)
(* upstreams offered anything (catalog.py:42); it shows no tool that was   *)
(* not offered or that the token may not be used for, nor, unless the name *)
(* of an upstream ends in an underscore (ListedLeadsBack), a name that     *)
(* leads to another upstream or tool than the one it stands for.  A tool   *)
(* without a name is shown and leads nowhere.                              *)
AnswersMatchJournal ==
  /\ \A c \in ProxyCalls :
       /\ proxy[c].pc = "refused" =>
            <<c, "DENY">> \in journal \/ <<c, "REQUIRE_APPROVAL">> \in journal
       /\ proxy[c].pc \in {"refused", "invalid"} =>
            (Journaled(c) <=> ValidResource(Wanted(c)))
       /\ proxy[c].pc \in {"sent", "unroutable"} => <<c, "ALLOW">> \in journal
  /\ \A l \in Listings : listing[l].pc = "done" =>
       /\ Journaled(l) <=> listing[l].offered # {}
       /\ Journaled(l) => <<l, IF listing[l].names = {} THEN "DENY" ELSE "ALLOW">> \in journal
       /\ \A n \in listing[l].names :
            /\ n \in listing[l].offered /\ Resource(n) \in listing[l].chain.scope
            /\ (\A s \in DOMAIN Upstreams : s[Len(s)] # Underscore) =>
                 LET p == Partition(n)
                 IN  /\ p.server \in DOMAIN Upstreams /\ p.tool \in Upstreams[p.server]
                     /\ Routable(n) \/ p.tool = << >>

(* "No `__` in a server name, so `<server>__<tool>` splits on the first    *)
(* separator whatever the upstream tool is called" (mcp.py:46-47): a name  *)
(* that is shown leads back to the upstream and the tool it was made from. *)
ListedLeadsBack ==
  \A l \in Listings : listing[l].pc = "done" =>
    \A s \in DOMAIN Upstreams : \A t \in Upstreams[s] :
      Prefixed(s, t) \in listing[l].names =>
        Partition(Prefixed(s, t)) = [server |-> s, found |-> TRUE, tool |-> t]

-----------------------------------------------------------------------------
(* The inductive invariant: what a call knows at the point it has reached. *)

ProxyPcs == {"idle", "verify", "invalid", "gated", "claimed", "allowed", "sent",
             "unroutable", "refused", "raised"}

(* The approvals, the calls and the listings are well formed.              *)
ProxyTypeOK ==
  /\ life \in [Calls -> {"none", "asked", "granted", "closed", "used"}]
  /\ revoked \in BOOLEAN
  /\ proxy \in [ProxyCalls -> [pc : ProxyPcs, asks : Requests, req : Calls, late : BOOLEAN]]
  /\ listing \in [Listings -> [pc : {"idle", "decide", "record", "done"},
                               chain : {q.chain : q \in Requests},
                               offered : SUBSET Candidates, names : SUBSET Candidates]]

Verified(c) == proxy[c].pc \in {"gated", "claimed", "allowed", "sent", "unroutable"}
Holds(c)    == proxy[c].pc \in {"claimed", "allowed", "sent", "unroutable"}
Sending(c)  == LET p == Partition(proxy[c].asks.name) IN
  [call |-> c, server |-> p.server, tool |-> p.tool, args |-> proxy[c].asks.args]

(* A call is its own request; a token was good after the call began; a     *)
(* redemption that goes on has used up an approval of the same call.       *)
CallKnows(c) ==
  /\ c \in Calls /\ proxy[c].pc # "idle" => proxy[c].req = c
  /\ proxy[c].pc = "claimed" => c \in Redemptions
  /\ proxy[c].pc # "idle" => (proxy[c].pc = "invalid" <=> ~ValidResource(Wanted(c)))
  /\ proxy[c].pc \in {"idle", "invalid"} => ~Journaled(c)
  /\ proxy[c].pc = "verify" /\ proxy[c].late => revoked
  /\ Verified(c) => ~proxy[c].late /\ Wanted(c) \in proxy[c].asks.chain.scope
  /\ c \in Redemptions /\ Holds(c) =>
       life[proxy[c].req] = "used" /\ SameCall(c, proxy[c].req)
  /\ proxy[c].pc \in {"allowed", "sent", "unroutable"} => <<c, "ALLOW">> \in journal
  /\ proxy[c].pc = "refused" =>
       <<c, "DENY">> \in journal \/ <<c, "REQUIRE_APPROVAL">> \in journal

(* A call that asked for an approval goes no further itself; its token     *)
(* covered what it asked for.                                              *)
AskersWait ==
  \A r \in Calls : life[r] # "none" =>
    proxy[r].pc = "refused" /\ Wanted(r) \in proxy[r].asks.chain.scope

OneHolder ==
  \A c, d \in Redemptions :
    Holds(c) /\ Holds(d) /\ proxy[c].req = proxy[d].req => c = d

RanIsSent ==
  \A e \in ran :
    /\ e.call \in ProxyCalls
    /\ proxy[e.call].pc = "sent"
    /\ Routable(proxy[e.call].asks.name)
    /\ e = Sending(e.call)

ListKnows(l) ==
  /\ listing[l].pc = "idle" => ~Journaled(l)
  /\ listing[l].pc \in {"decide", "record"} => listing[l].offered # {}
  /\ listing[l].names \subseteq listing[l].offered
  /\ \A n \in listing[l].names : Resource(n) \in listing[l].chain.scope
  /\ listing[l].pc = "done" =>
       IF listing[l].offered = {} THEN ~Journaled(l)
       ELSE <<l, IF listing[l].names = {} THEN "DENY" ELSE "ALLOW">> \in journal

ProxyInv ==
  /\ ProxyTypeOK
  /\ \A c \in ProxyCalls : CallKnows(c)
  /\ AskersWait
  /\ OneHolder
  /\ RanIsSent
  /\ \A l \in Listings : ListKnows(l)
=============================================================================
