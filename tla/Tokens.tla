------------------------------- MODULE Tokens -------------------------------
(***************************************************************************)
(* Tokens (tokens/biscuit/service.py), the revocation list, and the        *)
(* standing mandates tokens are issued under (tokens/mandates.py).         *)
(*                                                                         *)
(* A token is the sequence of its signed blocks: the authority block first *)
(* and one block per delegation, which declares who it is for and what for *)
(* (the trail) and holds the check the authorizer runs.  A holder may      *)
(* append blocks of his own with the biscuit library; one without a trail  *)
(* is opaque: it restricts and leaves the chain as it is.  Signatures      *)
(* cannot be forged, so a block is named after the call that made it (its  *)
(* revocation id) and a token after its last block.                        *)
(*                                                                         *)
(* Every call is a sequence of steps: MandateService and TokenService run  *)
(* in threads (core/blocking.py), and each access to a store, the journal, *)
(* the engine or the clock may interleave with others.  Mandate writes are *)
(* unconditional updates of a copy read earlier.                           *)
(*                                                                         *)
(* Nothing here reads the journal, so an event is only the point at which  *)
(* a call may still fail; a call that ends without a result leaves its     *)
(* locals behind.                                                          *)
(***************************************************************************)
EXTENDS Scope, Integers, FiniteSets

CONSTANTS
  Mandates,                 \* mandate identifiers; one create call each
  IssueCalls, Delegations,  \* issue and attenuate calls, and a holder's own
                            \* blocks, naming their tokens
  VerifyCalls, RevokeCalls, \* verify / inspect calls; revocations
  Users, Agents,
  Scopes, Asks,             \* scopes in use; [kind, text] operations asked for
  MaxTTLs, TTLs,            \* max_token_ttl values; ttl values asked for (0: none)
  DefaultTTL,               \* TokenService._ttl
  MaxLife,                  \* max_days
  MaxDepth,                 \* MAX_DELEGATION_DEPTH
  MaxClock,                 \* bound on the clock
  NoMandate

ASSUME TokenConstants ==
  /\ MaxTTLs \subseteq Nat \ {0} /\ TTLs \subseteq Nat
  /\ DefaultTTL \in Nat \ {0} /\ MaxLife \in Nat /\ MaxDepth \in Nat /\ MaxClock \in Nat
  /\ NoMandate \notin Mandates \cup IssueCalls \cup Delegations
  /\ \A s \in Scopes : \A cap \in s : Len(cap.text) \in Nat
  /\ \A ask \in Asks : Len(ask.text) \in Nat
  /\ Mandates \cap (IssueCalls \cup Delegations) = {}
  /\ IssueCalls \cap Delegations = {}
  /\ Users # {} /\ Agents # {} /\ Scopes # {} /\ MaxTTLs # {} /\ Mandates # {}
  /\ IssueCalls # {} /\ Asks # {}

VARIABLES
  clock,
  mandates,  \* the mandates table
  revoked,   \* token_revocations: block names and mandate identifiers
  tokens,    \* the tokens handed out so far, by last block
  creating,  \* where each create call is
  issue, verify, revoke   \* the calls, by identifier

vars == <<clock, mandates, revoked, tokens, creating, issue, verify, revoke>>

TokenNames == IssueCalls \cup Delegations

(* A call's locals before it begins and after it ended without a result.   *)
IssueAt(pc) ==
  [pc |-> pc, mandate |-> NoMandate, by |-> CHOOSE a \in Agents : TRUE,
   scope |-> CHOOSE s \in Scopes : TRUE, ttl |-> 0, revokedThen |-> {}]
VerifyAt(pc) ==
  [pc |-> pc, token |-> CHOOSE t \in TokenNames : TRUE, by |-> CHOOSE a \in Agents : TRUE,
   ask |-> CHOOSE a \in Asks : TRUE, revokedThen |-> {}]
RevokeAt(pc) ==
  [pc |-> pc, target |-> CHOOSE m \in Mandates : TRUE, by |-> CHOOSE u \in Users : TRUE]

-----------------------------------------------------------------------------
(* The biscuit                                                             *)

Authority(t) == tokens[t].blocks[1]
LastBlock(t) == tokens[t].blocks[Len(tokens[t].blocks)]
Exists(t)    == tokens[t].blocks # <<>>
Depth(t)     == Len(tokens[t].blocks) - 1
Blocks(t)    == {tokens[t].blocks[i] : i \in 1..Len(tokens[t].blocks)}

(* The depth of the chain: the blocks with a trail, less the authority.    *)
ChainDepth(t) ==
  Cardinality({i \in 1..Len(tokens[t].blocks) : tokens[t].blocks[i].trail}) - 1

(* A block of the service: what it declares is what it checks.  actor and  *)
(* scope are the chain's once the block is read.                           *)
TrailBlock(id, actor, scope) ==
  [id |-> id, actor |-> actor, scope |-> scope, check |-> scope, trail |-> TRUE]

(* A block of the holder: the chain stays as the block before it left it.  *)
OpaqueBlock(id, last, check) ==
  [id |-> id, actor |-> last.actor, scope |-> last.scope, check |-> check, trail |-> FALSE]

(* Mutant: the mandate's id is not among the ids checked.                  *)
MutantIds(t) == {b.id : b \in Blocks(t)}

(* _Loaded.revocation_ids: every block, and the mandate.                   *)
Ids(t) == {b.id : b \in Blocks(t)} \cup ({tokens[t].mandate} \ {NoMandate})

(* Mutant: the last of revocation_ids, as it was before the amendment of   *)
(* ADR 0016.                                                               *)
MutantOwnId(t) ==
  IF tokens[t].mandate = NoMandate THEN LastBlock(t).id ELSE tokens[t].mandate

(* _Loaded.own_revocation_id *)
OwnId(t) == LastBlock(t).id

(* Mutant: an opaque block is skipped here too.                            *)
MutantAuthorizes(t, ask) == \A b \in Blocks(t) : b.trail => Permits(b.check, ask)

(* The authorizer: the authority grants it and every block's check allows; *)
(* what the blocks declare is not looked at.                               *)
Authorizes(t, ask) == \A b \in Blocks(t) : Permits(b.check, ask)

-----------------------------------------------------------------------------
(* MandateService.create                                                   *)

(* Everything up to the insert: the clock is read once, then the engine is *)
(* asked for the binding.  An input the service refuses, and an engine     *)
(* that does not say yes, end the call.                                    *)
CreateCheck(m) ==
  /\ creating[m] = "idle"
  /\ \E subject, by \in Users, agent \in Agents, s \in Scopes, cap \in MaxTTLs,
        expires \in clock..(clock + MaxLife + 1), bound \in BOOLEAN :
       IF /\ by = subject
          /\ expires > clock /\ expires <= clock + MaxLife
          /\ s # {}
          /\ bound
       THEN /\ creating' = [creating EXCEPT ![m] = "store"]
            /\ mandates' = [mandates EXCEPT ![m] =
                 [@ EXCEPT !.subject = subject, !.agent = agent, !.scope = s,
                           !.expires = expires, !.maxTTL = cap]]
       ELSE /\ creating' = [creating EXCEPT ![m] = "ended"]
            /\ UNCHANGED mandates
  /\ UNCHANGED <<clock, revoked, tokens, issue, verify, revoke>>

CreateStore(m) ==
  /\ creating[m] = "store"
  /\ creating' = [creating EXCEPT ![m] = "ended"]
  /\ mandates' = [mandates EXCEPT ![m] = [@ EXCEPT !.status = "active"]]
  /\ UNCHANGED <<clock, revoked, tokens, issue, verify, revoke>>

-----------------------------------------------------------------------------
(* MandateService.issue, and _fresh on the way.  A call refused after      *)
(* IssueRevocations has the effect of get and list_for on the mandate.     *)

SetStatus(m, status) == mandates' = [mandates EXCEPT ![m] = [@ EXCEPT !.status = status]]

GoIssue(c, pc) == issue' = [issue EXCEPT ![c] = [@ EXCEPT !.pc = pc]]
EndIssue(c)    == issue' = [issue EXCEPT ![c] = IssueAt("ended")]

IssueGet(c) ==
  /\ issue[c].pc = "idle"
  /\ \E m \in Mandates, by \in Agents, s \in Scopes, ttl \in TTLs :
       /\ mandates[m].status # "absent"
       /\ IF mandates[m].status = "active"
          THEN issue' = [issue EXCEPT ![c] =
                 [pc |-> "fresh", mandate |-> m, by |-> by, scope |-> s, ttl |-> ttl,
                  revokedThen |-> revoked]]
          ELSE EndIssue(c)
  /\ UNCHANGED <<clock, mandates, revoked, tokens, creating, verify, revoke>>

IssueFresh(c) ==
  /\ issue[c].pc = "fresh"
  /\ GoIssue(c, IF mandates[issue[c].mandate].expires <= clock THEN "expire" ELSE "ids")
  /\ UNCHANGED <<clock, mandates, revoked, tokens, creating, verify, revoke>>

IssueExpire(c) ==
  /\ issue[c].pc = "expire"
  /\ SetStatus(issue[c].mandate, "expired")
  /\ EndIssue(c)
  /\ UNCHANGED <<clock, revoked, tokens, creating, verify, revoke>>

(* Mutant: an active mandate is taken at its word.                         *)
MutantIssueRevocations(c) ==
  /\ issue[c].pc = "ids"
  /\ LET m == issue[c].mandate IN
     IF /\ issue[c].by = mandates[m].agent
        /\ IsSubsetOf(issue[c].scope, mandates[m].scope)
     THEN GoIssue(c, "bind") ELSE EndIssue(c)
  /\ UNCHANGED <<clock, mandates, revoked, tokens, creating, verify, revoke>>

(* The mandate's id is looked up; then the caller and the scope are        *)
(* compared with the mandate's, which never change.                        *)
IssueRevocations(c) ==
  /\ issue[c].pc = "ids"
  /\ LET m == issue[c].mandate IN
     \/ m \in revoked /\ GoIssue(c, "mark")
     \/ /\ m \notin revoked
        /\ IF /\ issue[c].by = mandates[m].agent
              /\ IsSubsetOf(issue[c].scope, mandates[m].scope)
           THEN GoIssue(c, "bind") ELSE EndIssue(c)
  /\ UNCHANGED <<clock, mandates, revoked, tokens, creating, verify, revoke>>

IssueMark(c) ==
  /\ issue[c].pc = "mark"
  /\ SetStatus(issue[c].mandate, "revoked")
  /\ EndIssue(c)
  /\ UNCHANGED <<clock, revoked, tokens, creating, verify, revoke>>

SmallestOf(a, b, c) ==
  IF a <= b /\ a <= c THEN a ELSE IF b <= c THEN b ELSE c

(* effective = min(ttl or max_token_ttl, max_token_ttl, expires_at - now); *)
(* it is zero or negative when the mandate ran out meanwhile.              *)
Effective(c, now) ==
  LET row    == mandates[issue[c].mandate]
      wanted == IF issue[c].ttl = 0 THEN row.maxTTL ELSE issue[c].ttl
  IN  SmallestOf(wanted, row.maxTTL, row.expires - now)

(* The engine is asked for the binding again; the ttl is computed.         *)
IssueBind(c) ==
  /\ issue[c].pc = "bind"
  /\ \E bound \in BOOLEAN :
       IF bound
       THEN issue' = [issue EXCEPT ![c] =
              [@ EXCEPT !.pc = "sign", !.ttl = Effective(c, clock)]]
       ELSE EndIssue(c)
  /\ UNCHANGED <<clock, mandates, revoked, tokens, creating, verify, revoke>>

(* TokenService.issue without a mandate (the route verified the user token *)
(* and asked the engine): every chain of depth 0 is accepted.              *)
IssueDirect(c) ==
  /\ issue[c].pc = "idle"
  /\ \E by \in Agents, s \in Scopes, ttl \in TTLs :
       issue' = [issue EXCEPT ![c] =
         [pc |-> "sign", mandate |-> NoMandate, by |-> by, scope |-> s, ttl |-> ttl,
          revokedThen |-> revoked]]
  /\ UNCHANGED <<clock, mandates, revoked, tokens, creating, verify, revoke>>

(* issued_at + (ttl or self._ttl): a zero ttl counts as none.              *)
Expiry(now, ttl) == now + (IF ttl = 0 THEN DefaultTTL ELSE ttl)

(* issued_at is read in the thread that signs.                             *)
IssueSign(c) ==
  /\ issue[c].pc = "sign"
  /\ issue' = [issue EXCEPT ![c] =
       [@ EXCEPT !.pc = "journal", !.ttl = Expiry(clock, issue[c].ttl)]]
  /\ UNCHANGED <<clock, mandates, revoked, tokens, creating, verify, revoke>>

(* The token is handed out once token_issued is recorded.                  *)
IssueJournal(c) ==
  /\ issue[c].pc = "journal"
  /\ tokens' = [tokens EXCEPT ![c] =
       [blocks  |-> <<TrailBlock(c, issue[c].by, issue[c].scope)>>,
        mandate |-> issue[c].mandate, expires |-> issue[c].ttl]]
  /\ GoIssue(c, "issued")
  /\ UNCHANGED <<clock, mandates, revoked, creating, verify, revoke>>

-----------------------------------------------------------------------------
(* attenuate: offline, from the token alone; neither the revocation list   *)
(* nor the clock is read (AgentSession.delegate).  The child is handed     *)
(* out once token_delegated is recorded.                                   *)

MayDelegate(t, to, s) ==
  /\ Depth(t) <= MaxDepth /\ ChainDepth(t) < MaxDepth
  /\ to # LastBlock(t).actor
  /\ IsSubsetOf(s, LastBlock(t).scope)

Attenuate(d) ==
  /\ ~Exists(d)
  /\ \E t \in TokenNames, to \in Agents, s \in Scopes :
       /\ Exists(t)
       /\ MayDelegate(t, to, s)
       /\ tokens' = [tokens EXCEPT ![d] =
            [tokens[t] EXCEPT !.blocks = Append(@, TrailBlock(d, to, s))]]
  /\ UNCHANGED <<clock, mandates, revoked, creating, issue, verify, revoke>>

(* A holder restricts its token by itself, to anything.                    *)
AppendOpaque(d) ==
  /\ ~Exists(d)
  /\ \E t \in TokenNames, s \in Scopes :
       /\ Exists(t)
       /\ tokens' = [tokens EXCEPT ![d] =
            [tokens[t] EXCEPT !.blocks = Append(@, OpaqueBlock(d, LastBlock(t), s))]]
  /\ UNCHANGED <<clock, mandates, revoked, creating, issue, verify, revoke>>

-----------------------------------------------------------------------------
(* verify (verify_many asks the same of each resource, inspect of none):   *)
(* the revocation list first, the holder, then the clock and the checks.   *)

GoVerify(v, pc) == verify' = [verify EXCEPT ![v] = [@ EXCEPT !.pc = pc]]
Refuse(v)       == verify' = [verify EXCEPT ![v] = VerifyAt("refused")]

VerifyLoad(v) ==
  /\ verify[v].pc = "idle"
  /\ \E t \in TokenNames, by \in Agents, ask \in Asks :
       /\ Exists(t)
       /\ Depth(t) <= MaxDepth
       /\ verify' = [verify EXCEPT ![v] =
            [pc |-> "ids", token |-> t, by |-> by, ask |-> ask, revokedThen |-> revoked]]
  /\ UNCHANGED <<clock, mandates, revoked, tokens, creating, issue, revoke>>

VerifyRevocations(v) ==
  /\ verify[v].pc = "ids"
  /\ LET t == verify[v].token IN
     IF Ids(t) \cap revoked = {} /\ verify[v].by = LastBlock(t).actor
     THEN GoVerify(v, "authorize") ELSE Refuse(v)
  /\ UNCHANGED <<clock, mandates, revoked, tokens, creating, issue, revoke>>

VerifyAuthorize(v) ==
  /\ verify[v].pc = "authorize"
  /\ LET t == verify[v].token IN
     IF clock < tokens[t].expires /\ Authorizes(t, verify[v].ask)
     THEN GoVerify(v, "verified") ELSE Refuse(v)
  /\ UNCHANGED <<clock, mandates, revoked, tokens, creating, issue, revoke>>

-----------------------------------------------------------------------------
(* Revoking a mandate (MandateService._revoke), by its subject; and a      *)
(* token (the revoke route: inspect, then TokenService.revoke), by its     *)
(* holder.                                                                 *)

GoRevoke(c, pc) == revoke' = [revoke EXCEPT ![c] = [@ EXCEPT !.pc = pc]]
EndRevoke(c)    == revoke' = [revoke EXCEPT ![c] = RevokeAt("ended")]

RevokeMandateGet(c) ==
  /\ revoke[c].pc = "idle"
  /\ \E m \in Mandates, by \in Users :
       /\ mandates[m].status # "absent"
       /\ IF by = mandates[m].subject
          THEN revoke' = [revoke EXCEPT ![c] = [pc |-> "id", target |-> m, by |-> by]]
          ELSE EndRevoke(c)
  /\ UNCHANGED <<clock, mandates, revoked, tokens, creating, issue, verify>>

RevokeTokenInspect(c) ==
  /\ revoke[c].pc = "idle"
  /\ \E t \in TokenNames, by \in Agents :
       /\ Exists(t)
       /\ IF /\ Depth(t) <= MaxDepth
             /\ Ids(t) \cap revoked = {}
             /\ by = LastBlock(t).actor
             /\ clock < tokens[t].expires
          THEN revoke' = [revoke EXCEPT ![c] = [pc |-> "id", target |-> OwnId(t), by |-> by]]
          ELSE EndRevoke(c)
  /\ UNCHANGED <<clock, mandates, revoked, tokens, creating, issue, verify>>

(* revoke_id: the id first.                                                *)
RevokeId(c) ==
  /\ revoke[c].pc = "id"
  /\ revoked' = revoked \cup {revoke[c].target}
  /\ GoRevoke(c, IF revoke[c].target \in Mandates THEN "update" ELSE "ended")
  /\ UNCHANGED <<clock, mandates, tokens, creating, issue, verify>>

RevokeUpdate(c) ==
  /\ revoke[c].pc = "update"
  /\ SetStatus(revoke[c].target, "revoked")
  /\ GoRevoke(c, "ended")
  /\ UNCHANGED <<clock, revoked, tokens, creating, issue, verify>>

-----------------------------------------------------------------------------
(* expire_active (hoc sync, hoc mandates sweep): one conditional UPDATE.   *)

(* Mutant: the sweep forgets the date.                                     *)
MutantOverdue(m) == mandates[m].status = "revoked" /\ mandates[m].expires <= clock

Overdue(m) == mandates[m].status = "active" /\ mandates[m].expires <= clock

Sweep ==
  LET expired == {m \in Mandates : Overdue(m)} IN
  /\ expired # {}
  /\ mandates' = [m \in Mandates |->
       IF m \in expired THEN [mandates[m] EXCEPT !.status = "expired"] ELSE mandates[m]]
  /\ UNCHANGED <<clock, revoked, tokens, creating, issue, verify, revoke>>

Tick ==
  /\ clock < MaxClock
  /\ clock' = clock + 1
  /\ UNCHANGED <<mandates, revoked, tokens, creating, issue, verify, revoke>>

(* A store, journal or engine failure, or a crash, ends a call; what it    *)
(* wrote stays.                                                            *)
Raise ==
  \/ /\ \E m \in Mandates : creating[m] = "store"
                            /\ creating' = [creating EXCEPT ![m] = "ended"]
     /\ UNCHANGED <<clock, mandates, revoked, tokens, issue, verify, revoke>>
  \/ /\ \E c \in IssueCalls :
          issue[c].pc \notin {"idle", "issued", "ended"} /\ EndIssue(c)
     /\ UNCHANGED <<clock, mandates, revoked, tokens, creating, verify, revoke>>
  \/ /\ \E v \in VerifyCalls : verify[v].pc \in {"ids", "authorize"} /\ Refuse(v)
     /\ UNCHANGED <<clock, mandates, revoked, tokens, creating, issue, revoke>>
  \/ /\ \E c \in RevokeCalls :
          \/ revoke[c].pc = "id" /\ EndRevoke(c)
          \/ revoke[c].pc = "update" /\ GoRevoke(c, "ended")
     /\ UNCHANGED <<clock, mandates, revoked, tokens, creating, issue, verify>>

-----------------------------------------------------------------------------
Init ==
  /\ clock = 0
  /\ mandates = [m \in Mandates |->
       [status |-> "absent", subject |-> CHOOSE u \in Users : TRUE,
        agent |-> CHOOSE a \in Agents : TRUE, scope |-> CHOOSE s \in Scopes : TRUE,
        expires |-> 0, maxTTL |-> CHOOSE n \in MaxTTLs : TRUE]]
  /\ revoked = {}
  /\ tokens = [t \in TokenNames |-> [blocks |-> <<>>, mandate |-> NoMandate, expires |-> 0]]
  /\ creating = [m \in Mandates |-> "idle"]
  /\ issue = [c \in IssueCalls |-> IssueAt("idle")]
  /\ verify = [v \in VerifyCalls |-> VerifyAt("idle")]
  /\ revoke = [c \in RevokeCalls |-> RevokeAt("idle")]

Next ==
  \/ \E m \in Mandates : CreateCheck(m) \/ CreateStore(m)
  \/ \E c \in IssueCalls :
       \/ IssueGet(c) \/ IssueFresh(c) \/ IssueExpire(c)
       \/ IssueRevocations(c) \/ IssueMark(c)
       \/ IssueBind(c) \/ IssueDirect(c) \/ IssueSign(c) \/ IssueJournal(c)
  \/ \E d \in Delegations : Attenuate(d) \/ AppendOpaque(d)
  \/ \E v \in VerifyCalls : VerifyLoad(v) \/ VerifyRevocations(v) \/ VerifyAuthorize(v)
  \/ \E c \in RevokeCalls :
       \/ RevokeMandateGet(c) \/ RevokeTokenInspect(c) \/ RevokeId(c)
       \/ RevokeUpdate(c)
  \/ Sweep \/ Tick \/ Raise

Spec == Init /\ [][Next]_vars

(* hoc sync sweeps in a loop, and time goes on.                            *)
FairSpec == Spec /\ WF_vars(Sweep) /\ WF_vars(Tick)

-----------------------------------------------------------------------------
Block == [id : TokenNames, actor : Agents, scope : Scopes, check : Scopes, trail : BOOLEAN]

Mandate == [status : {"absent", "active", "revoked", "expired"}, subject : Users,
            agent : Agents, scope : Scopes, expires : Nat, maxTTL : Nat]
Token == [blocks : Seq(Block), mandate : Mandates \cup {NoMandate}, expires : Int]
IssueCall == [pc : {"idle", "fresh", "expire", "ids", "mark", "bind",
                    "sign", "journal", "issued", "ended"},
              mandate : Mandates \cup {NoMandate}, by : Agents, scope : Scopes, ttl : Int,
              revokedThen : SUBSET (TokenNames \cup Mandates)]
VerifyCall == [pc : {"idle", "ids", "authorize", "verified", "refused"}, token : TokenNames,
               by : Agents, ask : Asks, revokedThen : SUBSET (TokenNames \cup Mandates)]
RevokeCall == [pc : {"idle", "id", "update", "ended"},
               target : TokenNames \cup Mandates, by : Users \cup Agents]

TypeOK ==
  /\ clock \in Nat
  /\ mandates \in [Mandates -> Mandate]
  /\ revoked \subseteq TokenNames \cup Mandates
  /\ tokens \in [TokenNames -> Token]
  /\ creating \in [Mandates -> {"idle", "store", "ended"}]
  /\ issue \in [IssueCalls -> IssueCall]
  /\ verify \in [VerifyCalls -> VerifyCall]
  /\ revoke \in [RevokeCalls -> RevokeCall]

(* I4: a token that verifies had no revoked block, and no revoked mandate  *)
(* behind it, when the call began: revoking a mandate kills the tokens     *)
(* issued under it by calls already under way and everything delegated     *)
(* from them (service.py:226).                                             *)
RevokedStaysDead ==
  \A v \in VerifyCalls : verify[v].pc = "verified" =>
    LET t == verify[v].token
        m == tokens[t].mandate
    IN  m \notin verify[v].revokedThen /\ {b.id : b \in Blocks(t)} \cap verify[v].revokedThen = {}

(* No issue call that begins after the mandate's id was revoked hands out  *)
(* a token, even if the revocation died before it reached the mandates     *)
(* table or an expiry overwrote it there (mandates.py:388-401).            *)
NoTokenAfterRevoke ==
  \A c \in IssueCalls : issue[c].pc = "issued" =>
    issue[c].mandate \notin issue[c].revokedThen

(* I1: what verifies is permitted by every scope on the way down, declared *)
(* or checked, from the mandate the human gave to the last block of the    *)
(* holder; and the declared scope the decision will use covers no more     *)
(* than any that was declared before, although the authorizer never looks  *)
(* at a declaration and the chain never at a check.                        *)
VerifiedWithinScope ==
  \A v \in VerifyCalls : verify[v].pc = "verified" =>
    LET t   == verify[v].token
        m   == tokens[t].mandate
        ask == verify[v].ask
    IN  /\ \A b \in Blocks(t) :
             /\ Permits(b.scope, ask) /\ Permits(b.check, ask)
             /\ IsSubsetOf(LastBlock(t).scope, b.scope)
        /\ m # NoMandate => Permits(mandates[m].scope, ask) /\ mandates[m].agent = Authority(t).actor

(* ADR 0016, amendment: an id is on the revocation list only if its owner  *)
(* put it there, the subject for a mandate and the holder for a token: a   *)
(* delegate never kills its principal's grant.                             *)
RevokedByOwner ==
  \A id \in revoked : \E c \in RevokeCalls :
    /\ revoke[c].target = id
    /\ revoke[c].by = IF id \in Mandates THEN mandates[id].subject ELSE LastBlock(id).actor

(* No mandate reads active for ever past its date.                         *)
MandateCloses ==
  \A m \in Mandates :
    mandates[m].status = "active" /\ mandates[m].expires <= MaxClock
      ~> mandates[m].status # "active"

(* "A short token for caller under an active mandate; never wider, never   *)
(* longer" (mandates.py:352).                                              *)
NeverLonger ==
  \A t \in IssueCalls :
    Exists(t) /\ tokens[t].mandate # NoMandate
      => tokens[t].expires <= mandates[tokens[t].mandate].expires

-----------------------------------------------------------------------------
(* The inductive invariant.  A mandate that was stored, a token that was   *)
(* handed out and an id that was revoked stay so; every call in flight     *)
(* holds facts about these, and so nothing that happens between its steps  *)
(* can take them away.                                                     *)

Stored(m) == mandates[m].status # "absent"

StoredWasCreated == \A m \in Mandates : Stored(m) => creating[m] = "ended"

(* The mandate is there, names the agent and covers the scope.             *)
Backs(m, agent, scope) ==
  Stored(m) /\ agent = mandates[m].agent /\ IsSubsetOf(scope, mandates[m].scope)

IssueKnows(c) ==
  /\ issue[c].revokedThen \subseteq revoked
  /\ issue[c].pc \in {"fresh", "expire", "ids", "mark", "bind"} =>
       issue[c].mandate \in Mandates /\ Stored(issue[c].mandate)
  /\ issue[c].pc \in {"bind", "sign", "journal", "issued"} /\ issue[c].mandate # NoMandate =>
       /\ Backs(issue[c].mandate, issue[c].by, issue[c].scope)
       /\ issue[c].mandate \notin issue[c].revokedThen
  /\ issue[c].pc # "issued" => ~Exists(c)

(* What a block declares is what some block checks.                        *)
Enforced(t, scope) == \E b \in Blocks(t) : b.check = scope

TokenKnows(t) ==
  Exists(t) =>
    /\ LastBlock(t).id = t
    /\ \A b \in Blocks(t) : IsSubsetOf(LastBlock(t).scope, b.scope) /\ Enforced(t, b.scope)
    /\ tokens[t].mandate # NoMandate =>
         Backs(tokens[t].mandate, Authority(t).actor, Authority(t).scope)

VerifyKnows(v) ==
  /\ verify[v].revokedThen \subseteq revoked
  /\ verify[v].pc \in {"ids", "authorize", "verified"} => Exists(verify[v].token)
  /\ verify[v].pc \in {"authorize", "verified"} =>
       Ids(verify[v].token) \cap verify[v].revokedThen = {}
  /\ verify[v].pc = "verified" => Authorizes(verify[v].token, verify[v].ask)

Owner(id) == IF id \in Mandates THEN mandates[id].subject ELSE LastBlock(id).actor
Owned(id) == IF id \in Mandates THEN Stored(id) ELSE Exists(id)

RevokeKnows(c) ==
  /\ revoke[c].pc \in {"id", "update"} =>
       Owned(revoke[c].target) /\ revoke[c].by = Owner(revoke[c].target)
  /\ revoke[c].pc = "update" => revoke[c].target \in Mandates

(* The call that put an id on the list is past that step.                  *)
RevokedKnows ==
  \A id \in revoked :
    /\ Owned(id)
    /\ \E c \in RevokeCalls : /\ revoke[c].pc \in {"update", "ended"}
                              /\ revoke[c].target = id /\ revoke[c].by = Owner(id)

IInv ==
  /\ TypeOK
  /\ StoredWasCreated
  /\ \A c \in IssueCalls : IssueKnows(c)
  /\ \A t \in TokenNames : TokenKnows(t)
  /\ \A v \in VerifyCalls : VerifyKnows(v)
  /\ \A c \in RevokeCalls : RevokeKnows(c)
  /\ RevokedKnows
=============================================================================
