---------------------------- MODULE TokensProofs ----------------------------
(***************************************************************************)
(* Proofs about the tokens, the mandates and the revocation list, for any  *)
(* numbers of mandates, tokens, calls and blocks, and any scopes.          *)
(***************************************************************************)
EXTENDS Tokens, TLAPS, SequenceTheorems

-----------------------------------------------------------------------------
(* Scopes (core/scope.py)                                                  *)

(* A prefix of a prefix is a prefix.                                       *)
LEMMA StartsWithTransitive ==
  ASSUME NEW a, NEW b, NEW c, Len(a) \in Nat, Len(b) \in Nat, Len(c) \in Nat,
         StartsWith(b, a), StartsWith(c, b)
  PROVE  StartsWith(c, a)
BY DEF StartsWith

(* Covering is reflexive.                                                  *)
LEMMA CoversItself ==
  ASSUME NEW own, Len(own.text) \in Nat
  PROVE  CapCovers(own, own)
BY DEF CapCovers, StartsWith

(* Covering is transitive, patterns and exact resources mixed.             *)
LEMMA CapCoversTransitive ==
  ASSUME NEW a, NEW b, NEW c,
         Len(a.text) \in Nat, Len(b.text) \in Nat, Len(c.text) \in Nat,
         CapCovers(a, b), CapCovers(b, c)
  PROVE  CapCovers(a, c)
<1>1. CASE a.pattern
  <2>1. StartsWith(b.text, a.text) /\ a.kind = b.kind /\ b.kind = c.kind
    BY <1>1 DEF CapCovers
  <2>2. CASE b.pattern
    BY <1>1, <2>1, <2>2, StartsWithTransitive DEF CapCovers
  <2>3. CASE ~b.pattern
    BY <1>1, <2>1, <2>3 DEF CapCovers
  <2>. QED
    BY <2>2, <2>3
<1>2. CASE ~a.pattern
  BY <1>2 DEF CapCovers
<1>. QED
  BY <1>1, <1>2

(* Scopes as the service accepts them: the text of a capability is finite. *)
LEMMA ScopeTexts ==
  ASSUME NEW s \in Scopes, NEW cap \in s
  PROVE  Len(cap.text) \in Nat
BY TokenConstants

(* Every scope is within itself.                                           *)
LEMMA SubsetReflexive ==
  ASSUME NEW s \in Scopes
  PROVE  IsSubsetOf(s, s)
BY ScopeTexts, CoversItself DEF IsSubsetOf, Covers

(* Narrowing twice is narrowing: is_subset_of is transitive.               *)
LEMMA SubsetTransitive ==
  ASSUME NEW a \in Scopes, NEW b \in Scopes, NEW c \in Scopes,
         IsSubsetOf(a, b), IsSubsetOf(b, c)
  PROVE  IsSubsetOf(a, c)
<1> SUFFICES ASSUME NEW cap \in a
             PROVE  Covers(c, cap)
  BY DEF IsSubsetOf
<1>1. PICK y \in b : CapCovers(y, cap)
  BY DEF IsSubsetOf, Covers
<1>2. PICK z \in c : CapCovers(z, y)
  BY DEF IsSubsetOf, Covers
<1>3. Len(cap.text) \in Nat /\ Len(y.text) \in Nat /\ Len(z.text) \in Nat
  BY ScopeTexts
<1>4. CapCovers(z, cap)
  BY <1>1, <1>2, <1>3, CapCoversTransitive
<1>. QED
  BY <1>4 DEF Covers

(* What a narrower scope permits, the checks of a wider one permit: the    *)
(* subset test of core/scope.py agrees with the Datalog of the blocks.     *)
LEMMA PermitsWider ==
  ASSUME NEW a \in Scopes, NEW b \in Scopes, NEW ask \in Asks,
         IsSubsetOf(a, b), Permits(a, ask)
  PROVE  Permits(b, ask)
<1>1. PICK cap \in a : /\ cap.kind = ask.kind
                       /\ IF cap.pattern THEN StartsWith(ask.text, cap.text)
                                         ELSE cap.text = ask.text
  BY DEF Permits
<1>2. PICK own \in b : CapCovers(own, cap)
  BY DEF IsSubsetOf, Covers
<1>3. Len(cap.text) \in Nat /\ Len(own.text) \in Nat /\ Len(ask.text) \in Nat
  BY ScopeTexts, TokenConstants
<1>4. CASE own.pattern
  <2>1. StartsWith(cap.text, own.text)
    BY <1>2, <1>4 DEF CapCovers
  <2>2. CASE cap.pattern
    BY <1>1, <1>2, <1>3, <1>4, <2>1, <2>2, StartsWithTransitive DEF Permits, CapCovers
  <2>3. CASE ~cap.pattern
    BY <1>1, <1>2, <1>4, <2>1, <2>3 DEF Permits, CapCovers
  <2>. QED
    BY <2>2, <2>3
<1>5. CASE ~own.pattern
  BY <1>1, <1>2, <1>5 DEF Permits, CapCovers
<1>. QED
  BY <1>4, <1>5

-----------------------------------------------------------------------------
(* Types                                                                   *)

(* The locals a call has before it begins and after it ended are typed.    *)
LEMMA LocalsTyped ==
  /\ \A pc \in {"idle", "ended"} : IssueAt(pc) \in IssueCall
  /\ \A pc \in {"idle", "refused"} : VerifyAt(pc) \in VerifyCall
  /\ \A pc \in {"idle", "ended"} : RevokeAt(pc) \in RevokeCall
<1>1. /\ (CHOOSE a \in Agents : TRUE) \in Agents /\ (CHOOSE x \in Scopes : TRUE) \in Scopes
      /\ (CHOOSE t \in TokenNames : TRUE) \in TokenNames /\ (CHOOSE a \in Asks : TRUE) \in Asks
      /\ (CHOOSE m \in Mandates : TRUE) \in Mandates /\ (CHOOSE u \in Users : TRUE) \in Users
  BY TokenConstants DEF TokenNames
<1>2. \A pc \in {"idle", "ended"} : IssueAt(pc) \in IssueCall
  BY <1>1 DEF IssueAt, IssueCall
<1>3. \A pc \in {"idle", "refused"} : VerifyAt(pc) \in VerifyCall
  BY <1>1 DEF VerifyAt, VerifyCall
<1>4. \A pc \in {"idle", "ended"} : RevokeAt(pc) \in RevokeCall
  BY <1>1 DEF RevokeAt, RevokeCall
<1>. QED
  BY <1>2, <1>3, <1>4

(* The initial state is typed.                                             *)
LEMMA InitTyped ==
  ASSUME Init
  PROVE  TypeOK
<1>1. mandates \in [Mandates -> Mandate]
  <2>1. /\ (CHOOSE a \in Agents : TRUE) \in Agents /\ (CHOOSE x \in Scopes : TRUE) \in Scopes
        /\ (CHOOSE n \in MaxTTLs : TRUE) \in Nat /\ (CHOOSE u \in Users : TRUE) \in Users
    BY TokenConstants
  <2>. QED
    BY <2>1 DEF Init, Mandate
<1>2. tokens \in [TokenNames -> Token]
  BY DEF Init, Token
<1>3. /\ issue \in [IssueCalls -> IssueCall] /\ verify \in [VerifyCalls -> VerifyCall]
      /\ revoke \in [RevokeCalls -> RevokeCall]
  BY LocalsTyped DEF Init
<1>. QED
  BY <1>1, <1>2, <1>3 DEF Init, TypeOK

(* The status of a mandate is all that changes once it is stored.          *)
LEMMA StatusTyped ==
  ASSUME TypeOK, NEW m \in Mandates, NEW status \in {"active", "revoked", "expired"},
         SetStatus(m, status)
  PROVE  /\ mandates' \in [Mandates -> Mandate]
         /\ mandates'[m].status = status
         /\ \A x \in Mandates : /\ mandates'[x].subject = mandates[x].subject
                                /\ mandates'[x].agent = mandates[x].agent
                                /\ mandates'[x].scope = mandates[x].scope
                                /\ x # m => mandates'[x] = mandates[x]
BY DEF TypeOK, SetStatus, Mandate

(* A call that goes on stays typed.                                        *)
LEMMA GoTyped ==
  ASSUME TypeOK
  PROVE  /\ \A c \in IssueCalls :
              \A pc \in {"fresh", "expire", "ids", "mark", "bind", "issued"} :
                GoIssue(c, pc) => issue' \in [IssueCalls -> IssueCall]
         /\ \A v \in VerifyCalls : \A pc \in {"authorize", "verified"} :
              GoVerify(v, pc) => verify' \in [VerifyCalls -> VerifyCall]
         /\ \A c \in RevokeCalls : \A pc \in {"update", "ended"} :
              GoRevoke(c, pc) => revoke' \in [RevokeCalls -> RevokeCall]
         /\ \A c \in IssueCalls : EndIssue(c) => issue' \in [IssueCalls -> IssueCall]
         /\ \A v \in VerifyCalls : Refuse(v) => verify' \in [VerifyCalls -> VerifyCall]
         /\ \A c \in RevokeCalls : EndRevoke(c) => revoke' \in [RevokeCalls -> RevokeCall]
<1>1. ASSUME NEW c \in IssueCalls, NEW pc \in {"fresh", "expire", "ids", "mark", "bind", "issued"},
             GoIssue(c, pc)
      PROVE  issue' \in [IssueCalls -> IssueCall]
  BY <1>1 DEF TypeOK, GoIssue, IssueCall
<1>2. ASSUME NEW v \in VerifyCalls, NEW pc \in {"authorize", "verified"}, GoVerify(v, pc)
      PROVE  verify' \in [VerifyCalls -> VerifyCall]
  BY <1>2 DEF TypeOK, GoVerify, VerifyCall
<1>3. ASSUME NEW c \in RevokeCalls, NEW pc \in {"update", "ended"}, GoRevoke(c, pc)
      PROVE  revoke' \in [RevokeCalls -> RevokeCall]
  BY <1>3 DEF TypeOK, GoRevoke, RevokeCall
<1>4. ASSUME NEW c \in IssueCalls, EndIssue(c)
      PROVE  issue' \in [IssueCalls -> IssueCall]
  BY <1>4, LocalsTyped DEF TypeOK, EndIssue
<1>5. ASSUME NEW v \in VerifyCalls, Refuse(v)
      PROVE  verify' \in [VerifyCalls -> VerifyCall]
  BY <1>5, LocalsTyped DEF TypeOK, Refuse
<1>6. ASSUME NEW c \in RevokeCalls, EndRevoke(c)
      PROVE  revoke' \in [RevokeCalls -> RevokeCall]
  BY <1>6, LocalsTyped DEF TypeOK, EndRevoke
<1>. QED
  BY <1>1, <1>2, <1>3, <1>4, <1>5, <1>6

(* A create call that passes its checks fills in a row that is not stored  *)
(* yet; one that does not leaves the table alone.                          *)
LEMMA CreateRow ==
  ASSUME TypeOK, NEW m \in Mandates, CreateCheck(m)
  PROVE  /\ creating' \in {[creating EXCEPT ![m] = "store"], [creating EXCEPT ![m] = "ended"]}
         /\ \/ mandates' = mandates
            \/ \E row \in Mandate : /\ row.status = mandates[m].status
                                     /\ mandates' = [mandates EXCEPT ![m] = row]
<1>1. PICK subject \in Users, by \in Users, agent \in Agents, s \in Scopes, cap \in MaxTTLs,
           expires \in clock..(clock + MaxLife + 1), bound \in BOOLEAN :
        IF /\ by = subject
           /\ expires > clock /\ expires <= clock + MaxLife
           /\ s # {}
           /\ bound
        THEN /\ creating' = [creating EXCEPT ![m] = "store"]
             /\ mandates' = [mandates EXCEPT ![m] =
                  [@ EXCEPT !.subject = subject, !.agent = agent, !.scope = s,
                            !.expires = expires, !.maxTTL = cap]]
        ELSE /\ creating' = [creating EXCEPT ![m] = "ended"]
             /\ UNCHANGED mandates
  BY Zenon DEF CreateCheck
<1> DEFINE row == [mandates[m] EXCEPT !.subject = subject, !.agent = agent, !.scope = s,
                                      !.expires = expires, !.maxTTL = cap]
<1>2. expires \in Nat /\ cap \in Nat
  BY TokenConstants DEF TypeOK
<1>3. row \in Mandate /\ row.status = mandates[m].status
  BY <1>2 DEF TypeOK, Mandate
<1>4. mandates' = mandates \/ mandates' = [mandates EXCEPT ![m] = row]
  BY <1>1
<1>5. creating' \in {[creating EXCEPT ![m] = "store"], [creating EXCEPT ![m] = "ended"]}
  BY <1>1
<1> HIDE DEF row
<1>. QED
  BY <1>3, <1>4, <1>5

(* Creating a mandate, the sweep and the clock keep the types.             *)
LEMMA MandateStepsTyped ==
  ASSUME TypeOK,
         (\E m \in Mandates : CreateCheck(m) \/ CreateStore(m)) \/ Sweep \/ Tick
  PROVE  TypeOK'
<1>1. ASSUME NEW m \in Mandates, CreateCheck(m)
      PROVE  TypeOK'
  <2>1. mandates' \in [Mandates -> Mandate] /\ creating' \in [Mandates -> {"idle", "store", "ended"}]
    BY <1>1, CreateRow DEF TypeOK
  <2>. QED
    BY <1>1, <2>1 DEF CreateCheck, TypeOK
<1>2. ASSUME NEW m \in Mandates, CreateStore(m)
      PROVE  TypeOK'
  <2>1. mandates' \in [Mandates -> Mandate]
    BY <1>2 DEF CreateStore, TypeOK, Mandate
  <2>. QED
    BY <1>2, <2>1 DEF CreateStore, TypeOK
<1>3. ASSUME Sweep
      PROVE  TypeOK'
  <2>1. mandates' \in [Mandates -> Mandate]
    BY <1>3 DEF Sweep, TypeOK, Mandate
  <2>. QED
    BY <1>3, <2>1 DEF Sweep, TypeOK
<1>4. ASSUME Tick
      PROVE  TypeOK'
  BY <1>4 DEF Tick, TypeOK
<1>. QED
  BY <1>1, <1>2, <1>3, <1>4

-----------------------------------------------------------------------------
(* What every step keeps                                                   *)

(* A stored mandate keeps what it says, a token handed out its blocks, and *)
(* the revocation list its ids.                                            *)
Keeps ==
  /\ \A m \in Mandates : Stored(m) =>
       /\ mandates'[m].status # "absent" /\ mandates'[m].subject = mandates[m].subject
       /\ mandates'[m].agent = mandates[m].agent /\ mandates'[m].scope = mandates[m].scope
  /\ \A t \in TokenNames : Exists(t) => tokens'[t] = tokens[t]
  /\ revoked \subseteq revoked'

(* What is kept stays as it was when nothing moves.                        *)
LEMMA KeepsUnmoved ==
  ASSUME UNCHANGED <<mandates, tokens, revoked>>
  PROVE  Keeps
BY DEF Keeps, Stored

(* Writing the status of a stored mandate keeps what it says.              *)
LEMMA KeepsStatus ==
  ASSUME TypeOK, NEW m \in Mandates, NEW status \in {"active", "revoked", "expired"},
         SetStatus(m, status), UNCHANGED <<tokens, revoked>>
  PROVE  Keeps
<1>1. /\ mandates'[m].status = status
      /\ \A x \in Mandates : /\ mandates'[x].subject = mandates[x].subject
                             /\ mandates'[x].agent = mandates[x].agent
                             /\ mandates'[x].scope = mandates[x].scope
                             /\ x # m => mandates'[x] = mandates[x]
  BY StatusTyped
<1>. QED
  BY <1>1 DEF Keeps, Stored

(* What backs a token or a call goes on backing it.                        *)
LEMMA BacksKept ==
  ASSUME TypeOK, Keeps, NEW m \in Mandates, NEW agent, NEW scope, Backs(m, agent, scope)
  PROVE  Backs(m, agent, scope)'
BY DEF Keeps, Backs, Stored

(* The owner of an id stays its owner.                                     *)
LEMMA OwnedKept ==
  ASSUME TypeOK, Keeps, NEW id \in TokenNames \cup Mandates, Owned(id)
  PROVE  Owned(id)' /\ Owner(id)' = Owner(id)
<1>1. CASE id \in Mandates
  BY <1>1 DEF Keeps, Owned, Owner, Stored
<1>2. CASE id \notin Mandates
  BY <1>2 DEF Keeps, Owned, Owner, Exists, LastBlock
<1>. QED
  BY <1>1, <1>2

(* An issue call that does not move keeps what it knows.                   *)
LEMMA IssueKept ==
  ASSUME IInv, Keeps, NEW c \in IssueCalls, issue'[c] = issue[c],
         tokens'[c] = tokens[c]
  PROVE  IssueKnows(c)'
<1>1. IssueKnows(c) /\ issue[c] \in IssueCall /\ TypeOK
  BY DEF IInv, TypeOK
<1>2. issue[c].mandate \in Mandates \cup {NoMandate}
  BY <1>1 DEF IssueCall
<1>3. /\ (issue[c].revokedThen \subseteq revoked)'
      /\ issue[c].pc # "issued" => ~Exists(c)'
  BY <1>1 DEF IssueKnows, Keeps, Exists
<1>4. issue[c].pc \in {"fresh", "expire", "ids", "mark", "bind"} =>
        issue[c].mandate \in Mandates /\ Stored(issue[c].mandate)'
  BY <1>1 DEF IssueKnows, Keeps, Stored
<1>5. issue[c].pc \in {"bind", "sign", "journal", "issued"} /\ issue[c].mandate # NoMandate =>
        /\ Backs(issue[c].mandate, issue[c].by, issue[c].scope)'
        /\ issue[c].mandate \notin issue[c].revokedThen
  BY <1>1, <1>2 DEF IssueKnows, Keeps, Backs, Stored
<1>. QED
  BY <1>3, <1>4, <1>5 DEF IssueKnows

(* A token keeps its history.                                              *)
LEMMA TokenKept ==
  ASSUME IInv, Keeps, NEW t \in TokenNames, tokens'[t] = tokens[t]
  PROVE  TokenKnows(t)'
<1>1. TokenKnows(t) /\ tokens[t].mandate \in Mandates \cup {NoMandate} /\ TypeOK
  BY DEF IInv, TypeOK, Token
<1>2. /\ Exists(t)' = Exists(t) /\ LastBlock(t)' = LastBlock(t) /\ Blocks(t)' = Blocks(t)
      /\ Authority(t)' = Authority(t) /\ \A scope : Enforced(t, scope)' = Enforced(t, scope)
  BY DEF Exists, LastBlock, Blocks, Authority, Enforced
<1>3. Exists(t) /\ tokens[t].mandate # NoMandate =>
        Backs(tokens[t].mandate, Authority(t).actor, Authority(t).scope)'
  BY <1>1, <1>2, BacksKept DEF TokenKnows, Backs, Keeps, Stored
<1>. QED
  BY <1>1, <1>2, <1>3 DEF TokenKnows

(* A verification that does not move keeps what it knows.                  *)
LEMMA VerifyKept ==
  ASSUME IInv, Keeps, NEW v \in VerifyCalls, verify'[v] = verify[v]
  PROVE  VerifyKnows(v)'
<1>1. VerifyKnows(v) /\ verify[v].token \in TokenNames
  BY DEF IInv, TypeOK, VerifyCall
<1>2. Exists(verify[v].token) =>
        /\ Exists(verify[v].token)' /\ Ids(verify[v].token)' = Ids(verify[v].token)
        /\ Authorizes(verify[v].token, verify[v].ask) => Authorizes(verify[v].token, verify[v].ask)'
  BY <1>1 DEF Keeps, Exists, Ids, Authorizes, Blocks
<1>. QED
  BY <1>1, <1>2 DEF VerifyKnows, Keeps

(* A revocation that does not move keeps what it knows.                    *)
LEMMA RevokeKept ==
  ASSUME IInv, Keeps, NEW c \in RevokeCalls, revoke'[c] = revoke[c]
  PROVE  RevokeKnows(c)'
<1>1. RevokeKnows(c) /\ revoke[c].target \in TokenNames \cup Mandates /\ TypeOK
  BY DEF IInv, TypeOK, RevokeCall
<1>2. Owned(revoke[c].target) =>
        Owned(revoke[c].target)' /\ Owner(revoke[c].target)' = Owner(revoke[c].target)
  <2> DEFINE id == revoke[c].target
  <2>1. id \in TokenNames \cup Mandates /\ id' = id
    BY <1>1
  <2>2. Owned(id) => /\ IF id \in Mandates THEN mandates'[id].status # "absent" ELSE tokens'[id].blocks # <<>>
                     /\ Owner(id)' = Owner(id)
    BY <2>1 DEF Owned, Owner, Keeps, Stored, Exists, LastBlock
  <2>. QED
    BY <2>1, <2>2 DEF Owned, Stored, Exists
<1>. QED
  BY <1>1, <1>2 DEF RevokeKnows

(* The list of revoked ids keeps its reasons while no revocation that put  *)
(* one there moves.                                                        *)
LEMMA RevokedKept ==
  ASSUME IInv, Keeps, revoked' = revoked,
         \A c \in RevokeCalls : revoke[c].pc \in {"update", "ended"} =>
           /\ revoke'[c].pc \in {"update", "ended"}
           /\ revoke'[c].target = revoke[c].target /\ revoke'[c].by = revoke[c].by
  PROVE  RevokedKnows'
<1> SUFFICES ASSUME NEW id \in revoked
             PROVE  /\ Owned(id)'
                    /\ \E c \in RevokeCalls : /\ revoke'[c].pc \in {"update", "ended"}
                                              /\ revoke'[c].target = id
                                              /\ revoke'[c].by = Owner(id)'
  BY DEF RevokedKnows
<1>1. id \in TokenNames \cup Mandates /\ Owned(id) /\ TypeOK
  BY DEF IInv, TypeOK, RevokedKnows
<1>2. PICK c \in RevokeCalls : /\ revoke[c].pc \in {"update", "ended"}
                               /\ revoke[c].target = id /\ revoke[c].by = Owner(id)
  BY DEF IInv, RevokedKnows
<1>3. Owned(id)' /\ Owner(id)' = Owner(id)
  BY <1>1, OwnedKept
<1>. QED
  BY <1>2, <1>3

-----------------------------------------------------------------------------
(* The steps                                                               *)

(* A step of the mandates leaves the calls and the tokens alone.           *)
LEMMA CallsUnmoved ==
  ASSUME IInv, TypeOK', Keeps, StoredWasCreated',
         UNCHANGED <<revoked, tokens, issue, verify, revoke>>
  PROVE  IInv'
<1>1. \A c \in IssueCalls : IssueKnows(c)'
  <2>1. ASSUME NEW c \in IssueCalls
        PROVE  tokens'[c] = tokens[c] /\ issue'[c] = issue[c]
    OBVIOUS
  <2>. QED
    BY <2>1, IssueKept
<1>2. \A t \in TokenNames : TokenKnows(t)'
  BY TokenKept
<1>3. \A v \in VerifyCalls : VerifyKnows(v)'
  BY VerifyKept
<1>4. \A c \in RevokeCalls : RevokeKnows(c)'
  BY RevokeKept
<1>5. RevokedKnows'
  BY RevokedKept
<1>. QED
  BY <1>1, <1>2, <1>3, <1>4, <1>5 DEF IInv

(* An issue call moves, and what it knows is what is left to show.         *)
LEMMA IssueMoves ==
  ASSUME IInv, Keeps, NEW c \in IssueCalls, issue' \in [IssueCalls -> IssueCall],
         \A d \in IssueCalls : d # c => issue'[d] = issue[d],
         mandates' \in [Mandates -> Mandate],
         \A m \in Mandates : mandates'[m].status # "absent" => Stored(m),
         UNCHANGED <<clock, revoked, tokens, creating, verify, revoke>>,
         IssueKnows(c)'
  PROVE  IInv'
<1>1. TypeOK' /\ StoredWasCreated'
  BY DEF IInv, TypeOK, StoredWasCreated, Stored
<1>2. \A d \in IssueCalls : IssueKnows(d)'
  <2>1. ASSUME NEW d \in IssueCalls, d # c
        PROVE  IssueKnows(d)'
    BY <2>1, IssueKept
  <2>. QED
    BY <2>1
<1>3. \A t \in TokenNames : TokenKnows(t)'
  BY TokenKept
<1>4. \A v \in VerifyCalls : VerifyKnows(v)'
  BY VerifyKept
<1>5. \A d \in RevokeCalls : RevokeKnows(d)'
  BY RevokeKept
<1>6. RevokedKnows'
  BY RevokedKept
<1>. QED
  BY <1>1, <1>2, <1>3, <1>4, <1>5, <1>6 DEF IInv

(* A verification moves.                                                   *)
LEMMA VerifyMoves ==
  ASSUME IInv, NEW v \in VerifyCalls, verify' \in [VerifyCalls -> VerifyCall],
         \A w \in VerifyCalls : w # v => verify'[w] = verify[w],
         UNCHANGED <<clock, mandates, revoked, tokens, creating, issue, revoke>>,
         VerifyKnows(v)'
  PROVE  IInv'
<1>0. Keeps
  BY KeepsUnmoved
<1>1. TypeOK' /\ StoredWasCreated'
  BY DEF IInv, TypeOK, StoredWasCreated, Stored
<1>2. \A c \in IssueCalls : IssueKnows(c)'
  BY <1>0, IssueKept
<1>3. \A t \in TokenNames : TokenKnows(t)'
  BY <1>0, TokenKept
<1>4. \A w \in VerifyCalls : VerifyKnows(w)'
  <2>1. ASSUME NEW w \in VerifyCalls, w # v
        PROVE  VerifyKnows(w)'
    BY <1>0, <2>1, VerifyKept
  <2>. QED
    BY <2>1
<1>5. \A d \in RevokeCalls : RevokeKnows(d)'
  BY <1>0, RevokeKept
<1>6. RevokedKnows'
  BY <1>0, RevokedKept
<1>. QED
  BY <1>1, <1>2, <1>3, <1>4, <1>5, <1>6 DEF IInv

(* A revocation moves.                                                     *)
LEMMA RevokeMoves ==
  ASSUME IInv, Keeps, NEW c \in RevokeCalls, revoke' \in [RevokeCalls -> RevokeCall],
         \A d \in RevokeCalls : d # c => revoke'[d] = revoke[d],
         mandates' \in [Mandates -> Mandate], revoked' \subseteq TokenNames \cup Mandates,
         \A m \in Mandates : mandates'[m].status # "absent" => Stored(m),
         UNCHANGED <<clock, tokens, creating, issue, verify>>,
         RevokeKnows(c)', RevokedKnows'
  PROVE  IInv'
<1>1. TypeOK' /\ StoredWasCreated'
  BY DEF IInv, TypeOK, StoredWasCreated, Stored
<1>2. \A d \in IssueCalls : IssueKnows(d)'
  BY IssueKept
<1>3. \A t \in TokenNames : TokenKnows(t)'
  BY TokenKept
<1>4. \A v \in VerifyCalls : VerifyKnows(v)'
  BY VerifyKept
<1>5. \A d \in RevokeCalls : RevokeKnows(d)'
  <2>1. ASSUME NEW d \in RevokeCalls, d # c
        PROVE  RevokeKnows(d)'
    BY <2>1, RevokeKept
  <2>. QED
    BY <2>1
<1>. QED
  BY <1>1, <1>2, <1>3, <1>4, <1>5 DEF IInv

(* MandateService.create, the sweep and the clock.                         *)
LEMMA MandateStepsKeep ==
  ASSUME IInv,
         (\E m \in Mandates : CreateCheck(m) \/ CreateStore(m)) \/ Sweep \/ Tick
  PROVE  IInv'
<1>0. TypeOK /\ StoredWasCreated
  BY DEF IInv
<1>1. TypeOK'
  BY <1>0, MandateStepsTyped
<1>2. ASSUME NEW m \in Mandates, CreateCheck(m)
      PROVE  IInv'
  <2>1. /\ creating[m] = "idle" /\ UNCHANGED <<revoked, tokens, issue, verify, revoke>>
        /\ creating' \in {[creating EXCEPT ![m] = "store"], [creating EXCEPT ![m] = "ended"]}
    BY <1>2 DEF CreateCheck
  <2>2. ~Stored(m)
    BY <1>0, <2>1 DEF StoredWasCreated
  <2>3. \A x \in Mandates : x # m => mandates'[x] = mandates[x] /\ creating'[x] = creating[x]
    BY <1>0, <1>2 DEF CreateCheck, TypeOK
  <2>4. mandates'[m].status = mandates[m].status
    BY <1>0, <1>2, CreateRow DEF TypeOK
  <2>5. Keeps
    BY <2>1, <2>2, <2>3 DEF Keeps, Stored
  <2>6. StoredWasCreated'
    BY <1>0, <2>2, <2>3, <2>4 DEF StoredWasCreated, Stored
  <2>. QED
    BY <1>1, <2>1, <2>5, <2>6, CallsUnmoved
<1>3. ASSUME NEW m \in Mandates, CreateStore(m)
      PROVE  IInv'
  <2>1. /\ creating[m] = "store" /\ UNCHANGED <<revoked, tokens, issue, verify, revoke>>
        /\ creating' = [creating EXCEPT ![m] = "ended"] /\ SetStatus(m, "active")
    BY <1>3 DEF CreateStore, SetStatus
  <2>2. Keeps
    BY <1>0, <2>1, KeepsStatus
  <2>3. \A x \in Mandates : x # m => mandates'[x] = mandates[x]
    BY <1>0, <2>1 DEF SetStatus, TypeOK
  <2>4. StoredWasCreated'
    BY <1>0, <2>1, <2>3 DEF StoredWasCreated, Stored, TypeOK
  <2>. QED
    BY <1>1, <2>1, <2>2, <2>4, CallsUnmoved
<1>4. ASSUME Sweep
      PROVE  IInv'
  <2>1. /\ UNCHANGED <<revoked, tokens, creating, issue, verify, revoke>>
        /\ mandates' = [m \in Mandates |->
             IF Overdue(m) THEN [mandates[m] EXCEPT !.status = "expired"] ELSE mandates[m]]
    BY <1>4 DEF Sweep
  <2>2. \A m \in Mandates : /\ mandates'[m].status # "absent" <=> Stored(m)
                            /\ mandates'[m].subject = mandates[m].subject
                            /\ mandates'[m].agent = mandates[m].agent
                            /\ mandates'[m].scope = mandates[m].scope
    BY <1>0, <2>1 DEF Overdue, Stored, TypeOK, Mandate
  <2>3. Keeps
    BY <2>1, <2>2 DEF Keeps
  <2>4. StoredWasCreated'
    BY <1>0, <2>1, <2>2 DEF StoredWasCreated, Stored
  <2>. QED
    BY <1>1, <2>1, <2>3, <2>4, CallsUnmoved
<1>5. ASSUME Tick
      PROVE  IInv'
  <2>1. UNCHANGED <<mandates, revoked, tokens, creating, issue, verify, revoke>>
    BY <1>5 DEF Tick
  <2>2. Keeps /\ StoredWasCreated'
    BY <1>0, <2>1, KeepsUnmoved DEF StoredWasCreated, Stored
  <2>. QED
    BY <1>1, <2>1, <2>2, CallsUnmoved
<1>. QED
  BY <1>2, <1>3, <1>4, <1>5

(* An issue call that ends hands out nothing.                              *)
LEMMA EndIssueKnows ==
  ASSUME IInv, NEW c \in IssueCalls, EndIssue(c), issue[c].pc # "issued", tokens' = tokens
  PROVE  /\ issue' \in [IssueCalls -> IssueCall]
         /\ \A d \in IssueCalls : d # c => issue'[d] = issue[d]
         /\ IssueKnows(c)'
<1>1. issue \in [IssueCalls -> IssueCall] /\ ~Exists(c) /\ TypeOK
  BY DEF IInv, TypeOK, IssueKnows
<1>2. issue'[c] = IssueAt("ended") /\ \A d \in IssueCalls : d # c => issue'[d] = issue[d]
  BY <1>1 DEF EndIssue
<1>3. issue'[c].pc = "ended" /\ issue'[c].revokedThen = {}
  BY <1>2 DEF IssueAt
<1>4. IssueKnows(c)'
  BY <1>1, <1>3 DEF IssueKnows, Exists
<1>. QED
  BY <1>1, <1>2, <1>4, GoTyped

(* An issue call that goes on keeps its locals.                            *)
LEMMA GoIssueAt ==
  ASSUME TypeOK, NEW c \in IssueCalls,
         NEW pc \in {"fresh", "expire", "ids", "mark", "bind", "issued"}, GoIssue(c, pc)
  PROVE  /\ issue' \in [IssueCalls -> IssueCall]
         /\ \A d \in IssueCalls : d # c => issue'[d] = issue[d]
         /\ issue'[c].pc = pc /\ issue'[c].mandate = issue[c].mandate
         /\ issue'[c].by = issue[c].by /\ issue'[c].scope = issue[c].scope
         /\ issue'[c].revokedThen = issue[c].revokedThen
<1>1. issue' \in [IssueCalls -> IssueCall]
  BY GoTyped
<1>. QED
  BY <1>1 DEF TypeOK, GoIssue, IssueCall

(* The mandate is looked up: an active one is stored.                      *)
LEMMA IssueGetKeeps ==
  ASSUME IInv, NEW c \in IssueCalls, IssueGet(c)
  PROVE  IInv'
<1>0. TypeOK /\ IssueKnows(c)
  BY DEF IInv
<1>1. /\ UNCHANGED <<clock, mandates, revoked, tokens, creating, verify, revoke>>
      /\ issue[c].pc = "idle" /\ Keeps
  BY KeepsUnmoved DEF IssueGet
<1>2. mandates' \in [Mandates -> Mandate] /\ \A m \in Mandates : mandates'[m].status # "absent" => Stored(m)
  BY <1>0, <1>1 DEF TypeOK, Stored
<1>3. PICK m \in Mandates, by \in Agents, s \in Scopes, ttl \in TTLs :
        /\ mandates[m].status # "absent"
        /\ IF mandates[m].status = "active"
           THEN issue' = [issue EXCEPT ![c] =
                  [pc |-> "fresh", mandate |-> m, by |-> by, scope |-> s, ttl |-> ttl,
                   revokedThen |-> revoked]]
           ELSE EndIssue(c)
  BY DEF IssueGet
<1>4. CASE EndIssue(c)
  BY <1>1, <1>2, <1>4, EndIssueKnows, IssueMoves
<1>5. CASE ~EndIssue(c)
  <2> DEFINE x == [pc |-> "fresh", mandate |-> m, by |-> by, scope |-> s, ttl |-> ttl,
                   revokedThen |-> revoked]
  <2>1. issue' = [issue EXCEPT ![c] = x]
    BY <1>3, <1>5
  <2>2. x \in IssueCall /\ x.pc = "fresh" /\ x.mandate = m /\ x.revokedThen = revoked
    BY <1>0, TokenConstants DEF IssueCall, TypeOK
  <2> HIDE DEF x
  <2>3. /\ issue' \in [IssueCalls -> IssueCall] /\ issue'[c] = x
        /\ \A d \in IssueCalls : d # c => issue'[d] = issue[d]
    BY <1>0, <2>1, <2>2 DEF TypeOK
  <2>4. IssueKnows(c)'
    BY <1>0, <1>1, <1>3, <2>2, <2>3 DEF IssueKnows, Stored, Exists
  <2>. QED
    BY <1>1, <1>2, <2>3, <2>4, IssueMoves
<1>. QED
  BY <1>4, <1>5

(* Whether the date is past decides what comes next.                       *)
LEMMA IssueFreshKeeps ==
  ASSUME IInv, NEW c \in IssueCalls, IssueFresh(c)
  PROVE  IInv'
<1>0. TypeOK /\ IssueKnows(c)
  BY DEF IInv
<1>1. /\ UNCHANGED <<clock, mandates, revoked, tokens, creating, verify, revoke>>
      /\ issue[c].pc = "fresh" /\ Keeps
  BY KeepsUnmoved DEF IssueFresh
<1>2. mandates' \in [Mandates -> Mandate] /\ \A m \in Mandates : mandates'[m].status # "absent" => Stored(m)
  BY <1>0, <1>1 DEF TypeOK, Stored
<1>3. PICK pc \in {"expire", "ids"} : GoIssue(c, pc)
  BY DEF IssueFresh
<1>4. /\ issue' \in [IssueCalls -> IssueCall]
      /\ \A d \in IssueCalls : d # c => issue'[d] = issue[d]
      /\ issue'[c].pc = pc /\ issue'[c].mandate = issue[c].mandate
      /\ issue'[c].revokedThen = issue[c].revokedThen
  BY <1>0, <1>3, GoIssueAt
<1>5. IssueKnows(c)'
  BY <1>0, <1>1, <1>4 DEF IssueKnows, Stored, Exists
<1>. QED
  BY <1>1, <1>2, <1>4, <1>5, IssueMoves

(* The status is written from a copy read earlier: the mandate is stored.  *)
LEMMA IssueStatusKeeps ==
  ASSUME IInv, NEW c \in IssueCalls, IssueExpire(c) \/ IssueMark(c)
  PROVE  IInv'
<1>0. TypeOK /\ IssueKnows(c)
  BY DEF IInv
<1>1. /\ UNCHANGED <<clock, revoked, tokens, creating, verify, revoke>>
      /\ issue[c].pc \in {"expire", "mark"} /\ EndIssue(c)
  BY DEF IssueExpire, IssueMark
<1> DEFINE m == issue[c].mandate
<1>2. m \in Mandates /\ Stored(m)
  BY <1>0, <1>1 DEF IssueKnows
<1>3. PICK status \in {"active", "revoked", "expired"} : SetStatus(m, status)
  BY DEF IssueExpire, IssueMark
<1>4. /\ mandates' \in [Mandates -> Mandate]
      /\ \A x \in Mandates : x # m => mandates'[x] = mandates[x]
  BY <1>0, <1>2, <1>3, StatusTyped
<1>5. \A x \in Mandates : mandates'[x].status # "absent" => Stored(x)
  BY <1>2, <1>4 DEF Stored
<1>6. Keeps
  BY <1>0, <1>1, <1>2, <1>3, KeepsStatus
<1>. QED
  BY <1>1, <1>4, <1>5, <1>6, EndIssueKnows, IssueMoves

(* The mandate's id is not on the list, so that it was not when the call   *)
(* began; the caller and the scope are the mandate's.                      *)
LEMMA IssueRevocationsKeeps ==
  ASSUME IInv, NEW c \in IssueCalls, IssueRevocations(c)
  PROVE  IInv'
<1>0. TypeOK /\ IssueKnows(c)
  BY DEF IInv
<1>1. /\ UNCHANGED <<clock, mandates, revoked, tokens, creating, verify, revoke>>
      /\ issue[c].pc = "ids" /\ Keeps
  BY KeepsUnmoved DEF IssueRevocations
<1>2. mandates' \in [Mandates -> Mandate] /\ \A m \in Mandates : mandates'[m].status # "absent" => Stored(m)
  BY <1>0, <1>1 DEF TypeOK, Stored
<1> DEFINE m == issue[c].mandate
<1>3. m \in Mandates /\ Stored(m) /\ issue[c].revokedThen \subseteq revoked
  BY <1>0, <1>1 DEF IssueKnows
<1>4. CASE GoIssue(c, "mark")
  <2>1. /\ issue' \in [IssueCalls -> IssueCall]
        /\ \A d \in IssueCalls : d # c => issue'[d] = issue[d]
        /\ issue'[c].pc = "mark" /\ issue'[c].mandate = issue[c].mandate
        /\ issue'[c].revokedThen = issue[c].revokedThen
    BY <1>0, <1>4, GoIssueAt
  <2>2. IssueKnows(c)'
    BY <1>0, <1>1, <2>1 DEF IssueKnows, Stored, Exists
  <2>. QED
    BY <1>1, <1>2, <2>1, <2>2, IssueMoves
<1>5. CASE /\ m \notin revoked /\ issue[c].by = mandates[m].agent
           /\ IsSubsetOf(issue[c].scope, mandates[m].scope) /\ GoIssue(c, "bind")
  <2>1. /\ issue' \in [IssueCalls -> IssueCall]
        /\ \A d \in IssueCalls : d # c => issue'[d] = issue[d]
        /\ issue'[c].pc = "bind" /\ issue'[c].mandate = issue[c].mandate
        /\ issue'[c].by = issue[c].by /\ issue'[c].scope = issue[c].scope
        /\ issue'[c].revokedThen = issue[c].revokedThen
    BY <1>0, <1>5, GoIssueAt
  <2>2. IssueKnows(c)'
    BY <1>0, <1>1, <1>3, <1>5, <2>1 DEF IssueKnows, Stored, Exists, Backs
  <2>. QED
    BY <1>1, <1>2, <2>1, <2>2, IssueMoves
<1>6. CASE EndIssue(c)
  BY <1>1, <1>2, <1>6, EndIssueKnows, IssueMoves
<1>. QED
  BY <1>4, <1>5, <1>6 DEF IssueRevocations

(* The lifetimes computed are integers, not always positive ones.          *)
LEMMA EffectiveTyped ==
  ASSUME IInv, NEW c \in IssueCalls, issue[c].mandate \in Mandates
  PROVE  Effective(c, clock) \in Int
<1>1. /\ issue[c].ttl \in Int /\ clock \in Int
      /\ mandates[issue[c].mandate].maxTTL \in Int /\ mandates[issue[c].mandate].expires \in Int
  BY DEF IInv, TypeOK, IssueCall, Mandate
<1>. QED
  BY <1>1 DEF Effective, SmallestOf

(* A call whose locals are replaced: typing and the others.                *)
LEMMA IssueSet ==
  ASSUME TypeOK, NEW c \in IssueCalls, NEW x \in IssueCall, issue' = [issue EXCEPT ![c] = x]
  PROVE  /\ issue' \in [IssueCalls -> IssueCall] /\ issue'[c] = x
         /\ \A d \in IssueCalls : d # c => issue'[d] = issue[d]
BY DEF TypeOK

(* The binding is asked for again and the lifetime is computed; both work  *)
(* on the call's locals only.                                              *)
LEMMA IssueBindKeeps ==
  ASSUME IInv, NEW c \in IssueCalls, IssueBind(c)
  PROVE  IInv'
<1>0. TypeOK /\ IssueKnows(c) /\ issue[c] \in IssueCall
  BY DEF IInv, TypeOK
<1>1. /\ UNCHANGED <<clock, mandates, revoked, tokens, creating, verify, revoke>>
      /\ issue[c].pc = "bind" /\ Keeps
  BY KeepsUnmoved DEF IssueBind
<1>2. mandates' \in [Mandates -> Mandate] /\ \A m \in Mandates : mandates'[m].status # "absent" => Stored(m)
  BY <1>0, <1>1 DEF TypeOK, Stored
<1>3. CASE EndIssue(c)
  BY <1>1, <1>2, <1>3, EndIssueKnows, IssueMoves
<1>4. CASE issue' = [issue EXCEPT ![c] = [@ EXCEPT !.pc = "sign", !.ttl = Effective(c, clock)]]
  <2> DEFINE n == Effective(c, clock)
             x == [issue[c] EXCEPT !.pc = "sign", !.ttl = n]
  <2>1. n \in Int
    BY <1>0, <1>1, EffectiveTyped DEF IssueKnows
  <2> HIDE DEF n
  <2>2. /\ x \in IssueCall /\ x.pc = "sign" /\ x.mandate = issue[c].mandate
        /\ x.by = issue[c].by /\ x.scope = issue[c].scope /\ x.revokedThen = issue[c].revokedThen
    BY <1>0, <2>1 DEF IssueCall
  <2>3. issue' = [issue EXCEPT ![c] = x]
    BY <1>4 DEF n
  <2> HIDE DEF x
  <2>4. /\ issue' \in [IssueCalls -> IssueCall] /\ issue'[c] = x
        /\ \A d \in IssueCalls : d # c => issue'[d] = issue[d]
    BY <1>0, <2>2, <2>3, IssueSet
  <2>5. IssueKnows(c)'
    BY <1>0, <1>1, <2>2, <2>4 DEF IssueKnows, Stored, Exists, Backs
  <2>. QED
    BY <1>1, <1>2, <2>4, <2>5, IssueMoves
<1>. QED
  BY <1>3, <1>4 DEF IssueBind

(* A token without a mandate needs no mandate behind it.                   *)
LEMMA IssueDirectKeeps ==
  ASSUME IInv, NEW c \in IssueCalls, IssueDirect(c)
  PROVE  IInv'
<1>0. TypeOK /\ IssueKnows(c)
  BY DEF IInv
<1>1. /\ UNCHANGED <<clock, mandates, revoked, tokens, creating, verify, revoke>>
      /\ issue[c].pc = "idle" /\ Keeps
  BY KeepsUnmoved DEF IssueDirect
<1>2. mandates' \in [Mandates -> Mandate] /\ \A m \in Mandates : mandates'[m].status # "absent" => Stored(m)
  BY <1>0, <1>1 DEF TypeOK, Stored
<1>3. PICK by \in Agents, s \in Scopes, ttl \in TTLs :
        issue' = [issue EXCEPT ![c] =
          [pc |-> "sign", mandate |-> NoMandate, by |-> by, scope |-> s, ttl |-> ttl,
           revokedThen |-> revoked]]
  BY DEF IssueDirect
<1> DEFINE x == [pc |-> "sign", mandate |-> NoMandate, by |-> by, scope |-> s, ttl |-> ttl,
                 revokedThen |-> revoked]
<1>4. x \in IssueCall /\ x.pc = "sign" /\ x.mandate = NoMandate /\ x.revokedThen = revoked
  BY <1>0, TokenConstants DEF IssueCall, TypeOK
<1> HIDE DEF x
<1>5. /\ issue' \in [IssueCalls -> IssueCall] /\ issue'[c] = x
      /\ \A d \in IssueCalls : d # c => issue'[d] = issue[d]
  BY <1>0, <1>3, <1>4, IssueSet DEF x
<1>6. IssueKnows(c)'
  BY <1>0, <1>1, <1>4, <1>5 DEF IssueKnows, Exists
<1>. QED
  BY <1>1, <1>2, <1>5, <1>6, IssueMoves

(* The clock is read a second time when the token is signed.               *)
LEMMA IssueSignKeeps ==
  ASSUME IInv, NEW c \in IssueCalls, IssueSign(c)
  PROVE  IInv'
<1>0. TypeOK /\ IssueKnows(c) /\ issue[c] \in IssueCall
  BY DEF IInv, TypeOK
<1>1. /\ UNCHANGED <<clock, mandates, revoked, tokens, creating, verify, revoke>>
      /\ issue[c].pc = "sign" /\ Keeps
  BY KeepsUnmoved DEF IssueSign
<1>2. mandates' \in [Mandates -> Mandate] /\ \A m \in Mandates : mandates'[m].status # "absent" => Stored(m)
  BY <1>0, <1>1 DEF TypeOK, Stored
<1> DEFINE n == Expiry(clock, issue[c].ttl)
           x == [issue[c] EXCEPT !.pc = "journal", !.ttl = n]
<1>3. n \in Int
  BY <1>0, TokenConstants DEF Expiry, TypeOK, IssueCall
<1> HIDE DEF n
<1>4. /\ x \in IssueCall /\ x.pc = "journal" /\ x.mandate = issue[c].mandate
      /\ x.by = issue[c].by /\ x.scope = issue[c].scope /\ x.revokedThen = issue[c].revokedThen
  BY <1>0, <1>3 DEF IssueCall
<1>5. issue' = [issue EXCEPT ![c] = x]
  BY DEF IssueSign, n
<1> HIDE DEF x
<1>6. /\ issue' \in [IssueCalls -> IssueCall] /\ issue'[c] = x
      /\ \A d \in IssueCalls : d # c => issue'[d] = issue[d]
  BY <1>0, <1>4, <1>5, IssueSet
<1>7. IssueKnows(c)'
  BY <1>0, <1>1, <1>4, <1>6 DEF IssueKnows, Stored, Exists, Backs
<1>. QED
  BY <1>1, <1>2, <1>6, <1>7, IssueMoves

(* A token is handed out: those that were stay as they are, and what the   *)
(* new one knows, and the call that made it, is left to show.              *)
LEMMA HandedOut ==
  ASSUME IInv, NEW t \in TokenNames, ~Exists(t), NEW x \in Token,
         tokens' = [tokens EXCEPT ![t] = x],
         UNCHANGED <<clock, mandates, revoked, creating, verify, revoke>>,
         issue' \in [IssueCalls -> IssueCall],
         \A c \in IssueCalls : c # t => issue'[c] = issue[c],
         TokenKnows(t)', t \in IssueCalls => IssueKnows(t)'
  PROVE  IInv'
<1>1. TypeOK /\ tokens' \in [TokenNames -> Token]
      /\ \A s \in TokenNames : s # t => tokens'[s] = tokens[s]
  BY DEF IInv, TypeOK
<1>2. Keeps
  BY <1>1 DEF Keeps, Stored
<1>3. TypeOK' /\ StoredWasCreated'
  BY <1>1 DEF IInv, TypeOK, StoredWasCreated, Stored
<1>4. \A c \in IssueCalls : IssueKnows(c)'
  <2>1. ASSUME NEW c \in IssueCalls, c # t
        PROVE  IssueKnows(c)'
    BY <1>1, <1>2, <2>1, IssueKept DEF TokenNames
  <2>. QED
    BY <2>1
<1>5. \A s \in TokenNames : TokenKnows(s)'
  <2>1. ASSUME NEW s \in TokenNames, s # t
        PROVE  TokenKnows(s)'
    BY <1>1, <1>2, <2>1, TokenKept
  <2>. QED
    BY <2>1
<1>6. \A v \in VerifyCalls : VerifyKnows(v)'
  BY <1>2, VerifyKept
<1>7. \A d \in RevokeCalls : RevokeKnows(d)'
  BY <1>2, RevokeKept
<1>8. RevokedKnows'
  BY <1>2, RevokedKept
<1>. QED
  BY <1>3, <1>4, <1>5, <1>6, <1>7, <1>8 DEF IInv

(* The token of an issue call has one block, which the mandate backs.      *)
LEMMA IssueJournalKeeps ==
  ASSUME IInv, NEW c \in IssueCalls, IssueJournal(c)
  PROVE  IInv'
<1>0. TypeOK /\ IssueKnows(c) /\ issue[c] \in IssueCall /\ c \in TokenNames
  BY DEF IInv, TypeOK, TokenNames
<1>1. /\ UNCHANGED <<clock, mandates, revoked, creating, verify, revoke>>
      /\ issue[c].pc = "journal" /\ GoIssue(c, "issued")
  BY DEF IssueJournal
<1> DEFINE b == TrailBlock(c, issue[c].by, issue[c].scope)
           x == [blocks |-> <<b>>, mandate |-> issue[c].mandate, expires |-> issue[c].ttl]
<1>2. /\ b \in Block /\ b.id = c /\ b.actor = issue[c].by
      /\ b.scope = issue[c].scope /\ b.check = b.scope
  BY <1>0 DEF TrailBlock, Block, IssueCall
<1>3. tokens' = [tokens EXCEPT ![c] = x]
  BY DEF IssueJournal
<1> HIDE DEF b
<1>4. x \in Token /\ x.blocks = <<b>> /\ x.mandate = issue[c].mandate
  BY <1>0, <1>2 DEF Token, IssueCall
<1> HIDE DEF x
<1>5. tokens'[c] = x
  BY <1>0, <1>3 DEF TypeOK
<1>6. /\ issue' \in [IssueCalls -> IssueCall]
      /\ \A d \in IssueCalls : d # c => issue'[d] = issue[d]
      /\ issue'[c].pc = "issued" /\ issue'[c].mandate = issue[c].mandate
      /\ issue'[c].by = issue[c].by /\ issue'[c].scope = issue[c].scope
      /\ issue'[c].revokedThen = issue[c].revokedThen
  BY <1>0, <1>1, GoIssueAt
<1>7. IssueKnows(c)'
  BY <1>0, <1>1, <1>6 DEF IssueKnows, Stored, Backs
<1>8. LastBlock(c)' = b /\ Authority(c)' = b /\ Blocks(c)' = {b}
  <2>1. tokens'[c].blocks = <<b>> /\ Len(<<b>>) = 1 /\ <<b>>[1] = b
    BY <1>4, <1>5
  <2>2. 1..Len(<<b>>) = {1}
    BY <2>1
  <2>. QED
    BY <2>1, <2>2, Zenon DEF LastBlock, Authority, Blocks
<1>9. TokenKnows(c)'
  <2>1. IsSubsetOf(b.scope, b.scope)
    BY <1>2, SubsetReflexive DEF Block
  <2>2. x.mandate # NoMandate => Backs(x.mandate, b.actor, b.scope)
    BY <1>0, <1>1, <1>2, <1>4 DEF IssueKnows
  <2>3. Backs(x.mandate, b.actor, b.scope) =>
          mandates'[x.mandate].status # "absent" /\ b.actor = mandates'[x.mandate].agent
            /\ IsSubsetOf(b.scope, mandates'[x.mandate].scope)
    BY <1>1 DEF Backs, Stored
  <2>4. \A y \in Blocks(c)' : Enforced(c, y.scope)'
    BY <1>2, <1>8 DEF Enforced
  <2>. QED
    BY <1>2, <1>4, <1>5, <1>8, <2>1, <2>2, <2>3, <2>4 DEF TokenKnows, Backs, Stored
<1>10. ~Exists(c)
  BY <1>0, <1>1 DEF IssueKnows
<1>. QED
  BY <1>0, <1>1, <1>3, <1>4, <1>6, <1>7, <1>9, <1>10, HandedOut

(* A token made from another has the blocks of its parent and one more     *)
(* that declares no more than the last of them, and so than all of them;   *)
(* what it declares is checked, by itself or by a block before it.         *)
LEMMA AppendKeeps ==
  ASSUME IInv, NEW d \in Delegations, NEW t \in TokenNames, NEW b \in Block,
         ~Exists(d), Exists(t), b.id = d,
         IsSubsetOf(b.scope, LastBlock(t).scope),
         b.check = b.scope \/ b.scope = LastBlock(t).scope,
         tokens' = [tokens EXCEPT ![d] = [tokens[t] EXCEPT !.blocks = Append(@, b)]],
         UNCHANGED <<clock, mandates, revoked, creating, issue, verify, revoke>>
  PROVE  IInv'
<1>0. TypeOK /\ d \in TokenNames /\ d \notin IssueCalls
  BY TokenConstants DEF IInv, TokenNames
<1> DEFINE old == tokens[t].blocks
           w == Append(old, b)
           x == [tokens[t] EXCEPT !.blocks = w]
<1>3. tokens[t] \in Token /\ old \in Seq(Block)
  BY <1>0 DEF TypeOK, Token
<1>4. tokens' = [tokens EXCEPT ![d] = x]
  OBVIOUS
<1>5. /\ w \in Seq(Block) /\ Len(w) = Len(old) + 1 /\ Len(old) \in Nat /\ Len(old) # 0
      /\ \A i \in 1..Len(old) : w[i] = old[i] /\ old[i] \in Block
      /\ w[Len(old) + 1] = b
  BY <1>3 DEF Exists
<1> HIDE DEF w
<1>6. x \in Token /\ x.blocks = w /\ x.mandate = tokens[t].mandate
  BY <1>3, <1>5 DEF Token
<1> HIDE DEF x
<1>7. tokens'[d] = x
  BY <1>0, <1>4 DEF TypeOK
<1>8. /\ LastBlock(d)' = b /\ Authority(d)' = Authority(t)
      /\ Blocks(d)' = Blocks(t) \cup {b} /\ LastBlock(t) \in Blocks(t)
  <2>1. w[1] = old[1] /\ w[Len(w)] = b
    BY <1>5
  <2>2. ASSUME NEW i \in 1..Len(w)
        PROVE  w[i] = b \/ w[i] \in {old[j] : j \in 1..Len(old)}
    <3>1. i = Len(old) + 1 \/ i \in 1..Len(old)
      BY <1>5
    <3>. QED
      BY <1>5, <3>1
  <2>3. tokens'[d].blocks = w
    BY <1>6, <1>7
  <2>4. LastBlock(d)' = b /\ Authority(d)' = Authority(t)
    BY <2>1, <2>3 DEF LastBlock, Authority
  <2>5. Blocks(t) = {old[j] : j \in 1..Len(old)} /\ Blocks(d)' = {w[i] : i \in 1..Len(w)}
    BY <2>3 DEF Blocks
  <2>6. LastBlock(t) = old[Len(old)] /\ Len(old) \in 1..Len(old)
    BY <1>5 DEF LastBlock
  <2> HIDE DEF old
  <2>7. b \in {w[i] : i \in 1..Len(w)}
    BY <1>5, <2>1
  <2>8. ASSUME NEW j \in 1..Len(old)
        PROVE  old[j] \in {w[i] : i \in 1..Len(w)}
    <3>1. j \in 1..Len(w) /\ w[j] = old[j]
      BY <1>5
    <3>. QED
      BY <3>1
  <2>9. Blocks(d)' \subseteq Blocks(t) \cup {b}
    BY <2>2, <2>5, Zenon
  <2>10. Blocks(t) \cup {b} \subseteq Blocks(d)'
    BY <2>5, <2>7, <2>8
  <2>11. LastBlock(t) \in Blocks(t)
    BY <2>5, <2>6
  <2>. QED
    BY <2>4, <2>9, <2>10, <2>11
<1>9. TokenKnows(t) /\ LastBlock(t).scope \in Scopes /\ \A y \in Blocks(t) : y.scope \in Scopes
  <2>1. TokenKnows(t)
    BY DEF IInv
  <2>2. \A i \in 1..Len(old) : old[i] \in Block
    BY <1>5
  <2>3. LastBlock(t) \in Block /\ \A y \in Blocks(t) : y \in Block
    <3>1. Len(old) \in 1..Len(old)
      BY <1>5
    <3>. QED
      BY <2>2, <3>1 DEF LastBlock, Blocks
  <2>. QED
    BY <2>1, <2>3 DEF Block
<1>10. \A y \in Blocks(d)' : IsSubsetOf(b.scope, y.scope)
  <2>1. ASSUME NEW y \in Blocks(t)
        PROVE  IsSubsetOf(b.scope, y.scope)
    <3>1. IsSubsetOf(LastBlock(t).scope, y.scope) /\ b.scope \in Scopes
      BY <1>9 DEF TokenKnows, Block
    <3>. QED
      BY <1>9, <3>1, SubsetTransitive
  <2>2. IsSubsetOf(b.scope, b.scope)
    BY SubsetReflexive DEF Block
  <2>. QED
    BY <1>8, <2>1, <2>2
<1>11. \A y \in Blocks(d)' : Enforced(d, y.scope)'
  <2>1. \A y \in Blocks(t) : Enforced(t, y.scope)
    BY <1>9 DEF TokenKnows
  <2>2. \A scope : Enforced(t, scope) => Enforced(d, scope)'
    BY <1>8 DEF Enforced
  <2>3. Enforced(d, b.scope)'
    <3>1. CASE b.check = b.scope
      BY <1>8, <3>1 DEF Enforced
    <3>2. CASE b.scope = LastBlock(t).scope
      BY <1>8, <2>1, <2>2, <3>2
    <3>. QED
      BY <3>1, <3>2
  <2>. QED
    BY <1>8, <2>1, <2>2, <2>3
<1>12. tokens[t].mandate # NoMandate =>
         Backs(tokens[t].mandate, Authority(t).actor, Authority(t).scope)
  BY <1>9 DEF TokenKnows
<1>13. TokenKnows(d)'
  <2>1. LastBlock(d)'.id = d /\ \A y \in Blocks(d)' : IsSubsetOf(LastBlock(d)'.scope, y.scope)
    BY <1>8, <1>10
  <2>2. tokens'[d].mandate # NoMandate =>
          Backs(tokens[d].mandate, Authority(d).actor, Authority(d).scope)'
    BY <1>6, <1>7, <1>8, <1>12 DEF Backs, Stored
  <2>. QED
    BY <1>11, <2>1, <2>2 DEF TokenKnows
<1>14. issue' \in [IssueCalls -> IssueCall]
  BY <1>0 DEF TypeOK
<1>. QED
  BY <1>0, <1>4, <1>6, <1>13, <1>14, HandedOut

(* The block of a delegation checks what it declares.                      *)
LEMMA AttenuateKeeps ==
  ASSUME IInv, NEW d \in Delegations, Attenuate(d)
  PROVE  IInv'
<1>1. UNCHANGED <<clock, mandates, revoked, creating, issue, verify, revoke>> /\ ~Exists(d)
  BY DEF Attenuate
<1>2. PICK t \in TokenNames, to \in Agents, s \in Scopes :
        /\ Exists(t)
        /\ MayDelegate(t, to, s)
        /\ tokens' = [tokens EXCEPT ![d] =
             [tokens[t] EXCEPT !.blocks = Append(@, TrailBlock(d, to, s))]]
  BY DEF Attenuate
<1> DEFINE b == TrailBlock(d, to, s)
<1>3. b \in Block /\ b.id = d /\ b.scope = s /\ b.check = s
  BY DEF TrailBlock, Block, TokenNames
<1>4. IsSubsetOf(s, LastBlock(t).scope)
  BY <1>2 DEF MayDelegate
<1> HIDE DEF b
<1>5. tokens' = [tokens EXCEPT ![d] = [tokens[t] EXCEPT !.blocks = Append(@, b)]]
  BY <1>2 DEF b
<1>. QED
  BY <1>1, <1>2, <1>3, <1>4, <1>5, AppendKeeps

(* The block of a holder declares nothing of its own.                      *)
LEMMA AppendOpaqueKeeps ==
  ASSUME IInv, NEW d \in Delegations, AppendOpaque(d)
  PROVE  IInv'
<1>1. UNCHANGED <<clock, mandates, revoked, creating, issue, verify, revoke>> /\ ~Exists(d)
  BY DEF AppendOpaque
<1>2. PICK t \in TokenNames, s \in Scopes :
        /\ Exists(t)
        /\ tokens' = [tokens EXCEPT ![d] =
             [tokens[t] EXCEPT !.blocks = Append(@, OpaqueBlock(d, LastBlock(t), s))]]
  BY DEF AppendOpaque
<1>3. LastBlock(t) \in Block
  <2>1. tokens[t].blocks \in Seq(Block) /\ tokens[t].blocks # <<>>
    BY <1>2 DEF IInv, TypeOK, Token, Exists
  <2>. QED
    BY <2>1 DEF LastBlock
<1> DEFINE b == OpaqueBlock(d, LastBlock(t), s)
<1>4. b \in Block /\ b.id = d /\ b.scope = LastBlock(t).scope
  BY <1>3 DEF OpaqueBlock, Block, TokenNames
<1>5. IsSubsetOf(b.scope, LastBlock(t).scope)
  BY <1>3, <1>4, SubsetReflexive DEF Block
<1> HIDE DEF b
<1>6. tokens' = [tokens EXCEPT ![d] = [tokens[t] EXCEPT !.blocks = Append(@, b)]]
  BY <1>2 DEF b
<1>. QED
  BY <1>1, <1>2, <1>4, <1>5, <1>6, AppendKeeps

(* A verification that refuses knows nothing.                              *)
LEMMA RefuseKeeps ==
  ASSUME IInv, NEW v \in VerifyCalls, Refuse(v),
         UNCHANGED <<clock, mandates, revoked, tokens, creating, issue, revoke>>
  PROVE  IInv'
<1>0. TypeOK
  BY DEF IInv
<1>1. /\ verify' \in [VerifyCalls -> VerifyCall] /\ verify'[v] = VerifyAt("refused")
      /\ \A w \in VerifyCalls : w # v => verify'[w] = verify[w]
  BY <1>0, GoTyped DEF Refuse, TypeOK
<1>2. VerifyKnows(v)'
  BY <1>1 DEF VerifyKnows, VerifyAt
<1>. QED
  BY <1>1, <1>2, VerifyMoves

(* The token is loaded, its ids are looked up, and then its checks run:    *)
(* each step adds to what is known of the same token.                      *)
LEMMA VerifyStepsKeep ==
  ASSUME IInv, NEW v \in VerifyCalls,
         VerifyLoad(v) \/ VerifyRevocations(v) \/ VerifyAuthorize(v)
  PROVE  IInv'
<1>0. TypeOK /\ VerifyKnows(v) /\ verify[v] \in VerifyCall
  BY DEF IInv, TypeOK
<1>1. UNCHANGED <<clock, mandates, revoked, tokens, creating, issue, revoke>>
  BY DEF VerifyLoad, VerifyRevocations, VerifyAuthorize
<1>2. CASE VerifyLoad(v)
  <2>1. PICK t \in TokenNames, by \in Agents, ask \in Asks :
          /\ Exists(t)
          /\ verify' = [verify EXCEPT ![v] =
               [pc |-> "ids", token |-> t, by |-> by, ask |-> ask, revokedThen |-> revoked]]
    BY <1>2 DEF VerifyLoad
  <2> DEFINE x == [pc |-> "ids", token |-> t, by |-> by, ask |-> ask, revokedThen |-> revoked]
  <2>2. x \in VerifyCall /\ x.pc = "ids" /\ x.token = t /\ x.revokedThen = revoked
    BY <1>0 DEF VerifyCall, TypeOK
  <2> HIDE DEF x
  <2>3. /\ verify' \in [VerifyCalls -> VerifyCall] /\ verify'[v] = x
        /\ \A w \in VerifyCalls : w # v => verify'[w] = verify[w]
    BY <1>0, <2>1, <2>2 DEF TypeOK, x
  <2>4. VerifyKnows(v)'
    BY <1>1, <2>1, <2>2, <2>3 DEF VerifyKnows, Exists
  <2>. QED
    BY <1>1, <2>3, <2>4, VerifyMoves
<1>3. ASSUME NEW pc \in {"authorize", "verified"}, GoVerify(v, pc),
             pc = "authorize" => /\ verify[v].pc = "ids"
                                 /\ Ids(verify[v].token) \cap revoked = {},
             pc = "verified" => /\ verify[v].pc = "authorize"
                                /\ Authorizes(verify[v].token, verify[v].ask)
      PROVE  IInv'
  <2>1. /\ verify' \in [VerifyCalls -> VerifyCall]
        /\ \A w \in VerifyCalls : w # v => verify'[w] = verify[w]
    BY <1>0, <1>3, GoTyped DEF GoVerify, TypeOK
  <2>2. /\ verify'[v].pc = pc /\ verify'[v].token = verify[v].token
        /\ verify'[v].ask = verify[v].ask /\ verify'[v].revokedThen = verify[v].revokedThen
    BY <1>0, <1>3 DEF GoVerify, TypeOK, VerifyCall
  <2> DEFINE t == verify[v].token
  <2>3. Exists(t) /\ Ids(t) \cap verify[v].revokedThen = {}
    BY <1>0, <1>3 DEF VerifyKnows
  <2>4. /\ (Exists(verify[v].token)' <=> Exists(t)) /\ Ids(verify[v].token)' = Ids(t)
        /\ (Authorizes(verify[v].token, verify[v].ask)' <=> Authorizes(t, verify[v].ask))
    BY <1>1, <2>2 DEF Exists, Ids, Blocks, Authorizes
  <2>5. VerifyKnows(v)'
    BY <1>0, <1>1, <1>3, <2>2, <2>3, <2>4 DEF VerifyKnows
  <2>. QED
    BY <1>1, <2>1, <2>5, VerifyMoves
<1>4. CASE VerifyRevocations(v)
  BY <1>1, <1>3, <1>4, RefuseKeeps DEF VerifyRevocations
<1>5. CASE VerifyAuthorize(v)
  BY <1>1, <1>3, <1>5, RefuseKeeps DEF VerifyAuthorize
<1>. QED
  BY <1>2, <1>4, <1>5

(* A revocation that ends before it wrote leaves the list alone.           *)
LEMMA EndRevokeKeeps ==
  ASSUME IInv, NEW c \in RevokeCalls, EndRevoke(c), revoke[c].pc \in {"idle", "id"},
         UNCHANGED <<clock, mandates, revoked, tokens, creating, issue, verify>>
  PROVE  IInv'
<1>0. TypeOK /\ Keeps
  BY KeepsUnmoved DEF IInv
<1>1. /\ revoke' \in [RevokeCalls -> RevokeCall] /\ revoke'[c] = RevokeAt("ended")
      /\ \A d \in RevokeCalls : d # c => revoke'[d] = revoke[d]
  BY <1>0, GoTyped DEF EndRevoke, TypeOK
<1>2. RevokeKnows(c)'
  BY <1>1 DEF RevokeKnows, RevokeAt
<1>3. RevokedKnows'
  BY <1>0, <1>1, RevokedKept
<1>4. /\ mandates' \in [Mandates -> Mandate] /\ revoked' \subseteq TokenNames \cup Mandates
      /\ \A m \in Mandates : mandates'[m].status # "absent" => Stored(m)
  BY <1>0 DEF TypeOK, Stored
<1>. QED
  BY <1>0, <1>1, <1>2, <1>3, <1>4, RevokeMoves

(* A revocation begins: the caller owns what it names.                     *)
LEMMA RevokeBegins ==
  ASSUME IInv, NEW c \in RevokeCalls, revoke[c].pc = "idle",
         NEW id \in TokenNames \cup Mandates, NEW by \in Users \cup Agents,
         Owned(id), by = Owner(id),
         revoke' = [revoke EXCEPT ![c] = [pc |-> "id", target |-> id, by |-> by]],
         UNCHANGED <<clock, mandates, revoked, tokens, creating, issue, verify>>
  PROVE  IInv'
<1>0. TypeOK /\ Keeps
  BY KeepsUnmoved DEF IInv
<1> DEFINE x == [pc |-> "id", target |-> id, by |-> by]
<1>1. x \in RevokeCall /\ x.pc = "id" /\ x.target = id /\ x.by = by
  BY DEF RevokeCall
<1> HIDE DEF x
<1>2. /\ revoke' \in [RevokeCalls -> RevokeCall] /\ revoke'[c] = x
      /\ \A d \in RevokeCalls : d # c => revoke'[d] = revoke[d]
  BY <1>0, <1>1 DEF TypeOK, x
<1>3. Owned(id)' /\ Owner(id)' = Owner(id)
  BY <1>0, OwnedKept
<1>4. RevokeKnows(c)'
  <2>1. revoke'[c].pc = "id" /\ revoke'[c].target = id /\ revoke'[c].by = Owner(id)'
    BY <1>1, <1>2, <1>3
  <2>2. Owned(revoke[c].target)' /\ Owner(revoke[c].target)' = Owner(id)'
    BY <1>3, <2>1 DEF Owned, Owner, Stored, Exists, LastBlock
  <2>. QED
    BY <2>1, <2>2 DEF RevokeKnows
<1>5. RevokedKnows'
  BY <1>0, <1>2, RevokedKept
<1>6. /\ mandates' \in [Mandates -> Mandate] /\ revoked' \subseteq TokenNames \cup Mandates
      /\ \A m \in Mandates : mandates'[m].status # "absent" => Stored(m)
  BY <1>0 DEF TypeOK, Stored
<1>. QED
  BY <1>0, <1>2, <1>4, <1>5, <1>6, RevokeMoves

(* A mandate is revoked by its subject, a token by its holder: the id that *)
(* goes on the list is the one of the last block, which names the token.   *)
LEMMA RevokeFirstStepsKeep ==
  ASSUME IInv, NEW c \in RevokeCalls, RevokeMandateGet(c) \/ RevokeTokenInspect(c)
  PROVE  IInv'
<1>1. /\ UNCHANGED <<clock, mandates, revoked, tokens, creating, issue, verify>>
      /\ revoke[c].pc = "idle"
  BY DEF RevokeMandateGet, RevokeTokenInspect
<1>2. CASE EndRevoke(c)
  BY <1>1, <1>2, EndRevokeKeeps
<1>3. CASE RevokeMandateGet(c) /\ ~EndRevoke(c)
  <2>1. PICK m \in Mandates, by \in Users :
          /\ mandates[m].status # "absent" /\ by = mandates[m].subject
          /\ revoke' = [revoke EXCEPT ![c] = [pc |-> "id", target |-> m, by |-> by]]
    BY <1>3 DEF RevokeMandateGet
  <2>2. Owned(m) /\ by = Owner(m)
    BY <2>1 DEF Owned, Owner, Stored
  <2>. QED
    BY <1>1, <2>1, <2>2, RevokeBegins
<1>4. CASE RevokeTokenInspect(c) /\ ~EndRevoke(c)
  <2>1. PICK t \in TokenNames, by \in Agents :
          /\ Exists(t) /\ by = LastBlock(t).actor
          /\ revoke' = [revoke EXCEPT ![c] = [pc |-> "id", target |-> OwnId(t), by |-> by]]
    BY <1>4 DEF RevokeTokenInspect
  <2>2. OwnId(t) = t /\ t \notin Mandates
    BY <2>1, TokenConstants DEF IInv, TokenKnows, OwnId, TokenNames
  <2>3. Owned(t) /\ by = Owner(t)
    BY <2>1, <2>2 DEF Owned, Owner
  <2>4. revoke' = [revoke EXCEPT ![c] = [pc |-> "id", target |-> t, by |-> by]]
    BY <2>1, <2>2
  <2>. QED
    BY <1>1, <2>3, <2>4, RevokeBegins
<1>. QED
  BY <1>2, <1>3, <1>4

(* The id goes on the list, and the call that put it there remembers why.  *)
LEMMA RevokeIdKeeps ==
  ASSUME IInv, NEW c \in RevokeCalls, RevokeId(c)
  PROVE  IInv'
<1>0. TypeOK /\ RevokeKnows(c) /\ RevokedKnows /\ revoke[c] \in RevokeCall
  BY DEF IInv, TypeOK
<1> DEFINE id == revoke[c].target
<1>1. /\ UNCHANGED <<clock, mandates, tokens, creating, issue, verify>>
      /\ revoke[c].pc = "id" /\ revoked' = revoked \cup {id}
  BY DEF RevokeId
<1>2. PICK pc \in {"update", "ended"} : GoRevoke(c, pc) /\ (pc = "update" => id \in Mandates)
  BY DEF RevokeId
<1>3. id \in TokenNames \cup Mandates /\ Owned(id) /\ revoke[c].by = Owner(id)
  BY <1>0, <1>1 DEF RevokeKnows, RevokeCall
<1>4. Keeps
  BY <1>1 DEF Keeps, Stored
<1>5. /\ revoke' \in [RevokeCalls -> RevokeCall]
      /\ \A d \in RevokeCalls : d # c => revoke'[d] = revoke[d]
  BY <1>0, <1>2, GoTyped DEF GoRevoke, TypeOK
<1>6. revoke'[c].pc = pc /\ revoke'[c].target = id /\ revoke'[c].by = revoke[c].by
  BY <1>0, <1>2 DEF GoRevoke, TypeOK, RevokeCall
<1>7. \A i \in TokenNames \cup Mandates : Owned(i) => Owned(i)' /\ Owner(i)' = Owner(i)
  BY <1>0, <1>4, OwnedKept
<1>8. RevokeKnows(c)'
  <2>1. Owned(id)' /\ Owner(id)' = Owner(id)
    <3>1. id' = id
      BY <1>6
    <3>. QED
      BY <1>1, <1>3, <3>1 DEF Owned, Owner, Stored, Exists, LastBlock
  <2>. QED
    BY <1>2, <1>3, <1>6, <2>1 DEF RevokeKnows
<1>9. RevokedKnows'
  <2> SUFFICES ASSUME NEW i \in revoked'
               PROVE  /\ Owned(i)'
                      /\ \E d \in RevokeCalls : /\ revoke'[d].pc \in {"update", "ended"}
                                                /\ revoke'[d].target = i
                                                /\ revoke'[d].by = Owner(i)'
    BY DEF RevokedKnows
  <2>1. CASE i \in revoked
    <3>1. /\ Owned(i) /\ i \in TokenNames \cup Mandates
      BY <1>0, <2>1 DEF RevokedKnows, TypeOK
    <3>2. PICK d \in RevokeCalls : /\ revoke[d].pc \in {"update", "ended"}
                                   /\ revoke[d].target = i /\ revoke[d].by = Owner(i)
      BY <1>0, <2>1 DEF RevokedKnows
    <3>. QED
      BY <1>1, <1>5, <1>7, <3>1, <3>2
  <2>2. CASE i = revoke[c].target
    <3>1. Owned(i)' /\ Owner(i)' = Owner(i)
      BY <1>3, <1>7, <2>2
    <3>. QED
      BY <1>3, <1>6, <2>2, <3>1
  <2>. QED
    BY <1>1, <2>1, <2>2
<1>10. /\ mandates' \in [Mandates -> Mandate] /\ revoked' \subseteq TokenNames \cup Mandates
       /\ \A m \in Mandates : mandates'[m].status # "absent" => Stored(m)
  BY <1>0, <1>1, <1>3 DEF TypeOK, Stored
<1>. QED
  BY <1>1, <1>4, <1>5, <1>8, <1>9, <1>10, RevokeMoves

(* The revocation ends, with or without its mark in the mandates table.    *)
LEMMA RevokeLastKeeps ==
  ASSUME IInv, NEW c \in RevokeCalls, revoke[c].pc = "update", GoRevoke(c, "ended"),
         mandates' = mandates \/ SetStatus(revoke[c].target, "revoked"),
         UNCHANGED <<clock, revoked, tokens, creating, issue, verify>>
  PROVE  IInv'
<1>0. TypeOK /\ RevokeKnows(c) /\ revoke[c] \in RevokeCall
  BY DEF IInv, TypeOK
<1> DEFINE m == revoke[c].target
<1>1. m \in Mandates /\ Stored(m)
  BY <1>0 DEF RevokeKnows, Owned
<1>2. /\ mandates' \in [Mandates -> Mandate] /\ Keeps
      /\ \A x \in Mandates : mandates'[x].status # "absent" => Stored(x)
  <2>1. CASE mandates' = mandates
    BY <1>0, <2>1, KeepsUnmoved DEF TypeOK, Stored
  <2>2. CASE SetStatus(m, "revoked")
    <3>1. /\ mandates' \in [Mandates -> Mandate]
          /\ \A x \in Mandates : x # m => mandates'[x] = mandates[x]
      BY <1>0, <1>1, <2>2, StatusTyped
    <3>2. Keeps
      BY <1>0, <1>1, <2>2, KeepsStatus
    <3>. QED
      BY <1>1, <3>1, <3>2 DEF Stored
  <2>. QED
    BY <2>1, <2>2
<1>3. /\ revoke' \in [RevokeCalls -> RevokeCall]
      /\ \A d \in RevokeCalls : d # c => revoke'[d] = revoke[d]
  BY <1>0, GoTyped DEF GoRevoke, TypeOK
<1>4. revoke'[c].pc = "ended" /\ revoke'[c].target = revoke[c].target /\ revoke'[c].by = revoke[c].by
  BY <1>0 DEF GoRevoke, TypeOK, RevokeCall
<1>5. RevokeKnows(c)'
  BY <1>4 DEF RevokeKnows
<1>6. RevokedKnows'
  BY <1>2, <1>3, <1>4, RevokedKept
<1>7. revoked' \subseteq TokenNames \cup Mandates
  BY <1>0 DEF TypeOK
<1>. QED
  BY <1>2, <1>3, <1>5, <1>6, <1>7, RevokeMoves

(* A failure ends a call; what it wrote stays.                             *)
LEMMA RaiseKeeps ==
  ASSUME IInv, Raise
  PROVE  IInv'
<1>0. TypeOK /\ StoredWasCreated
  BY DEF IInv
<1>1. ASSUME NEW m \in Mandates, creating[m] = "store",
             creating' = [creating EXCEPT ![m] = "ended"],
             UNCHANGED <<clock, mandates, revoked, tokens, issue, verify, revoke>>
      PROVE  IInv'
  <2>1. TypeOK' /\ StoredWasCreated' /\ Keeps
    BY <1>0, <1>1, KeepsUnmoved DEF TypeOK, StoredWasCreated, Stored
  <2>. QED
    BY <1>1, <2>1, CallsUnmoved
<1>2. ASSUME NEW c \in IssueCalls, issue[c].pc \notin {"idle", "issued", "ended"}, EndIssue(c),
             UNCHANGED <<clock, mandates, revoked, tokens, creating, verify, revoke>>
      PROVE  IInv'
  <2>1. /\ mandates' \in [Mandates -> Mandate] /\ Keeps
        /\ \A m \in Mandates : mandates'[m].status # "absent" => Stored(m)
    BY <1>0, <1>2, KeepsUnmoved DEF TypeOK, Stored
  <2>. QED
    BY <1>2, <2>1, EndIssueKnows, IssueMoves
<1>3. ASSUME NEW v \in VerifyCalls, Refuse(v),
             UNCHANGED <<clock, mandates, revoked, tokens, creating, issue, revoke>>
      PROVE  IInv'
  BY <1>3, RefuseKeeps
<1>4. ASSUME NEW c \in RevokeCalls, revoke[c].pc = "id", EndRevoke(c),
             UNCHANGED <<clock, mandates, revoked, tokens, creating, issue, verify>>
      PROVE  IInv'
  BY <1>4, EndRevokeKeeps
<1>5. ASSUME NEW c \in RevokeCalls, revoke[c].pc = "update", GoRevoke(c, "ended"),
             UNCHANGED <<clock, mandates, revoked, tokens, creating, issue, verify>>
      PROVE  IInv'
  BY <1>5, RevokeLastKeeps
<1>. QED
  BY <1>1, <1>2, <1>3, <1>4, <1>5 DEF Raise

-----------------------------------------------------------------------------
(* The theorems                                                            *)

(* Nothing is stored, handed out or revoked at first.                      *)
LEMMA InitKnows ==
  ASSUME Init
  PROVE  IInv
<1>1. TypeOK
  BY InitTyped
<1>2. StoredWasCreated /\ RevokedKnows
  BY DEF Init, StoredWasCreated, Stored, RevokedKnows
<1>3. \A t \in TokenNames : ~Exists(t)
  BY DEF Init, Exists
<1>4. \A c \in IssueCalls : IssueKnows(c)
  BY <1>3 DEF Init, IssueKnows, IssueAt, TokenNames
<1>5. \A v \in VerifyCalls : VerifyKnows(v)
  BY DEF Init, VerifyKnows, VerifyAt
<1>6. \A c \in RevokeCalls : RevokeKnows(c)
  BY DEF Init, RevokeKnows, RevokeAt
<1>. QED
  BY <1>1, <1>2, <1>3, <1>4, <1>5, <1>6 DEF IInv, TokenKnows

(* Every step keeps the invariant.                                         *)
LEMMA StepKnows ==
  ASSUME IInv, [Next]_vars
  PROVE  IInv'
<1>1. CASE UNCHANGED vars
  <2>1. UNCHANGED <<clock, mandates, revoked, tokens, creating, issue, verify, revoke>>
    BY <1>1 DEF vars
  <2>2. Keeps /\ TypeOK' /\ StoredWasCreated'
    BY <2>1, KeepsUnmoved DEF IInv, TypeOK, StoredWasCreated, Stored
  <2>. QED
    BY <2>1, <2>2, CallsUnmoved
<1>2. ASSUME NEW c \in IssueCalls,
             \/ IssueGet(c) \/ IssueFresh(c) \/ IssueExpire(c)
             \/ IssueRevocations(c) \/ IssueMark(c)
             \/ IssueBind(c) \/ IssueDirect(c) \/ IssueSign(c) \/ IssueJournal(c)
      PROVE  IInv'
  BY <1>2, IssueGetKeeps, IssueFreshKeeps, IssueStatusKeeps, IssueRevocationsKeeps,
     IssueBindKeeps, IssueDirectKeeps, IssueSignKeeps, IssueJournalKeeps
<1>3. ASSUME NEW c \in RevokeCalls,
             \/ RevokeMandateGet(c) \/ RevokeTokenInspect(c) \/ RevokeId(c)
             \/ RevokeUpdate(c)
      PROVE  IInv'
  <2>1. CASE RevokeUpdate(c)
    BY <2>1, RevokeLastKeeps DEF RevokeUpdate
  <2>. QED
    BY <1>3, <2>1, RevokeFirstStepsKeep, RevokeIdKeeps
<1>. QED
  BY <1>1, <1>2, <1>3, MandateStepsKeep, AttenuateKeeps, AppendOpaqueKeeps, VerifyStepsKeep,
     RaiseKeeps DEF Next

(* The inductive invariant holds, the type invariant with it: what a call  *)
(* learned at one step is still so at the next, whatever ran in between.   *)
THEOREM TokensInvariant == Spec => []IInv
<1>1. Init => IInv
  BY InitKnows
<1>2. IInv /\ [Next]_vars => IInv'
  BY StepKnows
<1>. QED
  BY <1>1, <1>2, PTL DEF Spec

(* A token that verifies had no revoked block and no revoked mandate when  *)
(* the call began (service.py, verify), however deep it was delegated.     *)
THEOREM RevokedTokensStayDead == Spec => []RevokedStaysDead
<1>1. IInv => RevokedStaysDead
  <2> SUFFICES ASSUME IInv, NEW v \in VerifyCalls, verify[v].pc = "verified"
               PROVE  LET t == verify[v].token
                          m == tokens[t].mandate
                      IN  /\ m \notin verify[v].revokedThen
                          /\ {b.id : b \in Blocks(t)} \cap verify[v].revokedThen = {}
    BY DEF RevokedStaysDead
  <2>1. /\ Ids(verify[v].token) \cap verify[v].revokedThen = {}
        /\ verify[v].revokedThen \subseteq TokenNames \cup Mandates
    BY DEF IInv, VerifyKnows, TypeOK, VerifyCall
  <2>2. NoMandate \notin TokenNames \cup Mandates
    BY TokenConstants DEF TokenNames
  <2>. QED
    BY <2>1, <2>2 DEF Ids
<1>. QED
  BY <1>1, TokensInvariant, PTL

(* No issue call that begins after the mandate's id was revoked hands out  *)
(* a token (mandates.py, _fresh and issue).                                *)
THEOREM NothingIssuedAfterRevoke == Spec => []NoTokenAfterRevoke
<1>1. IInv => NoTokenAfterRevoke
  <2> SUFFICES ASSUME IInv, NEW c \in IssueCalls, issue[c].pc = "issued"
               PROVE  issue[c].mandate \notin issue[c].revokedThen
    BY DEF NoTokenAfterRevoke
  <2>1. /\ issue[c].revokedThen \subseteq TokenNames \cup Mandates
        /\ issue[c].mandate # NoMandate => issue[c].mandate \notin issue[c].revokedThen
    BY DEF IInv, IssueKnows, TypeOK, IssueCall
  <2>2. NoMandate \notin TokenNames \cup Mandates
    BY TokenConstants DEF TokenNames
  <2>. QED
    BY <2>1, <2>2
<1>. QED
  BY <1>1, TokensInvariant, PTL

(* What verifies is within every scope, declared or checked, from the      *)
(* mandate to the last block, and the mandate's agent is the one the token was issued to  *)
(* (I1; service.py, verify; scope.py, is_subset_of).                       *)
THEOREM NothingBeyondScope == Spec => []VerifiedWithinScope
<1>1. IInv => VerifiedWithinScope
  <2> SUFFICES ASSUME IInv, NEW v \in VerifyCalls, verify[v].pc = "verified"
               PROVE  LET t   == verify[v].token
                          m   == tokens[t].mandate
                          ask == verify[v].ask
                      IN  /\ \A b \in Blocks(t) :
                               /\ Permits(b.scope, ask) /\ Permits(b.check, ask)
                               /\ IsSubsetOf(LastBlock(t).scope, b.scope)
                          /\ m # NoMandate => /\ Permits(mandates[m].scope, ask)
                                              /\ mandates[m].agent = Authority(t).actor
    BY DEF VerifiedWithinScope
  <2> DEFINE t == verify[v].token
             m == tokens[t].mandate
             ask == verify[v].ask
  <2>1. /\ t \in TokenNames /\ ask \in Asks /\ Exists(t)
        /\ \A b \in Blocks(t) : Permits(b.check, ask)
    BY DEF IInv, VerifyKnows, TypeOK, VerifyCall, Authorizes
  <2>2. TokenKnows(t) /\ tokens[t] \in Token
    BY <2>1 DEF IInv, TypeOK
  <2>3. \A b \in Blocks(t) : IsSubsetOf(LastBlock(t).scope, b.scope)
    BY <2>1, <2>2 DEF TokenKnows
  <2>4. \A b \in Blocks(t) : Permits(b.scope, ask)
    BY <2>1, <2>2 DEF TokenKnows, Enforced
  <2>5. ASSUME m # NoMandate
        PROVE  Permits(mandates[m].scope, ask) /\ mandates[m].agent = Authority(t).actor
    <3>1. Backs(m, Authority(t).actor, Authority(t).scope)
      BY <2>1, <2>2, <2>5 DEF TokenKnows
    <3>2. Authority(t) \in Blocks(t) /\ Authority(t).scope \in Scopes
      <4>1. tokens[t].blocks \in Seq(Block) /\ tokens[t].blocks # <<>>
        BY <2>1, <2>2 DEF Exists, Token
      <4>2. 1 \in 1..Len(tokens[t].blocks) /\ tokens[t].blocks[1] \in Block
        BY <4>1
      <4>. QED
        BY <4>2 DEF Authority, Blocks, Block
    <3>3. mandates[m].scope \in Scopes
      BY <2>2, <2>5 DEF IInv, TypeOK, Token, Mandate
    <3>4. Permits(Authority(t).scope, ask)
      BY <2>4, <3>2
    <3>5. Permits(mandates[m].scope, ask)
      <4>1. IsSubsetOf(Authority(t).scope, mandates[m].scope)
        BY <3>1 DEF Backs
      <4>. QED
        BY <2>1, <3>2, <3>3, <3>4, <4>1, PermitsWider
    <3>. QED
      BY <3>1, <3>5 DEF Backs
  <2>. QED
    BY <2>1, <2>3, <2>4, <2>5
<1>. QED
  BY <1>1, TokensInvariant, PTL

(* An id is on the revocation list only because its owner put it there     *)
(* (ADR 0016, amendment; service.py, own_revocation_id).                   *)
THEOREM OnlyOwnersRevoke == Spec => []RevokedByOwner
<1>1. IInv => RevokedByOwner
  BY DEF IInv, RevokedKnows, RevokedByOwner, Owner
<1>. QED
  BY <1>1, TokensInvariant, PTL
=============================================================================
