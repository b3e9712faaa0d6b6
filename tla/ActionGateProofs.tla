-------------------------- MODULE ActionGateProofs --------------------------
(***************************************************************************)
(* Proofs about ActionGate, for any number of calls, users, invocations    *)
(* and rules, and any TTL.                                                 *)
(***************************************************************************)
EXTENDS ActionGate, TLAPS

(* A decision is always one of the three outcomes, and it is ALLOW only    *)
(* when the scope covers the tool and the engine said related.             *)
LEMMA DecisionOutcome ==
  ASSUME NEW i, NEW tool, NEW a, NEW approved
  PROVE  /\ Decision(i, tool, a, approved) \in Outcomes
         /\ Decision(i, tool, a, approved) = "ALLOW"
              => tool \in i.chain.scope /\ a = "related"
BY DEF Decision, Evaluate, PolicyVerdict, MostRestrictive, Outcomes

(* The defaults of an idle call are members of the sets they stand for.    *)
LEMMA Defaults ==
  /\ AnInvocation \in Invocations
  /\ ARequest \in GateCalls
  /\ AUser \in Users
BY CallsAssumption, ConstantsAssumption DEF AnInvocation, ARequest, AUser

-----------------------------------------------------------------------------
(* What the updates of the actions do to a row or to the record of a call. *)

(* A change of status keeps a row well formed.                             *)
LEMMA RowStatus ==
  ASSUME NEW x \in Row, NEW s \in Statuses
  PROVE  [x EXCEPT !.status = s] \in Row
BY DEF Row

(* So does a resolution, which names who resolved.                         *)
LEMMA RowResolved ==
  ASSUME NEW x \in Row, NEW s \in Statuses, NEW u \in Users \cup {Nobody}
  PROVE  [x EXCEPT !.status = s, !.resolvedBy = u] \in Row
BY DEF Row

(* Moving a gate call on keeps its other fields.                           *)
LEMMA GatePc ==
  ASSUME NEW x \in GateCall, NEW p \in GatePcs
  PROVE  [x EXCEPT !.pc = p] \in GateCall
BY DEF GateCall

(* Moving a resolve call on keeps its other fields.                        *)
LEMMA ResolvePc ==
  ASSUME NEW x \in ResolveCall, NEW p \in ResolvePcs
  PROVE  [x EXCEPT !.pc = p] \in ResolveCall
BY DEF ResolveCall

(* Moving a redeem call on keeps its other fields.                         *)
LEMMA RedeemPc ==
  ASSUME NEW x \in RedeemCall, NEW p \in RedeemPcs
  PROVE  [x EXCEPT !.pc = p] \in RedeemCall
BY DEF RedeemCall

(* A redeem keeps the status it read.                                      *)
LEMMA RedeemSeen ==
  ASSUME NEW x \in RedeemCall, NEW p \in RedeemPcs, NEW s \in Statuses
  PROVE  [x EXCEPT !.seen = s, !.pc = p] \in RedeemCall
BY DEF RedeemCall

-----------------------------------------------------------------------------
(* Type correctness                                                        *)

(* An empty store with no call in flight is well formed.                   *)
LEMMA TypeInit == Init => TypeOK
<1> SUFFICES ASSUME Init PROVE TypeOK
  OBVIOUS
<1>1. [status |-> "absent", expires |-> 0, resolvedBy |-> Nobody] \in Row
  BY DEF Row, Statuses
<1>2. [pc |-> "idle", inv |-> AnInvocation, now |-> 0, result |-> "DENY"] \in GateCall
  BY Defaults DEF GateCall, GatePcs, Outcomes
<1>3. [pc |-> "idle", req |-> ARequest, by |-> AUser, verdict |-> "approved",
       now |-> 0, answer |-> "unasked"] \in ResolveCall
  BY Defaults DEF ResolveCall, ResolvePcs
<1>4. [pc |-> "idle", req |-> ARequest, inv |-> AnInvocation, tool |-> AnInvocation.tool,
       seen |-> "absent", answer |-> "unasked", result |-> "DENY"] \in RedeemCall
  BY Defaults DEF RedeemCall, RedeemPcs, Tools, Statuses, Outcomes
<1>. QED
  BY <1>1, <1>2, <1>3, <1>4 DEF Init, TypeOK

(* Every step of gate (ActionGate.gate) keeps the types.                   *)
LEMMA TypeGate ==
  ASSUME TypeOK, NEW c \in GateCalls, GateStep(c)
  PROVE  TypeOK'
<1> USE DEF TypeOK
<1>1. CASE GateDecide(c)
  <2>1. PICK i \in Invocations : \E a \in AskedAbout(i, i.tool) :
          gate' = [gate EXCEPT ![c] = [@ EXCEPT !.pc = "record", !.inv = i,
                     !.result = Decision(i, i.tool, a, FALSE)]]
    BY <1>1 DEF GateDecide
  <2>2. PICK a \in AskedAbout(i, i.tool) :
          gate' = [gate EXCEPT ![c] = [@ EXCEPT !.pc = "record", !.inv = i,
                     !.result = Decision(i, i.tool, a, FALSE)]]
    BY <2>1
  <2>3. [gate[c] EXCEPT !.pc = "record", !.inv = i,
                        !.result = Decision(i, i.tool, a, FALSE)] \in GateCall
    BY DecisionOutcome DEF GateCall, GatePcs
  <2>. QED
    BY <1>1, <2>2, <2>3 DEF GateDecide
<1>2. CASE GateRecord(c)
  <2>1. \A p \in GatePcs : [gate[c] EXCEPT !.pc = p, !.now = clock] \in GateCall
    BY DEF GateCall
  <2>. QED
    BY <1>2, <2>1 DEF GateRecord, GatePcs
<1>3. CASE GateCreate(c)
  <2>1. [status |-> "pending", expires |-> gate[c].now + TTL, resolvedBy |-> Nobody] \in Row
    BY ConstantsAssumption DEF Row, GateCall, Statuses
  <2>2. [gate[c] EXCEPT !.pc = "announce"] \in GateCall
    BY GatePc DEF GatePcs
  <2>. QED
    BY <1>3, <2>1, <2>2 DEF GateCreate
<1>4. CASE GateAnnounce(c)
  BY <1>4, GatePc DEF GateAnnounce, GatePcs
<1>5. CASE GateNotify(c)
  BY <1>5, GatePc DEF GateNotify, GatePcs
<1>6. CASE RaiseGate(c)
  BY <1>6, GatePc DEF RaiseGate, GatePcs
<1>. QED
  BY <1>1, <1>2, <1>3, <1>4, <1>5, <1>6 DEF GateStep

(* Every step of resolve (resolve_request) keeps the types.                *)
LEMMA TypeResolve ==
  ASSUME TypeOK, NEW c \in ResolveCalls, ResolveStep(c)
  PROVE  TypeOK'
<1> USE DEF TypeOK
<1>0. /\ resolve[c].req \in GateCalls
      /\ resolve[c].verdict \in Statuses
      /\ resolve[c].by \in Users
  BY DEF ResolveCall, Statuses
<1>1. CASE ResolveGet(c)
  <2>1. \A r \in GateCalls, u \in Users, v \in {"approved", "rejected"} :
          [resolve[c] EXCEPT !.pc = "authorize", !.req = r, !.by = u, !.verdict = v,
                             !.now = clock] \in ResolveCall
    BY DEF ResolveCall, ResolvePcs
  <2>2. PICK r \in GateCalls, u \in Users, v \in {"approved", "rejected"} :
          resolve' = IF rows[r].status = "absent"
            THEN [resolve EXCEPT ![c].pc = "raised"]
            ELSE [resolve EXCEPT ![c] =
              [@ EXCEPT !.pc = "authorize", !.req = r, !.by = u, !.verdict = v,
                        !.now = clock]]
    BY <1>1 DEF ResolveGet
  <2>3. resolve' \in [ResolveCalls -> ResolveCall]
    <3>1. CASE rows[r].status = "absent"
      BY <2>2, <3>1, ResolvePc DEF ResolvePcs
    <3>2. CASE rows[r].status # "absent"
      BY <2>1, <2>2, <3>2
    <3>. QED
      BY <3>1, <3>2
  <2>. QED
    BY <1>1, <2>3 DEF ResolveGet
<1>2. CASE ResolveAuthorize(c)
  <2>1. \A p \in ResolvePcs, a \in Answers \cup {"unasked"} :
          [resolve[c] EXCEPT !.pc = p, !.answer = a] \in ResolveCall
    BY DEF ResolveCall
  <2>2. PICK p \in ResolvePcs, a \in Answers \cup {"unasked"} :
          resolve' = [resolve EXCEPT ![c] = [@ EXCEPT !.pc = p, !.answer = a]]
    BY <1>2 DEF ResolveAuthorize, ResolvePcs
  <2>. QED
    BY <1>2, <2>1, <2>2 DEF ResolveAuthorize
<1>3. CASE ResolveRefuse(c)
  BY <1>3, ResolvePc DEF ResolveRefuse, ResolvePcs
<1>4. CASE ResolveReread(c)
  <2>1. PICK p \in ResolvePcs : resolve' = [resolve EXCEPT ![c].pc = p]
    BY <1>4 DEF ResolveReread, ResolvePcs
  <2>. QED
    BY <1>4, <2>1, ResolvePc DEF ResolveReread
<1>5. CASE ResolveExpire(c)
  <2>1. rows' \in [GateCalls -> Row]
    BY <1>0, <1>5, RowResolved DEF ResolveExpire, Resolved, Statuses
  <2>. QED
    BY <1>5, <2>1, ResolvePc DEF ResolveExpire, ResolvePcs
<1>6. CASE ResolveSettle(c)
  <2>1. CASE CanMove(resolve[c].req, {"pending"})
    <3>1. /\ rows' = Resolved(resolve[c].req, resolve[c].verdict, resolve[c].by)
          /\ resolve' = [resolve EXCEPT ![c].pc = "journal"]
      BY <1>6, <2>1 DEF ResolveSettle
    <3>2. rows' \in [GateCalls -> Row]
      BY <1>0, <3>1, RowResolved DEF Resolved
    <3>. QED
      BY <1>6, <3>1, <3>2, ResolvePc DEF ResolveSettle, ResolvePcs
  <2>2. CASE ~CanMove(resolve[c].req, {"pending"})
    <3>1. rows' = rows /\ resolve' = [resolve EXCEPT ![c].pc = "raised"]
      BY <1>6, <2>2 DEF ResolveSettle
    <3>. QED
      BY <1>6, <3>1, ResolvePc DEF ResolveSettle, ResolvePcs
  <2>. QED
    BY <2>1, <2>2
<1>7. CASE ResolveJournal(c)
  BY <1>7, ResolvePc DEF ResolveJournal, ResolvePcs
<1>8. CASE RaiseResolve(c)
  BY <1>8, ResolvePc DEF RaiseResolve, ResolvePcs
<1>. QED
  BY <1>1, <1>2, <1>3, <1>4, <1>5, <1>6, <1>7, <1>8 DEF ResolveStep

(* Every step of redeem (ActionGate.redeem) keeps the types.               *)
LEMMA TypeRedeem ==
  ASSUME TypeOK, NEW c \in RedeemCalls, RedeemStep(c)
  PROVE  TypeOK'
<1> USE DEF TypeOK
<1>0. /\ redeem[c].req \in GateCalls
      /\ \A r \in GateCalls : rows[r].status \in Statuses
      /\ \A s : AfterMismatch(c, s) \in RedeemPcs
  BY DEF RedeemCall, Row, AfterMismatch, RedeemPcs
<1>1. CASE RedeemGet(c)
  <2>1. \A r \in GateCalls : gate[r].inv.tool \in Tools
    BY DEF GateCall, Tools
  <2>2. \A i \in Invocations : i.tool \in Tools
    BY DEF Tools
  <2>3. \A r \in GateCalls, i \in Invocations, s \in Statuses, t \in Tools :
          [redeem[c] EXCEPT !.pc = "check", !.req = r, !.inv = i, !.seen = s, !.tool = t]
            \in RedeemCall
    BY ZenonT(40) DEF RedeemCall, RedeemPcs
  <2>4. PICK r \in GateCalls, i \in Invocations, named \in BOOLEAN :
          redeem' = IF rows[r].status = "absent"
            THEN [redeem EXCEPT ![c].pc = "deny"]
            ELSE [redeem EXCEPT ![c] =
              [@ EXCEPT !.pc = "check", !.req = r, !.inv = i, !.seen = rows[r].status,
                        !.tool = IF named THEN i.tool ELSE gate[r].inv.tool]]
    BY <1>1 DEF RedeemGet
  <2>5. (IF named THEN i.tool ELSE gate[r].inv.tool) \in Tools
    BY <2>1, <2>2
  <2>6. redeem' \in [RedeemCalls -> RedeemCall]
    <3>1. CASE rows[r].status = "absent"
      BY <2>4, <3>1, RedeemPc DEF RedeemPcs
    <3>2. CASE rows[r].status # "absent"
      BY <1>0, <2>3, <2>4, <2>5, <3>2
    <3>. QED
      BY <3>1, <3>2
  <2>. QED
    BY <1>1, <2>6 DEF RedeemGet
<1>2. CASE RedeemCheck(c)
  <2>1. PICK p \in RedeemPcs : redeem' = [redeem EXCEPT ![c].pc = p]
    BY <1>0, <1>2 DEF RedeemCheck, RedeemPcs
  <2>. QED
    BY <1>2, <2>1, RedeemPc DEF RedeemCheck
<1>3. CASE RedeemExpire(c)
  <2>1. CASE CanMove(redeem[c].req, {"pending", "approved"})
    <3>1. /\ rows' = Moved(redeem[c].req, "expired")
          /\ redeem' = [redeem EXCEPT ![c] =
               [@ EXCEPT !.seen = "expired", !.pc = AfterMismatch(c, "expired")]]
          /\ UNCHANGED <<clock, journal, gate, resolve>>
      BY <1>3, <2>1 DEF RedeemExpire
    <3>2. rows' \in [GateCalls -> Row]
      BY <1>0, <3>1, RowStatus DEF Moved, Statuses
    <3>3. redeem' \in [RedeemCalls -> RedeemCall]
      BY <1>0, <3>1, RedeemSeen DEF Statuses
    <3>. QED
      BY <3>1, <3>2, <3>3
  <2>2. CASE ~CanMove(redeem[c].req, {"pending", "approved"})
    <3>1. /\ redeem' = [redeem EXCEPT ![c].pc = "reread"]
          /\ UNCHANGED <<clock, rows, journal, gate, resolve>>
      BY <1>3, <2>2 DEF RedeemExpire
    <3>2. redeem' \in [RedeemCalls -> RedeemCall]
      BY <3>1, RedeemPc DEF RedeemPcs
    <3>. QED
      BY <3>1, <3>2
  <2>. QED
    BY <2>1, <2>2
<1>4. CASE RedeemReread(c)
  BY <1>0, <1>4, RedeemSeen DEF RedeemReread
<1>5. CASE RedeemDeny(c)
  <2>1. [redeem[c] EXCEPT !.pc = "done", !.result = "DENY"] \in RedeemCall
    BY DEF RedeemCall, RedeemPcs, Outcomes
  <2>. QED
    BY <1>5, <2>1 DEF RedeemDeny
<1>6. CASE RedeemClaim(c)
  <2>1. CASE CanMove(redeem[c].req, {"approved"})
    <3>1. /\ rows' = Moved(redeem[c].req, "consumed")
          /\ redeem' = [redeem EXCEPT ![c].pc = "decide"]
          /\ UNCHANGED <<clock, journal, gate, resolve>>
      BY <1>6, <2>1 DEF RedeemClaim
    <3>2. rows' \in [GateCalls -> Row]
      BY <1>0, <3>1, RowStatus DEF Moved, Statuses
    <3>3. redeem' \in [RedeemCalls -> RedeemCall]
      BY <3>1, RedeemPc DEF RedeemPcs
    <3>. QED
      BY <3>1, <3>2, <3>3
  <2>2. CASE ~CanMove(redeem[c].req, {"approved"})
    <3>1. /\ redeem' = [redeem EXCEPT ![c].pc = "deny"]
          /\ UNCHANGED <<clock, rows, journal, gate, resolve>>
      BY <1>6, <2>2 DEF RedeemClaim
    <3>2. redeem' \in [RedeemCalls -> RedeemCall]
      BY <3>1, RedeemPc DEF RedeemPcs
    <3>. QED
      BY <3>1, <3>2
  <2>. QED
    BY <2>1, <2>2
<1>7. CASE RedeemDecide(c)
  <2>1. PICK a \in AskedAbout(redeem[c].inv, redeem[c].tool) :
          redeem' = [redeem EXCEPT ![c] = [@ EXCEPT !.pc = "record", !.answer = a,
            !.result = Decision(redeem[c].inv, redeem[c].tool, a, TRUE)]]
    BY <1>7 DEF RedeemDecide
  <2>2. /\ Decision(redeem[c].inv, redeem[c].tool, a, TRUE) \in Outcomes
        /\ a \in Answers \cup {"unasked"}
    BY DecisionOutcome DEF AskedAbout
  <2>3. [redeem[c] EXCEPT !.pc = "record", !.answer = a,
           !.result = Decision(redeem[c].inv, redeem[c].tool, a, TRUE)] \in RedeemCall
    BY <2>2 DEF RedeemCall, RedeemPcs
  <2>. QED
    BY <1>7, <2>1, <2>3 DEF RedeemDecide
<1>8. CASE RedeemRecord(c)
  BY <1>8, RedeemPc DEF RedeemRecord, RedeemPcs
<1>9. CASE RedeemJournal(c)
  BY <1>9, RedeemPc DEF RedeemJournal, RedeemPcs
<1>10. CASE RaiseRedeem(c)
  BY <1>10, RedeemPc DEF RaiseRedeem, RedeemPcs
<1>. QED
  BY <1>1, <1>2, <1>3, <1>4, <1>5, <1>6, <1>7, <1>8, <1>9, <1>10 DEF RedeemStep

(* Every step of the system keeps the types.                               *)
LEMMA TypeStep ==
  ASSUME TypeOK, [Next]_vars
  PROVE  TypeOK'
<1>1. CASE \E c \in GateCalls : GateStep(c)
  BY <1>1, TypeGate
<1>2. CASE \E c \in ResolveCalls : ResolveStep(c)
  BY <1>2, TypeResolve
<1>3. CASE \E c \in RedeemCalls : RedeemStep(c)
  BY <1>3, TypeRedeem
<1>4. CASE Sweep
  BY <1>4, RowStatus DEF Sweep, TypeOK, Statuses
<1>5. CASE Tick
  BY <1>5 DEF Tick, TypeOK
<1>6. CASE UNCHANGED vars
  BY <1>6 DEF vars, TypeOK
<1>. QED
  BY <1>1, <1>2, <1>3, <1>4, <1>5, <1>6 DEF Next

(* Type correctness: no call, in any interleaving and with any failure,    *)
(* leaves the store or a call in flight malformed.                         *)
THEOREM TypeCorrect == Spec => []TypeOK
BY TypeInit, TypeStep, PTL DEF Spec

-----------------------------------------------------------------------------
(* How a step moves the rows                                               *)

Follow(r) ==
  /\ rows'[r].status # rows[r].status => rows'[r].status \in Follows(rows[r].status)
  /\ rows[r].status # "absent" => rows'[r].expires = rows[r].expires

(* Only a gate call creates a row.                                         *)
NotCreated(r) == rows[r].status = "absent" => rows'[r].status = "absent"

(* A step that leaves the store alone moves no request.                    *)
LEMMA RowsSame ==
  ASSUME rows' = rows, NEW r \in GateCalls
  PROVE  Follow(r) /\ NotCreated(r)
BY DEF Follow, NotCreated

(* gate only creates a request, and only its own, which did not exist.     *)
LEMMA FollowGate ==
  ASSUME IInv, NEW c \in GateCalls, GateStep(c), NEW r \in GateCalls
  PROVE  Follow(r)
<1>1. CASE GateCreate(c)
  <2>1. rows[c].status = "absent"
    BY <1>1 DEF IInv, RowsCreated, GateCreate
  <2>2. rows'[c].status = "pending"
    BY <1>1 DEF IInv, TypeOK, GateCreate
  <2>3. r # c => rows'[r] = rows[r]
    BY <1>1 DEF IInv, TypeOK, GateCreate
  <2>. QED
    BY <2>1, <2>2, <2>3 DEF Follow, Follows
<1>2. CASE ~GateCreate(c)
  BY <1>2, RowsSame DEF GateStep, GateDecide, GateRecord, GateAnnounce, GateNotify, RaiseGate
<1>. QED
  BY <1>1, <1>2

(* A resolve call settles what is pending, or expires it late: that write  *)
(* hits no consumed request (LateWrite).                                   *)
LEMMA FollowResolve ==
  ASSUME IInv, NEW c \in ResolveCalls, ResolveStep(c), NEW r \in GateCalls
  PROVE  Follow(r) /\ NotCreated(r)
<1>0. /\ resolve[c].req \in GateCalls
      /\ resolve[c].verdict \in {"approved", "rejected"}
      /\ \A q \in GateCalls : rows[q].status \in Statuses
  BY DEF IInv, TypeOK, ResolveCall, Row
<1> DEFINE q == resolve[c].req
<1>1. CASE ResolveExpire(c)
  <2>1. /\ rows'[q].status = "expired"
        /\ rows'[q].expires = rows[q].expires
        /\ r # q => rows'[r] = rows[r]
    BY <1>0, <1>1 DEF IInv, TypeOK, Row, ResolveExpire, Resolved
  <2>2. rows[q].status \notin {"absent", "consumed"}
    BY <1>1 DEF IInv, LateWrite, ResolveExpire
  <2>. QED
    BY <1>0, <2>1, <2>2 DEF Follow, Follows, NotCreated, Statuses
<1>2. CASE ResolveSettle(c) /\ CanMove(resolve[c].req, {"pending"})
  <2>0. rows' = Resolved(resolve[c].req, resolve[c].verdict, resolve[c].by)
    BY <1>2 DEF ResolveSettle
  <2>1. /\ rows'[q].status = resolve[c].verdict
        /\ rows'[q].expires = rows[q].expires
        /\ r # q => rows'[r] = rows[r]
    BY <1>0, <2>0 DEF IInv, TypeOK, Row, Resolved
  <2>2. rows[q].status = "pending"
    BY <1>2 DEF CanMove
  <2>. QED
    BY <1>0, <2>1, <2>2 DEF Follow, Follows, NotCreated
<1>3. CASE ~ResolveExpire(c) /\ ~(ResolveSettle(c) /\ CanMove(resolve[c].req, {"pending"}))
  <2>1. rows' = rows
    BY <1>3 DEF ResolveStep, ResolveGet, ResolveAuthorize, ResolveRefuse, ResolveReread,
                ResolveSettle, ResolveJournal, RaiseResolve
  <2>. QED
    BY <2>1, RowsSame
<1>. QED
  BY <1>1, <1>2, <1>3

(* A redeem expires what is overdue and claims what is approved; both are  *)
(* compare-and-set.                                                        *)
LEMMA FollowRedeem ==
  ASSUME IInv, NEW c \in RedeemCalls, RedeemStep(c), NEW r \in GateCalls
  PROVE  Follow(r) /\ NotCreated(r)
<1>0. redeem[c].req \in GateCalls
  BY DEF IInv, TypeOK, RedeemCall
<1> DEFINE q == redeem[c].req
<1>1. CASE RedeemExpire(c) /\ CanMove(redeem[c].req, {"pending", "approved"})
  <2>0. rows' = Moved(redeem[c].req, "expired")
    BY <1>1 DEF RedeemExpire
  <2>1. /\ rows'[q].status = "expired"
        /\ rows'[q].expires = rows[q].expires
        /\ r # q => rows'[r] = rows[r]
    BY <1>0, <2>0 DEF IInv, TypeOK, Row, Moved
  <2>2. rows[q].status \in {"pending", "approved"}
    BY <1>1 DEF CanMove
  <2>. QED
    BY <2>1, <2>2 DEF Follow, Follows, NotCreated
<1>2. CASE RedeemClaim(c) /\ CanMove(redeem[c].req, {"approved"})
  <2>0. rows' = Moved(redeem[c].req, "consumed")
    BY <1>2 DEF RedeemClaim
  <2>1. /\ rows'[q].status = "consumed"
        /\ rows'[q].expires = rows[q].expires
        /\ r # q => rows'[r] = rows[r]
    BY <1>0, <2>0 DEF IInv, TypeOK, Row, Moved
  <2>2. rows[q].status = "approved"
    BY <1>2 DEF CanMove
  <2>. QED
    BY <2>1, <2>2 DEF Follow, Follows, NotCreated
<1>3. CASE /\ ~(RedeemExpire(c) /\ CanMove(redeem[c].req, {"pending", "approved"}))
           /\ ~(RedeemClaim(c) /\ CanMove(redeem[c].req, {"approved"}))
  <2>1. rows' = rows
    BY <1>3 DEF RedeemStep, RedeemGet, RedeemCheck, RedeemExpire, RedeemReread, RedeemDeny,
                RedeemClaim, RedeemDecide, RedeemRecord, RedeemJournal, RaiseRedeem
  <2>. QED
    BY <2>1, RowsSame
<1>. QED
  BY <1>1, <1>2, <1>3

(* The sweep expires pending requests only.                                *)
LEMMA FollowSweep ==
  ASSUME IInv, Sweep, NEW r \in GateCalls
  PROVE  Follow(r) /\ NotCreated(r)
<1>1. rows'[r] = IF Sweepable(r) THEN [rows[r] EXCEPT !.status = "expired"] ELSE rows[r]
  BY DEF Sweep
<1>2. CASE Sweepable(r)
  <2>1. rows'[r].status = "expired" /\ rows'[r].expires = rows[r].expires
    BY <1>1, <1>2 DEF IInv, TypeOK, Row
  <2>. QED
    BY <1>2, <2>1 DEF Follow, Follows, NotCreated, Sweepable
<1>3. CASE ~Sweepable(r)
  BY <1>1, <1>3 DEF Follow, NotCreated
<1>. QED
  BY <1>2, <1>3

(* Every step moves a row along Follows and keeps its expiry.              *)
LEMMA FollowStep ==
  ASSUME IInv, [Next]_vars, NEW r \in GateCalls
  PROVE  Follow(r)
<1>1. CASE Tick \/ UNCHANGED vars
  BY <1>1, RowsSame DEF Tick, vars
<1>. QED
  BY <1>1, FollowGate, FollowResolve, FollowRedeem, FollowSweep DEF Next

-----------------------------------------------------------------------------
(* The parts of the invariant, one lemma each                              *)

(* A row exists only once its gate call has created it.                    *)
LEMMA RowsCreatedStep ==
  ASSUME IInv, [Next]_vars
  PROVE  RowsCreated'
<1>1. CASE \E c \in GateCalls : GateStep(c)
  <2>1. PICK c \in GateCalls : GateStep(c)
    BY <1>1
  <2>2. \A r \in GateCalls : r # c => rows'[r] = rows[r] /\ gate'[r] = gate[r]
    BY <2>1 DEF GateStep, GateDecide, GateRecord, GateCreate, GateAnnounce, GateNotify,
                RaiseGate, IInv, TypeOK
  <2>3. rows'[c].status # "absent" => gate'[c].pc \in {"announce", "notify", "done", "raised"}
    <3>1. CASE GateDecide(c) \/ GateRecord(c)
      BY <3>1 DEF GateDecide, GateRecord, IInv, RowsCreated
    <3>2. CASE GateCreate(c) \/ GateAnnounce(c) \/ GateNotify(c) \/ RaiseGate(c)
      BY <3>2 DEF GateCreate, GateAnnounce, GateNotify, RaiseGate, IInv, TypeOK, GateCall
    <3>. QED
      BY <2>1, <3>1, <3>2 DEF GateStep
  <2>. QED
    BY <2>2, <2>3 DEF IInv, RowsCreated
<1>2. CASE \E c \in ResolveCalls : ResolveStep(c)
  <2>1. gate' = gate
    BY <1>2 DEF ResolveStep, ResolveGet, ResolveAuthorize, ResolveRefuse, ResolveReread,
                ResolveExpire, ResolveSettle, ResolveJournal, RaiseResolve
  <2>. QED
    BY <1>2, <2>1, FollowResolve DEF NotCreated, IInv, RowsCreated
<1>3. CASE \E c \in RedeemCalls : RedeemStep(c)
  <2>1. gate' = gate
    BY <1>3 DEF RedeemStep, RedeemGet, RedeemCheck, RedeemExpire, RedeemReread, RedeemDeny,
                RedeemClaim, RedeemDecide, RedeemRecord, RedeemJournal, RaiseRedeem
  <2>. QED
    BY <1>3, <2>1, FollowRedeem DEF NotCreated, IInv, RowsCreated
<1>4. CASE Sweep
  BY <1>4, FollowSweep DEF Sweep, NotCreated, IInv, RowsCreated
<1>5. CASE Tick \/ UNCHANGED vars
  BY <1>5 DEF Tick, vars, IInv, RowsCreated
<1>. QED
  BY <1>1, <1>2, <1>3, <1>4, <1>5 DEF Next

(* A resolve call touches no other call and not the clock.                 *)
LEMMA ResolveFrame ==
  ASSUME TypeOK, NEW c \in ResolveCalls, ResolveStep(c)
  PROVE  /\ clock' = clock /\ gate' = gate /\ redeem' = redeem
         /\ \A d \in ResolveCalls : d # c => resolve'[d] = resolve[d]
<1>1. clock' = clock /\ gate' = gate /\ redeem' = redeem
  BY DEF ResolveStep, ResolveGet, ResolveAuthorize, ResolveRefuse, ResolveReread,
         ResolveExpire, ResolveSettle, ResolveJournal, RaiseResolve
<1>2. ASSUME NEW d \in ResolveCalls, d # c
      PROVE  resolve'[d] = resolve[d]
  <2>1. CASE ResolveGet(c)
    BY <1>2, <2>1 DEF ResolveGet, TypeOK
  <2>2. CASE ResolveAuthorize(c)
    BY <1>2, <2>2 DEF ResolveAuthorize, TypeOK
  <2>3. CASE ResolveRefuse(c) \/ ResolveReread(c) \/ ResolveExpire(c) \/ ResolveSettle(c)
             \/ ResolveJournal(c) \/ RaiseResolve(c)
    BY <1>2, <2>3 DEF ResolveRefuse, ResolveReread, ResolveExpire, ResolveSettle,
                      ResolveJournal, RaiseResolve, TypeOK
  <2>. QED
    BY <2>1, <2>2, <2>3 DEF ResolveStep
<1>. QED
  BY <1>1, <1>2

(* Nor does a redeem.                                                      *)
LEMMA RedeemFrame ==
  ASSUME TypeOK, NEW c \in RedeemCalls, RedeemStep(c)
  PROVE  /\ clock' = clock /\ gate' = gate /\ resolve' = resolve
         /\ \A d \in RedeemCalls : d # c => redeem'[d] = redeem[d]
<1>1. clock' = clock /\ gate' = gate /\ resolve' = resolve
  BY DEF RedeemStep, RedeemGet, RedeemCheck, RedeemExpire, RedeemReread, RedeemDeny,
         RedeemClaim, RedeemDecide, RedeemRecord, RedeemJournal, RaiseRedeem
<1>2. ASSUME NEW d \in RedeemCalls, d # c
      PROVE  redeem'[d] = redeem[d]
  <2>1. CASE RedeemGet(c)
    BY <1>2, <2>1 DEF RedeemGet, TypeOK
  <2>2. CASE RedeemDecide(c)
    BY <1>2, <2>2 DEF RedeemDecide, TypeOK
  <2>3. CASE RedeemCheck(c) \/ RedeemExpire(c) \/ RedeemReread(c) \/ RedeemDeny(c)
    BY <1>2, <2>3 DEF RedeemCheck, RedeemExpire, RedeemReread, RedeemDeny, TypeOK
  <2>4. CASE RedeemClaim(c) \/ RedeemRecord(c) \/ RedeemJournal(c) \/ RaiseRedeem(c)
    BY <1>2, <2>4 DEF RedeemClaim, RedeemRecord, RedeemJournal, RaiseRedeem, TypeOK
  <2>. QED
    BY <2>1, <2>2, <2>3, <2>4 DEF RedeemStep
<1>. QED
  BY <1>1, <1>2

(* Nor does a gate call.                                                   *)
LEMMA GateFrame ==
  ASSUME NEW c \in GateCalls, GateStep(c)
  PROVE  clock' = clock /\ resolve' = resolve /\ redeem' = redeem
BY DEF GateStep, GateDecide, GateRecord, GateCreate, GateAnnounce, GateNotify, RaiseGate

(* A resolve call works with an instant that has been, which is what makes *)
(* its late write harmless.                                                *)
LEMMA StampsStep ==
  ASSUME IInv, [Next]_vars
  PROVE  StampsArePast'
<1>1. CASE \E c \in ResolveCalls : ResolveStep(c)
  <2>1. PICK c \in ResolveCalls : ResolveStep(c)
    BY <1>1
  <2>2. resolve'[c].now \in {resolve[c].now, clock}
    <3>1. CASE ResolveGet(c)
      BY <3>1 DEF ResolveGet, IInv, TypeOK, ResolveCall
    <3>2. CASE ResolveAuthorize(c)
      BY <3>2 DEF ResolveAuthorize, IInv, TypeOK, ResolveCall
    <3>3. CASE ResolveRefuse(c) \/ ResolveReread(c) \/ ResolveExpire(c) \/ ResolveJournal(c)
               \/ RaiseResolve(c)
      BY <3>3 DEF ResolveRefuse, ResolveReread, ResolveExpire, ResolveJournal, RaiseResolve,
                  IInv, TypeOK, ResolveCall
    <3>4. CASE ResolveSettle(c)
      BY <3>4 DEF ResolveSettle, IInv, TypeOK, ResolveCall
    <3>. QED
      BY <2>1, <3>1, <3>2, <3>3, <3>4 DEF ResolveStep
  <2>. QED
    BY <2>1, <2>2, ResolveFrame DEF IInv, StampsArePast, TypeOK
<1>2. CASE Tick
  BY <1>2 DEF Tick, IInv, StampsArePast, TypeOK, ResolveCall
<1>3. CASE clock' = clock /\ resolve' = resolve
  BY <1>3 DEF IInv, StampsArePast
<1>. QED
  BY <1>1, <1>2, <1>3, GateFrame, RedeemFrame DEF IInv, Next, Sweep, vars

(* What a call saw stays true of a row that moves along Follows.           *)
LEMMA SeenFrame ==
  ASSUME IInv, NEW d \in RedeemCalls, redeem'[d] = redeem[d], Follow(redeem[d].req)
  PROVE  SeenIsPast(d)'
<1>1. SeenIsPast(d) /\ rows[redeem[d].req].status \in Statuses
  BY DEF IInv, TypeOK, RedeemCall, Row
<1>. QED
  BY <1>1 DEF SeenIsPast, Follow, Follows, Statuses

(* Where a redeem step leaves its own call.                                *)
LEMMA RedeemMoves ==
  ASSUME TypeOK, NEW c \in RedeemCalls, RedeemStep(c)
  PROVE  \/ /\ redeem'[c].pc = "check" /\ rows' = rows
            /\ redeem'[c].req \in GateCalls
            /\ redeem'[c].seen = rows[redeem'[c].req].status
            /\ rows[redeem'[c].req].status # "absent"
         \/ /\ redeem[c].pc = "check" /\ redeem'[c].pc = "expire" /\ rows' = rows
            /\ redeem'[c].req = redeem[c].req
         \/ /\ redeem[c].pc = "check" /\ redeem'[c].pc = "claim" /\ rows' = rows
            /\ redeem'[c].req = redeem[c].req
            /\ redeem[c].seen = "approved" /\ ~Overdue(clock, redeem[c].req)
         \/ /\ redeem[c].pc = "expire" /\ redeem'[c].pc = "reread" /\ rows' = rows
            /\ redeem'[c].req = redeem[c].req
            /\ rows[redeem[c].req].status \notin {"pending", "approved"}
         \/ /\ redeem[c].pc = "reread" /\ redeem'[c].pc = "claim" /\ rows' = rows
            /\ redeem'[c].req = redeem[c].req
            /\ rows[redeem[c].req].status = "approved"
         \/ /\ redeem[c].pc = "claim" /\ redeem'[c].pc = "decide"
            /\ redeem'[c].req = redeem[c].req
            /\ rows[redeem[c].req].status = "approved"
            /\ rows' = Moved(redeem[c].req, "consumed")
         \/ /\ Claimed(c) /\ rows' = rows /\ redeem'[c].req = redeem[c].req
            /\ redeem'[c].pc \in {"record", "journal", "done"}
         \/ /\ redeem'[c].pc = "deny" /\ (rows' = rows \/ rows' = Moved(redeem[c].req, "expired"))
         \/ /\ redeem'[c].pc = "done" /\ redeem'[c].result = "DENY" /\ rows' = rows
         \/ /\ redeem'[c].pc = "raised" /\ rows' = rows
<1> USE DEF TypeOK
<1>0. \A s : AfterMismatch(c, s) \in {"claim", "deny"}
             /\ (AfterMismatch(c, s) = "claim" => s = "approved")
  BY DEF AfterMismatch, Redeemable
<1>1. CASE RedeemGet(c)
  <2>1. PICK r \in GateCalls, i \in Invocations, named \in BOOLEAN :
          redeem' = IF rows[r].status = "absent"
            THEN [redeem EXCEPT ![c].pc = "deny"]
            ELSE [redeem EXCEPT ![c] =
              [@ EXCEPT !.pc = "check", !.req = r, !.inv = i, !.seen = rows[r].status,
                        !.tool = IF named THEN i.tool ELSE gate[r].inv.tool]]
    BY <1>1 DEF RedeemGet
  <2>2. rows' = rows
    BY <1>1 DEF RedeemGet
  <2>3. CASE rows[r].status = "absent"
    BY <2>1, <2>2, <2>3 DEF RedeemCall
  <2>4. CASE rows[r].status # "absent"
    <3>1. /\ redeem'[c].pc = "check" /\ redeem'[c].req = r
          /\ redeem'[c].seen = rows[r].status
      BY <2>1, <2>4 DEF RedeemCall
    <3>. QED
      BY <2>2, <2>4, <3>1
  <2>. QED
    BY <2>3, <2>4
<1>2. CASE RedeemCheck(c)
  <2>1. CASE redeem[c].seen \in {"pending", "approved"} /\ Overdue(clock, redeem[c].req)
    BY <1>2, <2>1 DEF RedeemCheck, RedeemCall
  <2>2. CASE ~(redeem[c].seen \in {"pending", "approved"} /\ Overdue(clock, redeem[c].req))
    <3>1. /\ redeem[c].pc = "check" /\ rows' = rows
          /\ redeem'[c].pc = AfterMismatch(c, redeem[c].seen)
          /\ redeem'[c].req = redeem[c].req
      BY <1>2, <2>2 DEF RedeemCheck, RedeemCall
    <3>. QED
      BY <1>0, <2>2, <3>1
  <2>. QED
    BY <2>1, <2>2
<1>3. CASE RedeemExpire(c)
  <2>1. CASE CanMove(redeem[c].req, {"pending", "approved"})
    <3>1. /\ rows' = Moved(redeem[c].req, "expired")
          /\ redeem' = [redeem EXCEPT ![c] =
               [@ EXCEPT !.seen = "expired", !.pc = AfterMismatch(c, "expired")]]
      BY <1>3, <2>1 DEF RedeemExpire
    <3>2. redeem'[c].pc = "deny"
      BY <1>0, <3>1 DEF RedeemCall
    <3>. QED
      BY <3>1, <3>2
  <2>2. CASE ~CanMove(redeem[c].req, {"pending", "approved"})
    <3>1. /\ redeem[c].pc = "expire" /\ rows' = rows
          /\ redeem' = [redeem EXCEPT ![c].pc = "reread"]
      BY <1>3, <2>2 DEF RedeemExpire
    <3>. QED
      BY <2>2, <3>1 DEF RedeemCall, CanMove
  <2>. QED
    BY <2>1, <2>2
<1>4. CASE RedeemReread(c)
  <2>1. /\ redeem[c].pc = "reread" /\ rows' = rows
        /\ redeem'[c].pc = AfterMismatch(c, rows[redeem[c].req].status)
        /\ redeem'[c].req = redeem[c].req
    BY <1>4 DEF RedeemReread, RedeemCall
  <2>. QED
    BY <1>0, <2>1
<1>5. CASE RedeemDeny(c)
  BY <1>5 DEF RedeemDeny, RedeemCall
<1>6. CASE RedeemClaim(c)
  <2>1. CASE CanMove(redeem[c].req, {"approved"})
    <3>1. /\ redeem[c].pc = "claim" /\ rows' = Moved(redeem[c].req, "consumed")
          /\ redeem' = [redeem EXCEPT ![c].pc = "decide"]
      BY <1>6, <2>1 DEF RedeemClaim
    <3>. QED
      BY <2>1, <3>1 DEF RedeemCall, CanMove
  <2>2. CASE ~CanMove(redeem[c].req, {"approved"})
    <3>1. rows' = rows /\ redeem' = [redeem EXCEPT ![c].pc = "deny"]
      BY <1>6, <2>2 DEF RedeemClaim
    <3>. QED
      BY <3>1 DEF RedeemCall
  <2>. QED
    BY <2>1, <2>2
<1>7. CASE RedeemDecide(c)
  BY <1>7 DEF RedeemDecide, RedeemCall, Claimed
<1>8. CASE RedeemRecord(c)
  BY <1>8 DEF RedeemRecord, RedeemCall, Claimed
<1>9. CASE RedeemJournal(c)
  BY <1>9 DEF RedeemJournal, RedeemCall, Claimed
<1>10. CASE RaiseRedeem(c)
  BY <1>10 DEF RaiseRedeem, RedeemCall
<1>. QED
  BY <1>1, <1>2, <1>3, <1>4, <1>5, <1>6, <1>7, <1>8, <1>9, <1>10 DEF RedeemStep

(* What a redeem has read of the status still bounds what the status can   *)
(* be now.                                                                 *)
LEMMA SeenStep ==
  ASSUME IInv, [Next]_vars, NEW d \in RedeemCalls
  PROVE  SeenIsPast(d)'
<1>0. /\ redeem[d].req \in GateCalls
      /\ \A r \in GateCalls : rows[r].status \in Statuses
  BY DEF IInv, TypeOK, RedeemCall, Row
<1>1. CASE redeem'[d] = redeem[d]
  BY <1>0, <1>1, SeenFrame, FollowStep
<1>2. CASE RedeemStep(d)
  BY <1>0, <1>2, RedeemMoves DEF IInv, SeenIsPast, Claimed, Served, Returned, Statuses
<1>3. \/ \E c \in RedeemCalls : RedeemStep(c)
      \/ redeem' = redeem
  BY GateFrame, ResolveFrame DEF IInv, Next, Sweep, Tick, vars
<1>. QED
  BY <1>1, <1>2, <1>3, RedeemFrame DEF IInv

(* The one step that starts an unconditional expiry: the row was pending   *)
(* and the clock past its expiry.                                          *)
LEMMA RereadStarts ==
  ASSUME IInv, NEW c \in ResolveCalls, ResolveStep(c), resolve'[c].pc = "expire"
  PROVE  /\ resolve'[c].req = resolve[c].req
         /\ rows' = rows
         /\ rows[resolve[c].req].status = "pending"
         /\ Overdue(resolve[c].now, resolve[c].req)
<1> USE DEF IInv, TypeOK, ResolveCall
<1>1. CASE ResolveReread(c)
  BY <1>1 DEF ResolveReread
<1>2. CASE ResolveGet(c)
  BY <1>2 DEF ResolveGet
<1>3. CASE ResolveAuthorize(c)
  BY <1>3 DEF ResolveAuthorize
<1>4. CASE ResolveSettle(c)
  BY <1>4 DEF ResolveSettle
<1>5. CASE ResolveRefuse(c) \/ ResolveExpire(c) \/ ResolveJournal(c) \/ RaiseResolve(c)
  BY <1>5 DEF ResolveRefuse, ResolveExpire, ResolveJournal, RaiseResolve
<1>. QED
  BY <1>1, <1>2, <1>3, <1>4, <1>5 DEF ResolveStep

(* A row that no redeem is about to claim is not consumed by this step.    *)
LEMMA NotClaimed ==
  ASSUME IInv, [Next]_vars, NEW r \in GateCalls,
         rows[r].status \notin {"absent", "consumed"},
         \A d \in RedeemCalls : redeem[d].req = r => redeem[d].pc # "claim"
  PROVE  rows'[r].status \notin {"absent", "consumed"}
<1>0. rows[r].status \in Statuses
  BY DEF IInv, TypeOK, Row
<1>1. CASE \E c \in RedeemCalls : RedeemStep(c)
  <2>1. PICK c \in RedeemCalls : RedeemStep(c)
    BY <1>1
  <2>2. CASE rows' = rows
    BY <2>2
  <2>3. CASE rows' = Moved(redeem[c].req, "expired")
    BY <2>3 DEF Moved, IInv, TypeOK, Row, RedeemCall
  <2>4. CASE rows' = Moved(redeem[c].req, "consumed") /\ redeem[c].pc = "claim"
    BY <2>4 DEF Moved, IInv, TypeOK, Row, RedeemCall
  <2>. QED
    BY <2>1, <2>2, <2>3, <2>4, RedeemMoves DEF IInv
<1>2. CASE \E c \in ResolveCalls : ResolveStep(c)
  <2>1. PICK c \in ResolveCalls : ResolveStep(c)
    BY <1>2
  <2>2. CASE rows' = rows
    BY <2>2
  <2>3. CASE \E s \in {"approved", "rejected", "expired"}, u \in Users \cup {Nobody} :
               rows' = Resolved(resolve[c].req, s, u)
    BY <2>3 DEF Resolved, IInv, TypeOK, Row, ResolveCall
  <2>4. CASE ResolveSettle(c)
    <3>1. /\ resolve[c].verdict \in {"approved", "rejected"}
          /\ resolve[c].by \in Users
      BY DEF IInv, TypeOK, ResolveCall
    <3>2. CASE CanMove(resolve[c].req, {"pending"})
      BY <2>3, <2>4, <3>1, <3>2 DEF ResolveSettle
    <3>3. CASE ~CanMove(resolve[c].req, {"pending"})
      BY <2>2, <2>4, <3>3 DEF ResolveSettle
    <3>. QED
      BY <3>2, <3>3
  <2>5. CASE ResolveExpire(c)
    BY <2>3, <2>5 DEF ResolveExpire
  <2>. QED
    BY <2>1, <2>2, <2>4, <2>5 DEF ResolveStep, ResolveGet, ResolveAuthorize, ResolveRefuse,
                                  ResolveReread, ResolveJournal, RaiseResolve
<1>3. CASE \E c \in GateCalls : GateStep(c)
  <2>1. PICK c \in GateCalls : GateStep(c)
    BY <1>3
  <2>2. CASE rows' = rows
    BY <2>2
  <2>3. CASE GateCreate(c)
    BY <2>3 DEF GateCreate, IInv, TypeOK
  <2>. QED
    BY <2>1, <2>2, <2>3 DEF GateStep, GateDecide, GateRecord, GateAnnounce, GateNotify,
                            RaiseGate
<1>4. CASE Sweep
  BY <1>4 DEF Sweep, IInv, TypeOK, Row
<1>5. CASE Tick \/ UNCHANGED vars
  BY <1>5 DEF Tick, vars
<1>. QED
  BY <1>1, <1>2, <1>3, <1>4, <1>5 DEF Next

(* No redeem starts a claim on a row already past its expiry.              *)
LEMMA NoLateClaim ==
  ASSUME IInv, [Next]_vars, NEW r \in GateCalls, rows[r].expires < clock,
         \A d \in RedeemCalls : redeem[d].req = r => redeem[d].pc # "claim",
         NEW d \in RedeemCalls, redeem'[d].req = r
  PROVE  redeem'[d].pc # "claim"
<1>1. CASE redeem'[d] = redeem[d]
  BY <1>1
<1>2. CASE RedeemStep(d)
  <2>1. SUFFICES ASSUME redeem'[d].pc = "claim" PROVE FALSE
    OBVIOUS
  <2>2. \/ redeem'[d].req = redeem[d].req /\ ~Overdue(clock, redeem[d].req)
        \/ redeem[d].pc = "reread" /\ rows[redeem[d].req].status = "approved"
    BY <1>2, <2>1, RedeemMoves DEF IInv
  <2>3. SeenIsPast(d) /\ rows[r].expires \in Nat /\ clock \in Nat
    BY DEF IInv, TypeOK, Row
  <2>. QED
    BY <2>2, <2>3 DEF SeenIsPast, Overdue
<1>3. \/ \E c \in RedeemCalls : RedeemStep(c)
      \/ redeem' = redeem
  BY GateFrame, ResolveFrame DEF IInv, Next, Sweep, Tick, vars
<1>. QED
  BY <1>1, <1>2, <1>3, RedeemFrame DEF IInv

(* The row a resolve call is about to expire unconditionally is overdue,   *)
(* not consumed, and no redeem is about to claim it (approvals.py,         *)
(* resolve_request).                                                       *)
LEMMA LateWriteStep ==
  ASSUME IInv, [Next]_vars, NEW c \in ResolveCalls
  PROVE  LateWrite(c)'
<1> SUFFICES ASSUME resolve'[c].pc = "expire"
             PROVE  LET r == resolve'[c].req
                    IN  /\ rows'[r].status \notin {"absent", "consumed"}
                        /\ rows'[r].expires < clock'
                        /\ \A d \in RedeemCalls : redeem'[d].req = r => redeem'[d].pc # "claim"
  BY DEF LateWrite
<1>0. /\ resolve[c].req \in GateCalls /\ resolve[c].now \in Nat /\ clock \in Nat
      /\ rows[resolve[c].req].expires \in Nat
  BY DEF IInv, TypeOK, ResolveCall, Row
<1>1. CASE ResolveStep(c)
  <2>1. /\ resolve'[c].req = resolve[c].req
        /\ rows' = rows
        /\ rows[resolve[c].req].status = "pending"
        /\ Overdue(resolve[c].now, resolve[c].req)
    BY <1>1, RereadStarts
  <2>2. clock' = clock /\ redeem' = redeem
    BY <1>1, ResolveFrame DEF IInv
  <2>3. rows[resolve[c].req].expires < clock
    BY <1>0, <2>1 DEF Overdue, IInv, StampsArePast
  <2>4. \A d \in RedeemCalls : redeem[d].req = resolve[c].req => redeem[d].pc # "claim"
    BY <2>1 DEF IInv, SeenIsPast
  <2>. QED
    BY <2>1, <2>2, <2>3, <2>4
<1>2. CASE resolve'[c] = resolve[c]
  <2>1. /\ rows[resolve[c].req].status \notin {"absent", "consumed"}
        /\ rows[resolve[c].req].expires < clock
        /\ \A d \in RedeemCalls : redeem[d].req = resolve[c].req => redeem[d].pc # "claim"
    BY <1>2 DEF IInv, LateWrite
  <2>2. rows'[resolve[c].req].status \notin {"absent", "consumed"}
    BY <1>0, <2>1, NotClaimed
  <2>3. clock' \in {clock, clock + 1}
    BY GateFrame, ResolveFrame, RedeemFrame DEF IInv, Next, Sweep, Tick, vars
  <2>4. rows'[resolve[c].req].expires < clock'
    BY <1>0, <2>1, <2>3, FollowStep DEF Follow
  <2>5. \A d \in RedeemCalls : redeem'[d].req = resolve[c].req => redeem'[d].pc # "claim"
    BY <1>0, <2>1, NoLateClaim
  <2>. QED
    BY <1>2, <2>2, <2>4, <2>5
<1>3. \/ \E b \in ResolveCalls : ResolveStep(b)
      \/ resolve' = resolve
  BY GateFrame, RedeemFrame DEF IInv, Next, Sweep, Tick, vars
<1>. QED
  BY <1>1, <1>2, <1>3, ResolveFrame DEF IInv

(* A claim is won once: the step that wins it finds the row approved, so   *)
(* no other call holds it.                                                 *)
LEMMA ClaimsStep ==
  ASSUME IInv, [Next]_vars
  PROVE  ClaimsHold'
<1>0. \A d \in RedeemCalls : redeem[d].req \in GateCalls
  BY DEF IInv, TypeOK, RedeemCall
<1>1. \A d \in RedeemCalls : Claimed(d) => rows'[redeem[d].req].status = "consumed"
  BY <1>0, FollowStep DEF IInv, ClaimsHold, Follow, Follows
<1>2. CASE redeem' = redeem
  BY <1>1, <1>2 DEF IInv, ClaimsHold, Claimed, Served, Returned
<1>3. ASSUME NEW c \in RedeemCalls, RedeemStep(c)
      PROVE  ClaimsHold'
  <2>1. \A d \in RedeemCalls : d # c => (Claimed(d)' <=> Claimed(d)) /\ redeem'[d] = redeem[d]
    BY <1>3, RedeemFrame DEF IInv, Claimed, Served, Returned
  <2>2. CASE Claimed(c) /\ redeem'[c].req = redeem[c].req
    BY <1>1, <2>1, <2>2 DEF IInv, ClaimsHold
  <2>3. CASE ~Claimed(c)'
    BY <1>1, <2>1, <2>3 DEF IInv, ClaimsHold
  <2>4. CASE /\ redeem[c].pc = "claim" /\ redeem'[c].req = redeem[c].req
             /\ rows[redeem[c].req].status = "approved"
             /\ rows' = Moved(redeem[c].req, "consumed")
    <3>1. rows'[redeem[c].req].status = "consumed"
      BY <1>0, <2>4 DEF Moved, IInv, TypeOK, Row
    <3>2. \A d \in RedeemCalls : redeem[d].req = redeem[c].req => ~Claimed(d)
      BY <2>4 DEF IInv, ClaimsHold
    <3>. QED
      BY <1>1, <2>1, <2>4, <3>1, <3>2 DEF IInv, ClaimsHold
  <2>. QED
    BY <1>3, <2>2, <2>3, <2>4, RedeemMoves DEF IInv, Claimed, Served, Returned
<1>4. \/ \E c \in RedeemCalls : RedeemStep(c)
      \/ redeem' = redeem
  BY GateFrame, ResolveFrame DEF IInv, Next, Sweep, Tick, vars
<1>. QED
  BY <1>2, <1>3, <1>4

(* The empty store satisfies the inductive invariant.                      *)
LEMMA InvInit == Init => IInv
<1> SUFFICES ASSUME Init PROVE IInv
  OBVIOUS
<1>. QED
  BY TypeInit DEF Init, IInv, RowsCreated, StampsArePast, LateWrite, SeenIsPast, ClaimsHold,
                  Claimed, Served, Returned

(* Every step keeps the inductive invariant.                               *)
LEMMA InvStep == IInv /\ [Next]_vars => IInv'
<1> SUFFICES ASSUME IInv, [Next]_vars PROVE IInv'
  OBVIOUS
<1>1. TypeOK'
  BY TypeStep DEF IInv
<1>. QED
  BY <1>1, RowsCreatedStep, StampsStep, LateWriteStep, SeenStep, ClaimsStep DEF IInv

(* The inductive invariant holds in every reachable state, for any number  *)
(* of gate, resolve and redeem calls, any TTL and any failure: in          *)
(* particular a late unconditional expiry never hits a consumed request.   *)
THEOREM Invariant == Spec => []IInv
BY InvInit, InvStep, PTL DEF Spec

(* Single use: however many redeems of one approval race, with crashes,    *)
(* late expiries and sweeps in between, at most one returns ALLOW.         *)
THEOREM ApprovalsAreSingleUse == Spec => []SingleUse
<1>1. IInv => SingleUse
  BY DEF IInv, ClaimsHold, Claimed, SingleUse
<1>. QED
  BY Invariant, <1>1, PTL

(* No step reopens a request: a used approval and an expired one are       *)
(* final, although one of the expiries is not a compare-and-set.           *)
THEOREM RequestsNeverReopen == Spec => NeverReopened
<1>1. IInv /\ [Next]_vars =>
        [\A r \in GateCalls : rows'[r].status # rows[r].status
           => rows'[r].status \in Follows(rows[r].status)]_vars
  BY FollowStep DEF Follow
<1>. QED
  BY Invariant, <1>1, PTL DEF Spec, NeverReopened

-----------------------------------------------------------------------------
(* What the calls have established                                         *)

(* A row that exists goes on existing.                                     *)
LEMMA RowsStay ==
  ASSUME IInv, [Next]_vars, NEW r \in GateCalls, rows[r].status # "absent"
  PROVE  rows'[r].status # "absent"
<1>1. rows[r].status \in Statuses
  BY DEF IInv, TypeOK, Row
<1>. QED
  BY <1>1, FollowStep DEF Follow, Follows, Statuses

(* No event is ever taken back from the journal.                           *)
LEMMA JournalGrows ==
  ASSUME IInv, [Next]_vars
  PROVE  journal \subseteq journal'
<1>1. CASE \E c \in GateCalls : GateStep(c)
  BY <1>1 DEF GateStep, GateDecide, GateRecord, GateCreate, GateAnnounce, GateNotify,
              RaiseGate, Record
<1>2. CASE \E c \in ResolveCalls : ResolveStep(c)
  BY <1>2 DEF ResolveStep, ResolveGet, ResolveAuthorize, ResolveRefuse, ResolveReread,
              ResolveExpire, ResolveSettle, ResolveJournal, RaiseResolve, Record
<1>3. CASE \E c \in RedeemCalls : RedeemStep(c)
  BY <1>3 DEF RedeemStep, RedeemGet, RedeemCheck, RedeemExpire, RedeemReread, RedeemDeny,
              RedeemClaim, RedeemDecide, RedeemRecord, RedeemJournal, RaiseRedeem, Record
<1>4. CASE Sweep \/ Tick \/ UNCHANGED vars
  BY <1>4 DEF Sweep, Tick, vars
<1>. QED
  BY <1>1, <1>2, <1>3, <1>4 DEF Next

(* A gate call touches no other gate call.                                 *)
LEMMA GateOthers ==
  ASSUME TypeOK, NEW c \in GateCalls, GateStep(c), NEW d \in GateCalls, d # c
  PROVE  gate'[d] = gate[d]
<1>1. CASE GateDecide(c)
  BY <1>1 DEF GateDecide, TypeOK
<1>2. CASE ~GateDecide(c)
  BY <1>2 DEF GateStep, GateRecord, GateCreate, GateAnnounce, GateNotify, RaiseGate, TypeOK
<1>. QED
  BY <1>1, <1>2

(* What a request is for never changes once the request exists.            *)
LEMMA RequestKept ==
  ASSUME IInv, [Next]_vars, NEW r \in GateCalls, rows[r].status # "absent"
  PROVE  gate'[r].inv = gate[r].inv
<1>1. gate[r].pc # "idle"
  BY DEF IInv, RowsCreated
<1>2. CASE GateStep(r)
  <2>1. CASE GateRecord(r)
    BY <2>1 DEF GateRecord, IInv, TypeOK, GateCall
  <2>2. CASE GateCreate(r) \/ GateAnnounce(r) \/ GateNotify(r) \/ RaiseGate(r)
    BY <2>2 DEF GateCreate, GateAnnounce, GateNotify, RaiseGate, IInv, TypeOK, GateCall
  <2>. QED
    BY <1>1, <1>2, <2>1, <2>2 DEF GateStep, GateDecide
<1>3. CASE \E c \in GateCalls : c # r /\ GateStep(c)
  BY <1>3, GateOthers DEF IInv
<1>4. CASE gate' = gate
  BY <1>4
<1>. QED
  BY <1>2, <1>3, <1>4, ResolveFrame, RedeemFrame DEF IInv, Next, Sweep, Tick, vars

-----------------------------------------------------------------------------
(* The journal of gate and of redeem                                       *)

(* Whatever a gate call has come to hold, the journal shows, and goes on   *)
(* showing.                                                                *)
LEMMA GateWroteStep ==
  ASSUME IInv, [Next]_vars, NEW c \in GateCalls, GateWrote(c)
  PROVE  GateWrote(c)'
<1>1. CASE GateStep(c)
  <2> USE DEF IInv, TypeOK, GateCall
  <2>1. CASE GateDecide(c)
    <3>1. gate'[c].pc = "record"
      BY <2>1 DEF GateDecide
    <3>. QED
      BY <3>1 DEF GateWrote
  <2>2. CASE GateRecord(c)
    <3>1. /\ gate'[c].result = gate[c].result
          /\ gate'[c].pc = IF gate[c].result = "REQUIRE_APPROVAL" THEN "create" ELSE "done"
          /\ Event("decision", c, gate[c].result) \in journal'
      BY <2>2 DEF GateRecord, Record
    <3>. QED
      BY <3>1 DEF GateWrote, Event
  <2>3. CASE GateCreate(c)
    <3>1. /\ gate'[c].result = gate[c].result /\ gate'[c].pc = "announce"
          /\ gate[c].pc = "create" /\ journal' = journal
          /\ rows'[c].status = "pending"
      BY <2>3 DEF GateCreate
    <3>. QED
      BY <3>1 DEF GateWrote, Event
  <2>4. CASE GateAnnounce(c)
    <3>1. /\ gate'[c].result = gate[c].result /\ gate'[c].pc = "notify"
          /\ gate[c].pc = "announce" /\ rows' = rows
          /\ journal' = journal \cup {Event("approval_requested", c, "PENDING")}
      BY <2>4 DEF GateAnnounce, Record
    <3>. QED
      BY <3>1 DEF GateWrote, Event
  <2>5. CASE GateNotify(c)
    <3>1. /\ gate'[c].result = gate[c].result /\ gate'[c].pc = "done"
          /\ gate[c].pc = "notify" /\ rows' = rows
      BY <2>5 DEF GateNotify
    <3>. QED
      BY <3>1, JournalGrows DEF GateWrote, Event
  <2>6. CASE RaiseGate(c)
    <3>1. gate'[c].pc = "raised"
      BY <2>6 DEF RaiseGate
    <3>. QED
      BY <3>1 DEF GateWrote
  <2>. QED
    BY <1>1, <2>1, <2>2, <2>3, <2>4, <2>5, <2>6 DEF GateStep
<1>2. CASE gate'[c] = gate[c]
  BY <1>2, JournalGrows, RowsStay DEF GateWrote, Event
<1>. QED
  BY <1>1, <1>2, GateOthers, ResolveFrame, RedeemFrame DEF IInv, Next, Sweep, Tick, vars

(* So for redeem: the decision before the consumption, both before the     *)
(* answer.                                                                 *)
LEMMA RedeemWroteStep ==
  ASSUME IInv, [Next]_vars, NEW d \in RedeemCalls, RedeemWrote(d)
  PROVE  RedeemWrote(d)'
<1> USE DEF Served, Returned
<1>1. CASE RedeemStep(d)
  <2> USE DEF IInv, TypeOK, RedeemCall
  <2>1. CASE RedeemDeny(d)
    <3>1. /\ redeem'[d].result = "DENY"
          /\ Event("decision", d, "DENY") \in journal'
      BY <2>1 DEF RedeemDeny, Record
    <3>. QED
      BY <3>1 DEF RedeemWrote, Event
  <2>2. CASE RedeemRecord(d)
    <3>1. /\ redeem'[d].result = redeem[d].result /\ redeem'[d].pc = "journal"
          /\ Event("decision", d, redeem[d].result) \in journal'
      BY <2>2 DEF RedeemRecord, Record
    <3>. QED
      BY <3>1 DEF RedeemWrote, Event
  <2>3. CASE RedeemJournal(d)
    <3>1. /\ redeem'[d].result = redeem[d].result /\ redeem[d].pc = "journal"
          /\ journal' = journal \cup {Event("approval_consumed", d, redeem[d].result)}
      BY <2>3 DEF RedeemJournal, Record
    <3>. QED
      BY <3>1 DEF RedeemWrote, Event
  <2>4. CASE redeem'[d].pc \notin {"journal", "done"}
    BY <2>4 DEF RedeemWrote
  <2>5. \A s : AfterMismatch(d, s) \in {"claim", "deny"}
    BY DEF AfterMismatch
  <2>6. CASE RedeemGet(d)
    BY <2>4, <2>6 DEF RedeemGet
  <2>7. CASE RedeemCheck(d)
    <3>1. redeem'[d].pc \in {"expire", AfterMismatch(d, redeem[d].seen)}
      BY <2>7 DEF RedeemCheck
    <3>. QED
      BY <2>4, <2>5, <3>1
  <2>8. CASE RedeemExpire(d)
    <3>1. redeem'[d].pc \in {"reread", AfterMismatch(d, "expired")}
      BY <2>8 DEF RedeemExpire
    <3>. QED
      BY <2>4, <2>5, <3>1
  <2>9. CASE RedeemReread(d)
    BY <2>4, <2>5, <2>9 DEF RedeemReread
  <2>10. CASE RedeemClaim(d)
    BY <2>4, <2>10 DEF RedeemClaim
  <2>11. CASE RedeemDecide(d)
    BY <2>4, <2>11 DEF RedeemDecide
  <2>12. CASE RaiseRedeem(d)
    BY <2>4, <2>12 DEF RaiseRedeem
  <2>. QED
    BY <1>1, <2>1, <2>2, <2>3, <2>6, <2>7, <2>8, <2>9, <2>10, <2>11, <2>12 DEF RedeemStep
<1>2. CASE redeem'[d] = redeem[d]
  BY <1>2, JournalGrows DEF RedeemWrote, Event
<1>3. \/ \E c \in RedeemCalls : RedeemStep(c)
      \/ redeem' = redeem
  BY GateFrame, ResolveFrame DEF IInv, Next, Sweep, Tick, vars
<1>. QED
  BY <1>1, <1>2, <1>3, RedeemFrame DEF IInv

-----------------------------------------------------------------------------
(* The call a redeem lets through                                          *)

(* A redeem goes on to its claim only from the mismatch test.              *)
LEMMA MismatchPasses ==
  ASSUME NEW c \in RedeemCalls, NEW s, AfterMismatch(c, s) = "claim"
  PROVE  /\ s = "approved"
         /\ Binding(gate[redeem[c].req].inv)
              = Binding([redeem[c].inv EXCEPT !.tool = redeem[c].tool])
BY DEF AfterMismatch, Redeemable

(* The binding survives the awaits between the mismatch test and the       *)
(* answer, and the second decision is what the answer rests on.            *)
LEMMA CheckedStep ==
  ASSUME IInv, [Next]_vars, NEW d \in RedeemCalls, Checked(d)
  PROVE  Checked(d)'
<1> DEFINE Bound == Binding(gate[redeem[d].req].inv)
                      = Binding([redeem[d].inv EXCEPT !.tool = redeem[d].tool])
           Presented == /\ redeem'[d].req = redeem[d].req
                        /\ redeem'[d].inv = redeem[d].inv
                        /\ redeem'[d].tool = redeem[d].tool
<1>1. CASE RedeemStep(d)
  <2> USE DEF IInv, TypeOK, RedeemCall
  <2>0. gate' = gate
    BY <1>1, RedeemFrame
  <2>1. CASE RedeemGet(d)
    <3>1. redeem'[d].pc \in {"check", "deny"}
      BY <2>1 DEF RedeemGet
    <3>. QED
      BY <3>1 DEF Checked, Claimed, Served, Returned
  <2>2. CASE RedeemCheck(d)
    <3>1. /\ Presented
          /\ redeem'[d].pc \in {"expire", AfterMismatch(d, redeem[d].seen)}
      BY <2>2 DEF RedeemCheck
    <3>2. redeem'[d].pc \in {"expire", "claim", "deny"} /\ (redeem'[d].pc = "claim" => Bound)
      BY <3>1, MismatchPasses DEF AfterMismatch
    <3>. QED
      BY <2>0, <3>1, <3>2 DEF Checked, Claimed, Served, Returned
  <2>3. CASE RedeemExpire(d)
    <3>1. redeem'[d].pc \in {"reread", AfterMismatch(d, "expired")}
      BY <2>3 DEF RedeemExpire
    <3>2. redeem'[d].pc \in {"reread", "deny"}
      BY <3>1 DEF AfterMismatch, Redeemable
    <3>. QED
      BY <3>2 DEF Checked, Claimed, Served, Returned
  <2>4. CASE RedeemReread(d)
    <3>1. /\ Presented
          /\ redeem'[d].pc = AfterMismatch(d, rows[redeem[d].req].status)
      BY <2>4 DEF RedeemReread
    <3>2. redeem'[d].pc \in {"claim", "deny"} /\ (redeem'[d].pc = "claim" => Bound)
      BY <3>1, MismatchPasses DEF AfterMismatch
    <3>. QED
      BY <2>0, <3>1, <3>2 DEF Checked, Claimed, Served, Returned
  <2>5. CASE RedeemDeny(d)
    <3>1. redeem'[d].pc = "done" /\ redeem'[d].result = "DENY"
      BY <2>5 DEF RedeemDeny
    <3>. QED
      BY <3>1 DEF Checked, Claimed, Served, Returned
  <2>6. CASE RedeemClaim(d)
    <3>1. Presented /\ redeem'[d].pc \in {"decide", "deny"} /\ redeem[d].pc = "claim"
      BY <2>6 DEF RedeemClaim
    <3>. QED
      BY <2>0, <3>1 DEF Checked, Claimed, Served, Returned
  <2>7. CASE RedeemDecide(d)
    <3>1. PICK a \in AskedAbout(redeem[d].inv, redeem[d].tool) :
            redeem' = [redeem EXCEPT ![d] = [@ EXCEPT !.pc = "record", !.answer = a,
              !.result = Decision(redeem[d].inv, redeem[d].tool, a, TRUE)]]
      BY <2>7 DEF RedeemDecide
    <3>2. /\ Presented /\ redeem'[d].pc = "record" /\ redeem[d].pc = "decide"
          /\ redeem'[d].answer = a
          /\ redeem'[d].result = Decision(redeem[d].inv, redeem[d].tool, a, TRUE)
      BY <2>7, <3>1, ZenonT(40) DEF RedeemDecide
    <3>3. redeem'[d].result = "ALLOW" =>
            redeem[d].tool \in redeem[d].inv.chain.scope /\ a = "related"
      BY <3>2 DEF Decision, Evaluate
    <3>4. Bound
      BY <3>2 DEF Checked, Claimed
    <3>. QED
      BY <2>0, <3>2, <3>3, <3>4 DEF Checked
  <2>8. CASE RedeemRecord(d) \/ RedeemJournal(d)
    <3>1. /\ Presented /\ redeem'[d].pc \in {"journal", "done"}
          /\ redeem[d].pc \in {"record", "journal"}
          /\ redeem'[d].result = redeem[d].result /\ redeem'[d].answer = redeem[d].answer
      BY <2>8 DEF RedeemRecord, RedeemJournal
    <3>. QED
      BY <2>0, <3>1 DEF Checked, Claimed, Served, Returned
  <2>9. CASE RaiseRedeem(d)
    <3>1. redeem'[d].pc = "raised"
      BY <2>9 DEF RaiseRedeem
    <3>. QED
      BY <3>1 DEF Checked, Claimed, Served, Returned
  <2>. QED
    BY <1>1, <2>1, <2>2, <2>3, <2>4, <2>5, <2>6, <2>7, <2>8, <2>9 DEF RedeemStep
<1>2. CASE redeem'[d] = redeem[d]
  <2>1. redeem[d].pc = "claim" \/ Claimed(d) => rows[redeem[d].req].status # "absent"
    BY DEF IInv, ClaimsHold, SeenIsPast
  <2>2. redeem[d].req \in GateCalls
    BY DEF IInv, TypeOK, RedeemCall
  <2>3. redeem[d].pc = "claim" \/ Claimed(d) =>
          gate'[redeem[d].req].inv = gate[redeem[d].req].inv
    BY <2>1, <2>2, RequestKept
  <2>. QED
    BY <1>2, <2>3 DEF Checked, Claimed, Served, Returned
<1>3. \/ \E c \in RedeemCalls : RedeemStep(c)
      \/ redeem' = redeem
  BY GateFrame, ResolveFrame DEF IInv, Next, Sweep, Tick, vars
<1>. QED
  BY <1>1, <1>2, <1>3, RedeemFrame DEF IInv

-----------------------------------------------------------------------------
(* The humans who resolve                                                  *)

(* Where a resolve step leaves its own call.                               *)
LEMMA ResolveMoves ==
  ASSUME TypeOK, NEW c \in ResolveCalls, ResolveStep(c)
  PROVE  \/ /\ resolve'[c].pc = "authorize" /\ rows' = rows
            /\ resolve'[c].req \in GateCalls
            /\ rows[resolve'[c].req].status # "absent"
         \/ resolve'[c].pc = "raised" /\ ~Settled(c)
         \/ /\ resolve[c].pc \notin {"idle", "raised", "journal", "done"} /\ rows' = rows
            /\ resolve'[c].pc = "refuse" /\ resolve'[c].req = resolve[c].req
         \/ /\ resolve[c].pc = "authorize" /\ resolve'[c].pc = "reread" /\ rows' = rows
            /\ resolve'[c].req = resolve[c].req
            /\ Authorized(resolve[c].req, resolve'[c].by, resolve'[c].answer)
         \/ /\ resolve[c].pc = "reread" /\ resolve'[c].pc \in {"expire", "settle"}
            /\ rows' = rows
            /\ resolve'[c] = [resolve[c] EXCEPT !.pc = resolve'[c].pc]
         \/ /\ resolve[c].pc = "settle" /\ resolve'[c].pc = "journal"
            /\ resolve'[c] = [resolve[c] EXCEPT !.pc = "journal"]
            /\ rows[resolve[c].req].status = "pending"
            /\ rows' = Resolved(resolve[c].req, resolve[c].verdict, resolve[c].by)
         \/ /\ resolve[c].pc = "journal" /\ resolve'[c].pc \in {"done", "raised"}
            /\ rows' = rows
            /\ resolve'[c] = [resolve[c] EXCEPT !.pc = resolve'[c].pc]
<1> USE DEF TypeOK, ResolveCall
<1>1. CASE ResolveGet(c)
  <2>1. PICK r \in GateCalls, u \in Users, v \in {"approved", "rejected"} :
          resolve' = IF rows[r].status = "absent"
            THEN [resolve EXCEPT ![c].pc = "raised"]
            ELSE [resolve EXCEPT ![c] =
              [@ EXCEPT !.pc = "authorize", !.req = r, !.by = u, !.verdict = v,
                        !.now = clock]]
    BY <1>1 DEF ResolveGet
  <2>2. resolve[c].pc = "idle" /\ rows' = rows
    BY <1>1 DEF ResolveGet
  <2>3. CASE rows[r].status = "absent"
    BY <2>1, <2>2, <2>3 DEF Settled
  <2>4. CASE rows[r].status # "absent"
    <3>1. resolve'[c].pc = "authorize" /\ resolve'[c].req = r
      BY <2>1, <2>4
    <3>. QED
      BY <2>2, <2>4, <3>1
  <2>. QED
    BY <2>3, <2>4
<1>2. CASE ResolveAuthorize(c)
  <2>1. PICK a \in Answers \cup {"unasked"} :
          resolve' = [resolve EXCEPT ![c] =
            [@ EXCEPT !.pc = IF Authorized(resolve[c].req, resolve[c].by, a)
                             THEN "reread" ELSE "refuse",
                      !.answer = a]]
    BY <1>2 DEF ResolveAuthorize
  <2>2. resolve[c].pc = "authorize" /\ rows' = rows
    BY <1>2 DEF ResolveAuthorize
  <2>3. /\ resolve'[c].req = resolve[c].req /\ resolve'[c].by = resolve[c].by
        /\ resolve'[c].answer = a
        /\ resolve'[c].pc = IF Authorized(resolve[c].req, resolve[c].by, a)
                            THEN "reread" ELSE "refuse"
    BY <2>1
  <2>. QED
    BY <2>2, <2>3
<1>3. CASE ResolveRefuse(c) \/ ResolveExpire(c)
  BY <1>3 DEF ResolveRefuse, ResolveExpire, Settled
<1>4. CASE ResolveReread(c)
  <2>1. PICK p \in {"expire", "raised", "settle"} : resolve' = [resolve EXCEPT ![c].pc = p]
    BY <1>4 DEF ResolveReread
  <2>2. resolve[c].pc = "reread" /\ rows' = rows
    BY <1>4 DEF ResolveReread
  <2>. QED
    BY <2>1, <2>2 DEF Settled
<1>5. CASE ResolveSettle(c)
  <2>1. CASE CanMove(resolve[c].req, {"pending"})
    BY <1>5, <2>1 DEF ResolveSettle, CanMove
  <2>2. CASE ~CanMove(resolve[c].req, {"pending"})
    BY <1>5, <2>2 DEF ResolveSettle, Settled
  <2>. QED
    BY <2>1, <2>2
<1>6. CASE ResolveJournal(c)
  BY <1>6 DEF ResolveJournal
<1>7. CASE RaiseResolve(c)
  BY <1>7 DEF RaiseResolve, Settled, InFlight, ResolvePcs
<1>. QED
  BY <1>1, <1>2, <1>3, <1>4, <1>5, <1>6, <1>7 DEF ResolveStep

(* The authority a resolve call was given outlives the steps of the        *)
(* others: the request it is for does not change, and stays moved.         *)
LEMMA VettedStep ==
  ASSUME IInv, [Next]_vars, NEW c \in ResolveCalls, Vetted(c)
  PROVE  Vetted(c)'
<1>0. /\ resolve[c].req \in GateCalls
      /\ resolve[c].verdict \in {"approved", "rejected"}
      /\ \A r \in GateCalls : rows[r].status \in Statuses
  BY DEF IInv, TypeOK, ResolveCall, Row
<1>1. CASE ResolveStep(c)
  <2> USE DEF Settled, Authorized, Subject
  <2>0. gate' = gate /\ resolve[c] \in ResolveCall
    BY <1>1, ResolveFrame DEF IInv, TypeOK
  <2>1. CASE resolve'[c].pc = "raised"
    BY <2>1 DEF Vetted
  <2>2. CASE /\ resolve'[c].pc = "authorize" /\ rows' = rows
             /\ rows[resolve'[c].req].status # "absent"
    BY <2>2 DEF Vetted
  <2>3. CASE /\ resolve[c].pc \notin {"idle", "raised", "journal", "done"} /\ rows' = rows
             /\ resolve'[c].pc = "refuse" /\ resolve'[c].req = resolve[c].req
    BY <2>3 DEF Vetted
  <2>4. CASE /\ resolve[c].pc = "authorize" /\ resolve'[c].pc = "reread" /\ rows' = rows
             /\ resolve'[c].req = resolve[c].req
             /\ Authorized(resolve[c].req, resolve'[c].by, resolve'[c].answer)
    BY <2>0, <2>4 DEF Vetted
  <2>5. CASE /\ resolve[c].pc = "reread" /\ resolve'[c].pc \in {"expire", "settle"}
             /\ rows' = rows
             /\ resolve'[c] = [resolve[c] EXCEPT !.pc = resolve'[c].pc]
    <3>1. /\ resolve'[c].req = resolve[c].req /\ resolve'[c].by = resolve[c].by
          /\ resolve'[c].answer = resolve[c].answer
      BY <2>0, <2>5 DEF ResolveCall
    <3>. QED
      BY <2>0, <2>5, <3>1 DEF Vetted
  <2>6. CASE /\ resolve[c].pc = "settle" /\ resolve'[c].pc = "journal"
             /\ resolve'[c] = [resolve[c] EXCEPT !.pc = "journal"]
             /\ rows' = Resolved(resolve[c].req, resolve[c].verdict, resolve[c].by)
    <3>1. /\ resolve'[c].req = resolve[c].req /\ resolve'[c].by = resolve[c].by
          /\ resolve'[c].answer = resolve[c].answer
      BY <2>0, <2>6 DEF ResolveCall
    <3>2. rows'[resolve[c].req].status \in {"approved", "rejected"}
      BY <1>0, <2>6 DEF Resolved, IInv, TypeOK, Row
    <3>. QED
      BY <2>0, <2>6, <3>1, <3>2 DEF Vetted
  <2>7. CASE /\ resolve[c].pc = "journal" /\ resolve'[c].pc \in {"done", "raised"}
             /\ rows' = rows
             /\ resolve'[c] = [resolve[c] EXCEPT !.pc = resolve'[c].pc]
    <3>1. /\ resolve'[c].req = resolve[c].req /\ resolve'[c].by = resolve[c].by
          /\ resolve'[c].answer = resolve[c].answer
      BY <2>0, <2>7 DEF ResolveCall
    <3>. QED
      BY <2>0, <2>7, <3>1 DEF Vetted
  <2>. QED
    BY <1>1, <2>1, <2>2, <2>3, <2>4, <2>5, <2>6, <2>7, ResolveMoves DEF IInv
<1>2. CASE resolve'[c] = resolve[c]
  <2>1. rows[resolve[c].req].status # "absent" =>
          /\ rows'[resolve[c].req].status # "absent"
          /\ rows[resolve[c].req].status # "pending" => rows'[resolve[c].req].status # "pending"
          /\ gate'[resolve[c].req].inv = gate[resolve[c].req].inv
    <3>1. Follow(resolve[c].req)
      BY <1>0, FollowStep
    <3>. QED
      BY <1>0, <3>1, RowsStay, RequestKept DEF Follow, Follows, Statuses
  <2>2. CASE resolve[c].pc \in {"idle", "raised"}
    BY <1>2, <2>2 DEF Vetted, Settled
  <2>3. CASE resolve[c].pc \notin {"idle", "raised"}
    BY <1>2, <2>1, <2>3 DEF Vetted, Settled, Authorized, Subject
  <2>. QED
    BY <2>2, <2>3
<1>3. \/ \E b \in ResolveCalls : ResolveStep(b)
      \/ resolve' = resolve
  BY GateFrame, RedeemFrame DEF IInv, Next, Sweep, Tick, vars
<1>. QED
  BY <1>1, <1>2, <1>3, ResolveFrame DEF IInv

(* The step that settles finds the row pending, and whoever has settled    *)
(* has moved it.                                                           *)
LEMMA OneResolutionStep ==
  ASSUME IInv, [Next]_vars, \A c \in ResolveCalls : Vetted(c), OneResolution
  PROVE  OneResolution'
<1>1. CASE resolve' = resolve
  BY <1>1 DEF OneResolution, Settled
<1>2. ASSUME NEW c \in ResolveCalls, ResolveStep(c)
      PROVE  OneResolution'
  <2>0. resolve[c] \in ResolveCall
    BY DEF IInv, TypeOK
  <2>1. \A d \in ResolveCalls : d # c => resolve'[d] = resolve[d]
    BY <1>2, ResolveFrame DEF IInv
  <2>2. Settled(c)' => /\ resolve'[c].req = resolve[c].req
                       /\ Settled(c) \/ rows[resolve[c].req].status = "pending"
    BY <1>2, <2>0, ResolveMoves DEF IInv, Settled, ResolveCall
  <2>. QED
    BY <2>1, <2>2 DEF OneResolution, Settled, Vetted
<1>3. \/ \E b \in ResolveCalls : ResolveStep(b)
      \/ resolve' = resolve
  BY GateFrame, RedeemFrame DEF IInv, Next, Sweep, Tick, vars
<1>. QED
  BY <1>1, <1>2, <1>3

(* A row that is approved or consumed after a step either was so before,   *)
(* resolved by the same human, or is what a resolve call settled now.      *)
LEMMA ApprovedFrom ==
  ASSUME IInv, [Next]_vars, NEW r \in GateCalls,
         rows'[r].status \in {"approved", "consumed"}
  PROVE  \/ /\ rows[r].status \in {"approved", "consumed"}
            /\ rows'[r].resolvedBy = rows[r].resolvedBy
         \/ \E c \in ResolveCalls :
              /\ ResolveStep(c)
              /\ resolve[c].pc = "settle" /\ resolve[c].req = r
              /\ resolve[c].verdict = "approved"
              /\ resolve'[c] = [resolve[c] EXCEPT !.pc = "journal"]
              /\ rows'[r].resolvedBy = resolve[c].by
<1> USE DEF IInv, TypeOK, Row
<1>1. CASE rows'[r] = rows[r]
  BY <1>1
<1>2. CASE \E c \in GateCalls : GateStep(c)
  <2>1. rows' = rows \/ \E c \in GateCalls : GateCreate(c)
    BY <1>2 DEF GateStep, GateDecide, GateRecord, GateAnnounce, GateNotify, RaiseGate
  <2>2. ASSUME NEW c \in GateCalls, GateCreate(c)
        PROVE  rows'[r] = rows[r]
    BY <2>2 DEF GateCreate
  <2>. QED
    BY <1>1, <2>1, <2>2
<1>3. ASSUME NEW c \in ResolveCalls, ResolveStep(c)
      PROVE  \/ rows'[r] = rows[r]
             \/ /\ resolve[c].pc = "settle" /\ resolve[c].req = r
                /\ resolve[c].verdict = "approved"
                /\ resolve'[c] = [resolve[c] EXCEPT !.pc = "journal"]
                /\ rows'[r].resolvedBy = resolve[c].by
  <2>0. resolve[c].req \in GateCalls /\ resolve[c].verdict \in {"approved", "rejected"}
    BY DEF ResolveCall
  <2>1. CASE ResolveExpire(c)
    BY <2>0, <2>1 DEF ResolveExpire, Resolved
  <2>2. CASE ResolveSettle(c)
    <3>1. CASE CanMove(resolve[c].req, {"pending"})
      <4>1. /\ rows' = Resolved(resolve[c].req, resolve[c].verdict, resolve[c].by)
            /\ resolve'[c] = [resolve[c] EXCEPT !.pc = "journal"]
            /\ resolve[c].pc = "settle"
        BY <2>2, <3>1 DEF ResolveSettle
      <4>2. CASE resolve[c].req = r
        BY <2>0, <4>1, <4>2 DEF Resolved
      <4>3. CASE resolve[c].req # r
        BY <2>0, <4>1, <4>3 DEF Resolved
      <4>. QED
        BY <4>2, <4>3
    <3>2. CASE ~CanMove(resolve[c].req, {"pending"})
      BY <2>2, <3>2 DEF ResolveSettle
    <3>. QED
      BY <3>1, <3>2
  <2>. QED
    BY <1>3, <2>1, <2>2 DEF ResolveStep, ResolveGet, ResolveAuthorize, ResolveRefuse,
                            ResolveReread, ResolveJournal, RaiseResolve
<1>4. ASSUME NEW c \in RedeemCalls, RedeemStep(c)
      PROVE  /\ rows[r].status \in {"approved", "consumed"}
             /\ rows'[r].resolvedBy = rows[r].resolvedBy
  <2>0. redeem[c].req \in GateCalls
    BY DEF RedeemCall
  <2>1. CASE rows' = rows
    BY <2>1
  <2>2. CASE rows' = Moved(redeem[c].req, "expired")
    BY <2>0, <2>2 DEF Moved
  <2>3. CASE /\ rows' = Moved(redeem[c].req, "consumed")
             /\ rows[redeem[c].req].status = "approved"
    BY <2>0, <2>3 DEF Moved
  <2>. QED
    BY <1>4, <2>1, <2>2, <2>3, RedeemMoves
<1>5. CASE Sweep
  BY <1>5 DEF Sweep
<1>6. CASE Tick \/ UNCHANGED vars
  BY <1>1, <1>6 DEF Tick, vars
<1>. QED
  BY <1>1, <1>2, <1>3, <1>4, <1>5, <1>6 DEF Next

(* The call an approval comes from is kept: it makes no step that would    *)
(* change what it stands for.                                              *)
LEMMA ApproverKept ==
  ASSUME IInv, [Next]_vars, NEW r \in GateCalls, NEW c \in ResolveCalls, Approves(c, r),
         rows[r].status # "absent", rows'[r].resolvedBy = rows[r].resolvedBy
  PROVE  Approves(c, r)'
<1>0. resolve[c] \in ResolveCall
  BY DEF IInv, TypeOK
<1>1. gate'[r].inv = gate[r].inv
  BY RequestKept
<1>2. CASE resolve'[c] = resolve[c]
  BY <1>1, <1>2 DEF Approves, Authorized, Subject
<1>3. CASE ResolveStep(c)
  <2>1. ResolveJournal(c) \/ RaiseResolve(c)
    BY <1>3 DEF Approves, ResolveStep, ResolveGet, ResolveAuthorize, ResolveRefuse,
                ResolveReread, ResolveExpire, ResolveSettle
  <2>2. /\ resolve'[c].pc \in {"done", "raised"}
        /\ resolve'[c].req = resolve[c].req /\ resolve'[c].by = resolve[c].by
        /\ resolve'[c].verdict = resolve[c].verdict
        /\ resolve'[c].answer = resolve[c].answer
    BY <1>0, <2>1 DEF ResolveJournal, RaiseResolve, ResolveCall, IInv, TypeOK
  <2>. QED
    BY <1>1, <2>2 DEF Approves, Authorized, Subject
<1>4. \/ \E b \in ResolveCalls : ResolveStep(b)
      \/ resolve' = resolve
  BY GateFrame, RedeemFrame DEF IInv, Next, Sweep, Tick, vars
<1>. QED
  BY <1>2, <1>3, <1>4, ResolveFrame DEF IInv

(* Every approval has a human with the authority behind it.                *)
LEMMA RowsApprovedStep ==
  ASSUME IInv, [Next]_vars, \A c \in ResolveCalls : Vetted(c), RowsApproved
  PROVE  RowsApproved'
<1> SUFFICES ASSUME NEW r \in GateCalls, rows'[r].status \in {"approved", "consumed"}
             PROVE  \E c \in ResolveCalls : Approves(c, r)'
  BY DEF RowsApproved
<1>1. CASE /\ rows[r].status \in {"approved", "consumed"}
           /\ rows'[r].resolvedBy = rows[r].resolvedBy
  <2>1. PICK c \in ResolveCalls : Approves(c, r)
    BY <1>1 DEF RowsApproved
  <2>. QED
    BY <1>1, <2>1, ApproverKept
<1>2. ASSUME NEW c \in ResolveCalls, ResolveStep(c),
             resolve[c].pc = "settle", resolve[c].req = r,
             resolve[c].verdict = "approved",
             resolve'[c] = [resolve[c] EXCEPT !.pc = "journal"],
             rows'[r].resolvedBy = resolve[c].by
      PROVE  Approves(c, r)'
  <2>1. /\ resolve'[c].pc = "journal" /\ resolve'[c].req = r
        /\ resolve'[c].by = resolve[c].by /\ resolve'[c].verdict = "approved"
        /\ resolve'[c].answer = resolve[c].answer
    BY <1>2 DEF IInv, TypeOK, ResolveCall
  <2>2. Authorized(r, resolve[c].by, resolve[c].answer)
    BY <1>2 DEF Vetted
  <2>3. gate' = gate
    BY <1>2, ResolveFrame DEF IInv
  <2>. QED
    BY <1>2, <2>1, <2>2, <2>3 DEF Approves, Authorized, Subject
<1>. QED
  BY <1>1, <1>2, ApprovedFrom

-----------------------------------------------------------------------------
(* The four invariants of the calls                                        *)

(* With no call in flight nothing has been established.                    *)
LEMMA CallsInit == Init => CallsInv
<1> SUFFICES ASSUME Init PROVE CallsInv
  OBVIOUS
<1>1. /\ \A c \in ResolveCalls : resolve[c].pc = "idle"
      /\ \A c \in GateCalls : gate[c].pc = "idle" /\ rows[c].status = "absent"
      /\ \A d \in RedeemCalls : redeem[d].pc = "idle"
  BY DEF Init
<1>. QED
  BY <1>1, InvInit DEF CallsInv, Vetted, OneResolution, RowsApproved, Settled, Checked,
                       RedeemWrote, GateWrote, Claimed, Served, Returned

(* Every step keeps what the calls have established.                       *)
LEMMA CallsStep == CallsInv /\ [Next]_vars => CallsInv'
<1> SUFFICES ASSUME CallsInv, [Next]_vars PROVE CallsInv'
  OBVIOUS
<1>1. IInv'
  BY InvStep DEF CallsInv
<1>2. OneResolution' /\ RowsApproved'
  BY OneResolutionStep, RowsApprovedStep DEF CallsInv
<1>3. \A c \in ResolveCalls : Vetted(c)'
  BY VettedStep DEF CallsInv
<1>4. \A d \in RedeemCalls : Checked(d)' /\ RedeemWrote(d)'
  BY CheckedStep, RedeemWroteStep DEF CallsInv
<1>5. \A c \in GateCalls : GateWrote(c)'
  BY GateWroteStep DEF CallsInv
<1>. QED
  BY <1>1, <1>2, <1>3, <1>4, <1>5 DEF CallsInv

(* What the calls have established holds in every reachable state.         *)
THEOREM CallsInvariant == Spec => []CallsInv
BY CallsInit, CallsStep, PTL DEF Spec

(* Two humans who resolve one request at once never both succeed, for any  *)
(* number of them: the compare-and-set on PENDING decides (approvals.py,   *)
(* resolve_request).                                                       *)
THEOREM ResolutionIsUnique == Spec => []OneResolution
<1>1. CallsInv => OneResolution
  BY DEF CallsInv
<1>. QED
  BY CallsInvariant, <1>1, PTL

(* Whoever approved had the authority, also when the request was used or   *)
(* the resolving process died since (approvals.py, authorize_approver).    *)
THEOREM ApprovalsHaveAuthority == Spec => []ApprovalHasAuthority
<1>1. CallsInv => ApprovalHasAuthority
  BY DEF CallsInv, RowsApproved, Approves, ApprovalHasAuthority, Authorized, Subject
<1>. QED
  BY CallsInvariant, <1>1, PTL

(* An ALLOW of redeem is for the very call and chain that were approved,   *)
(* whatever happened between the mismatch test and the answer (gate.py,    *)
(* _mismatch).                                                             *)
THEOREM AllowsAreBound == Spec => []AllowIsBound
<1>1. CallsInv => AllowIsBound
  BY DEF CallsInv, Checked, IInv, ClaimsHold, Claimed, Served, Returned, AllowIsBound
<1>. QED
  BY CallsInvariant, <1>1, PTL

(* No caller holds an answer the journal does not show, wherever calls     *)
(* fail or die (decider.py, gate.py).                                      *)
THEOREM AnswersJournaled == Spec => []AnswersAreJournaled
<1>1. CallsInv => AnswersAreJournaled
  BY DEF CallsInv, RedeemWrote, GateWrote, AnswersAreJournaled, Served, Returned
<1>. QED
  BY CallsInvariant, <1>1, PTL

-----------------------------------------------------------------------------
(* The gate implements ApprovalContract                                    *)

LifeOf   == [r \in GateCalls |-> Life(rows[r].status)]
ServedBy == [r \in GateCalls |-> {c \in RedeemCalls : Served(c) /\ redeem[c].req = r}]

(* The empty store is an empty contract.                                   *)
LEMMA ContractInit == Init => Contract!Init
<1> SUFFICES ASSUME Init PROVE Contract!Init
  OBVIOUS
<1>1. [r \in GateCalls |-> Life(rows[r].status)] = [r \in GateCalls |-> "none"]
  BY DEF Init, Life
<1>2. [r \in GateCalls |-> {c \in RedeemCalls : Served(c) /\ redeem[c].req = r}]
        = [r \in GateCalls |-> {}]
  BY DEF Init, Served, Returned
<1>. QED
  BY <1>1, <1>2 DEF Contract!Init

(* A step that moves one row and lets nobody through is one of the         *)
(* contract's moves of a request, or leaves its life as it was: a late     *)
(* expiry of a rejected row does.                                          *)
LEMMA MoveRefines ==
  ASSUME IInv, NEW r \in GateCalls, Follow(r), ServedBy' = ServedBy,
         \A q \in GateCalls : q # r => rows'[q].status = rows[q].status
  PROVE  [Contract!Next]_<<LifeOf, ServedBy>>
<1>0. rows[r].status \in Statuses
  BY DEF IInv, TypeOK, Row
<1>1. LifeOf' = [LifeOf EXCEPT ![r] = Life(rows'[r].status)]
  BY DEF LifeOf
<1>2. LifeOf[r] = Life(rows[r].status)
  BY DEF LifeOf
<1>3. CASE rows'[r].status = rows[r].status
  <2>1. LifeOf' = LifeOf
    BY <1>1, <1>2, <1>3 DEF LifeOf
  <2>. QED
    BY <2>1
<1>4. CASE rows[r].status = "absent" /\ rows'[r].status = "pending"
  <2>1. Contract!Ask(r)
    BY <1>1, <1>2, <1>4 DEF Contract!Ask, Life, LifeOf, ServedBy
  <2>. QED
    BY <2>1 DEF Contract!Next
<1>5. CASE rows[r].status = "pending" /\ rows'[r].status = "approved"
  <2>1. Contract!Approve(r)
    BY <1>1, <1>2, <1>5 DEF Contract!Approve, Life, LifeOf, ServedBy
  <2>. QED
    BY <2>1 DEF Contract!Next
<1>6. CASE rows[r].status = "approved" /\ rows'[r].status = "consumed"
  <2>1. Contract!Use(r)
    BY <1>1, <1>2, <1>6 DEF Contract!Use, Life, LifeOf, ServedBy
  <2>. QED
    BY <2>1 DEF Contract!Next
<1>7. CASE /\ rows[r].status \in {"pending", "approved"}
           /\ rows'[r].status \in {"rejected", "expired"}
  <2>1. LifeOf' = [q \in GateCalls |-> IF q \in {r} THEN "closed" ELSE LifeOf[q]]
    BY <1>1, <1>7 DEF Life, LifeOf
  <2>2. LifeOf[r] \in {"asked", "granted"}
    BY <1>2, <1>7 DEF Life
  <2>3. Contract!Close({r})
    BY <2>1, <2>2 DEF Contract!Close, LifeOf, ServedBy
  <2>. QED
    BY <2>3 DEF Contract!Next
<1>8. CASE rows[r].status = "rejected" /\ rows'[r].status = "expired"
  <2>1. LifeOf' = LifeOf
    BY <1>1, <1>2, <1>8 DEF LifeOf, Life
  <2>. QED
    BY <2>1
<1>. QED
  BY <1>0, <1>3, <1>4, <1>5, <1>6, <1>7, <1>8 DEF Follow, Follows, Statuses

(* Only the last step of a redeem lets a caller through.                   *)
LEMMA ServedSame ==
  ASSUME IInv, NEW c \in RedeemCalls, RedeemStep(c), ~RedeemJournal(c)
  PROVE  ServedBy' = ServedBy
<1> USE DEF IInv, TypeOK, RedeemCall, RedeemPcs, Served, Returned
<1>1. ~Served(c)
  BY DEF RedeemStep, RedeemGet, RedeemCheck, RedeemExpire, RedeemReread, RedeemDeny,
         RedeemClaim, RedeemDecide, RedeemRecord, RaiseRedeem, InFlight
<1>2. ~Served(c)'
  <2>1. CASE RedeemGet(c)
    BY <2>1 DEF RedeemGet
  <2>2. CASE RedeemCheck(c) \/ RedeemExpire(c) \/ RedeemReread(c)
    <3>1. \A s : AfterMismatch(c, s) # "done"
      BY DEF AfterMismatch
    <3>2. CASE RedeemCheck(c)
      <4>1. redeem'[c].pc \in {"expire", AfterMismatch(c, redeem[c].seen)}
        BY <3>2 DEF RedeemCheck
      <4>. QED
        BY <3>1, <4>1
    <3>3. CASE RedeemExpire(c)
      <4>1. redeem'[c].pc \in {"reread", AfterMismatch(c, "expired")}
        BY <3>3 DEF RedeemExpire
      <4>. QED
        BY <3>1, <4>1
    <3>4. CASE RedeemReread(c)
      BY <3>1, <3>4 DEF RedeemReread
    <3>. QED
      BY <2>2, <3>2, <3>3, <3>4
  <2>3. CASE RedeemDeny(c) \/ RedeemClaim(c) \/ RedeemRecord(c) \/ RaiseRedeem(c)
    BY <2>3 DEF RedeemDeny, RedeemClaim, RedeemRecord, RaiseRedeem
  <2>4. CASE RedeemDecide(c)
    BY <2>4 DEF RedeemDecide
  <2>. QED
    BY <2>1, <2>2, <2>3, <2>4 DEF RedeemStep
<1>3. \A d \in RedeemCalls : d # c => redeem'[d] = redeem[d]
  BY RedeemFrame
<1>. QED
  BY <1>1, <1>2, <1>3 DEF ServedBy

(* That step serves a request that is used and has served nobody else.     *)
LEMMA JournalServes ==
  ASSUME IInv, NEW c \in RedeemCalls, RedeemJournal(c)
  PROVE  [Contract!Next]_<<LifeOf, ServedBy>>
<1>0. PICK r \in GateCalls : r = redeem[c].req
  BY DEF IInv, TypeOK, RedeemCall
<1>1. /\ redeem[c].pc = "journal" /\ rows' = rows /\ redeem[c].req = r
      /\ redeem'[c].pc = "done" /\ redeem'[c].req = r
      /\ redeem'[c].result = redeem[c].result
      /\ \A d \in RedeemCalls : d # c => redeem'[d] = redeem[d]
  BY <1>0 DEF RedeemJournal, IInv, TypeOK, RedeemCall
<1>2. LifeOf' = LifeOf
  BY <1>1 DEF LifeOf
<1>3. CASE redeem[c].result = "ALLOW"
  <2>1. LifeOf[r] = "used"
    BY <1>1 DEF LifeOf, Life, IInv, ClaimsHold, Claimed
  <2>2. \A d \in RedeemCalls : Served(d) => redeem[d].req # r
    BY <1>1 DEF IInv, ClaimsHold, Claimed, Served, Returned
  <2>3. ServedBy[r] = {}
    BY <1>1, <2>2 DEF ServedBy
  <2>4. ServedBy' = [ServedBy EXCEPT ![r] = {c}]
    <3>1. \A d \in RedeemCalls : d # c => (Served(d)' <=> Served(d))
      BY <1>1 DEF Served, Returned
    <3>2. Served(c)'
      BY <1>1, <1>3 DEF Served, Returned
    <3>3. ASSUME NEW q \in GateCalls
          PROVE  ServedBy'[q] = IF q = r THEN {c} ELSE ServedBy[q]
      <4>1. CASE q = r
        BY <1>1, <2>2, <3>1, <3>2, <4>1 DEF ServedBy
      <4>2. CASE q # r
        BY <1>1, <3>1, <4>2 DEF ServedBy, Served, Returned
      <4>. QED
        BY <4>1, <4>2
    <3>. QED
      BY <3>3 DEF ServedBy
  <2>5. Contract!Serve(r, c)
    BY <1>2, <2>1, <2>3, <2>4 DEF Contract!Serve, LifeOf, ServedBy
  <2>. QED
    BY <2>5 DEF Contract!Next
<1>4. CASE redeem[c].result # "ALLOW"
  <2>1. ServedBy' = ServedBy
    BY <1>1, <1>4 DEF ServedBy, Served, Returned
  <2>. QED
    BY <1>2, <2>1
<1>. QED
  BY <1>3, <1>4

(* A sweep closes every overdue request at once.                           *)
LEMMA SweepCloses ==
  ASSUME IInv, Sweep
  PROVE  Contract!Next
<1> DEFINE R == {r \in GateCalls : Sweepable(r)}
<1>1. redeem' = redeem /\ rows' = [r \in GateCalls |->
        IF Sweepable(r) THEN [rows[r] EXCEPT !.status = "expired"] ELSE rows[r]]
  BY DEF Sweep
<1>2. ServedBy' = ServedBy
  BY <1>1 DEF ServedBy, Served, Returned
<1>3. \A r \in R : LifeOf[r] \in {"asked", "granted"}
  BY DEF LifeOf, Life, Sweepable
<1>4. LifeOf' = [r \in GateCalls |-> IF r \in R THEN "closed" ELSE LifeOf[r]]
  <2>1. ASSUME NEW r \in GateCalls
        PROVE  Life(rows'[r].status) = IF r \in R THEN "closed" ELSE Life(rows[r].status)
    <3>1. CASE Sweepable(r)
      <4>1. rows'[r].status = "expired"
        BY <1>1, <3>1 DEF IInv, TypeOK, Row
      <4>. QED
        BY <3>1, <4>1 DEF Life
    <3>2. CASE ~Sweepable(r)
      BY <1>1, <3>2
    <3>. QED
      BY <3>1, <3>2
  <2>. QED
    BY <2>1 DEF LifeOf
<1>5. Contract!Close(R)
  BY <1>2, <1>3, <1>4 DEF Contract!Close, LifeOf, ServedBy
<1>. QED
  BY <1>5 DEF Contract!Next

(* Every step of the gate is a step of the contract or changes nothing the *)
(* contract sees.                                                          *)
LEMMA ContractStep ==
  ASSUME IInv, [Next]_vars
  PROVE  [Contract!Next]_<<LifeOf, ServedBy>>
<1> USE DEF IInv, TypeOK
<1>1. ASSUME NEW c \in GateCalls, GateStep(c)
      PROVE  [Contract!Next]_<<LifeOf, ServedBy>>
  <2>1. ServedBy' = ServedBy
    BY <1>1, GateFrame DEF ServedBy, Served, Returned
  <2>2. \A q \in GateCalls : q # c => rows'[q].status = rows[q].status
    BY <1>1 DEF GateStep, GateDecide, GateRecord, GateCreate, GateAnnounce, GateNotify,
                RaiseGate
  <2>. QED
    BY <2>1, <2>2, FollowStep, MoveRefines
<1>2. ASSUME NEW c \in ResolveCalls, ResolveStep(c)
      PROVE  [Contract!Next]_<<LifeOf, ServedBy>>
  <2>1. ServedBy' = ServedBy
    BY <1>2, ResolveFrame DEF ServedBy, Served, Returned
  <2>2. resolve[c].req \in GateCalls
    BY DEF ResolveCall
  <2>3. \A q \in GateCalls : q # resolve[c].req => rows'[q].status = rows[q].status
    <3>1. CASE rows' = rows
      BY <3>1
    <3>2. CASE ResolveExpire(c)
      BY <2>2, <3>2 DEF ResolveExpire, Resolved
    <3>3. CASE ResolveSettle(c)
      BY <2>2, <3>3 DEF ResolveSettle, Resolved
    <3>. QED
      BY <1>2, <3>1, <3>2, <3>3 DEF ResolveStep, ResolveGet, ResolveAuthorize,
                         ResolveRefuse, ResolveReread, ResolveJournal, RaiseResolve
  <2>. QED
    BY <2>1, <2>2, <2>3, FollowStep, MoveRefines
<1>3. ASSUME NEW c \in RedeemCalls, RedeemStep(c), ~RedeemJournal(c)
      PROVE  [Contract!Next]_<<LifeOf, ServedBy>>
  <2>1. ServedBy' = ServedBy
    BY <1>3, ServedSame
  <2>2. redeem[c].req \in GateCalls
    BY DEF RedeemCall
  <2>3. \A q \in GateCalls : q # redeem[c].req => rows'[q].status = rows[q].status
    <3>1. CASE rows' = rows
      BY <3>1
    <3>2. CASE \E s \in Statuses : rows' = Moved(redeem[c].req, s)
      BY <2>2, <3>2 DEF Moved
    <3>. QED
      BY <1>3, <3>1, <3>2, RedeemMoves DEF Statuses
  <2>. QED
    BY <2>1, <2>2, <2>3, FollowStep, MoveRefines
<1>4. CASE Tick \/ UNCHANGED vars
  <2>1. rows' = rows /\ redeem' = redeem
    BY <1>4 DEF Tick, vars
  <2>. QED
    BY <2>1 DEF LifeOf, ServedBy, Served, Returned
<1>. QED
  BY <1>1, <1>2, <1>3, <1>4, JournalServes, SweepCloses DEF Next

(* The gate keeps the contract of ADR 0008 and ADR 0017: with every race,  *)
(* crash and late write, what a tool owner sees of the requests is asked,  *)
(* granted or closed, used at most once, and served at most once.          *)
THEOREM GateKeepsContract == Spec => KeepsContract
<1>1. IInv /\ [Next]_vars => [Contract!Next]_<<LifeOf, ServedBy>>
  BY ContractStep
<1>. QED
  BY ContractInit, Invariant, <1>1, PTL DEF Spec, KeepsContract, Contract!Spec, LifeOf, ServedBy
=============================================================================
