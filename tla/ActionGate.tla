----------------------------- MODULE ActionGate -----------------------------
(***************************************************************************)
(* The ACT gate (actions/gate.py) over the approval store                  *)
(* (actions/approvals.py), with any number of gate, resolve and redeem     *)
(* calls in flight at once, in one process or in several over the same     *)
(* PostgreSQL table.                                                       *)
(*                                                                         *)
(* A step of a call is what the code does between two awaits: the store,   *)
(* the journal and the engine are each reached through an await            *)
(* (asyncio.to_thread or HTTP), and other calls run in between.  Every     *)
(* store operation is one locked or single-statement operation, hence one  *)
(* step.                                                                   *)
(*                                                                         *)
(* A call identifier is used once, so the request a gate call creates is   *)
(* named after that call (uuid4 in the code).  The immutable columns of    *)
(* request r (subject, actor, delegation_depth, tool, args_hash) are       *)
(* Binding(gate[r].inv); rows[r] holds the columns that change.            *)
(*                                                                         *)
(* The engine is external: each check may answer anything, or fail.        *)
(***************************************************************************)
EXTENDS Decider, Naturals

CONSTANTS
  GateCalls, ResolveCalls, RedeemCalls,  \* call identifiers
  Users,                                 \* user: references
  Invocations,                           \* what agents present: [chain, tool, args]
  Fingerprint(_),                        \* hash_args: arguments to their hash
  ApprovalRules, DenyRules,              \* the configured policies
  SelfApproval,                          \* allow_self_approval
  Channels,                              \* notification channels
  TTL, MaxClock,                         \* approval_ttl; bound on the clock
  Nobody                                 \* None

ASSUME CallsAssumption ==
  /\ GateCalls \cap ResolveCalls = {}
  /\ GateCalls \cap RedeemCalls = {}
  /\ ResolveCalls \cap RedeemCalls = {}
  /\ GateCalls # {}

ASSUME ConstantsAssumption ==
  /\ TTL \in Nat
  /\ MaxClock \in Nat
  /\ SelfApproval \in BOOLEAN
  /\ Nobody \notin Users
  /\ Users # {}
  /\ Invocations # {}
  /\ \A i \in Invocations : i.chain.subject \in Users

VARIABLES
  clock,    \* the one clock every process reads
  rows,     \* approval_requests
  journal,  \* the events recorded so far
  gate,     \* the gate calls, by identifier
  resolve,  \* the resolve calls
  redeem    \* the redeem calls

vars == <<clock, rows, journal, gate, resolve, redeem>>

-----------------------------------------------------------------------------
(* The approval store                                                      *)

Statuses == {"absent", "pending", "approved", "rejected", "expired", "consumed"}

Row == [status : Statuses, expires : Nat, resolvedBy : Users \cup {Nobody}]

(* hash of the call and identity the request is for *)
Binding(i) == [subject |-> i.chain.subject, actor |-> i.chain.actor,
               depth |-> i.chain.depth, tool |-> i.tool,
               hash |-> Fingerprint(i.args)]

(* Mutant: an UPDATE without the WHERE on the status.                      *)
MutantCanMove(r, from) == rows[r].status # "absent"

(* The guard of ApprovalStore.transition: the WHERE on the status.         *)
CanMove(r, from) == rows[r].status \in from

Moved(r, to) == [rows EXCEPT ![r].status = to]

(* Mutant: the two columns swapped.                                        *)
MutantResolved(r, to, approver) ==
  [rows EXCEPT ![r].status = approver, ![r].resolvedBy = to]

Resolved(r, to, approver) ==
  [rows EXCEPT ![r] = [@ EXCEPT !.status = to, !.resolvedBy = approver]]

(* Both expiry tests are strict: a request is good at expires_at itself.   *)
Overdue(now, r) == now > rows[r].expires

-----------------------------------------------------------------------------
(* The journal: each call records each of its events at most once, so the  *)
(* set of events loses nothing.                                            *)

Event(kind, c, outcome) == [kind |-> kind, call |-> c, outcome |-> outcome]

Record(kind, c, outcome) == journal' = journal \cup {Event(kind, c, outcome)}

-----------------------------------------------------------------------------
(* Decider.decide: the engine is asked about the subject only when the     *)
(* scope covers the tool.                                                  *)

Decision(i, tool, answer, approved) ==
  Evaluate(i.chain, tool, answer,
           PolicyVerdict(ApprovalRules, DenyRules, tool, i.args, approved))

AskedAbout(i, tool) == IF tool \in i.chain.scope THEN Answers ELSE {"unasked"}

-----------------------------------------------------------------------------
(* ActionGate.gate                                                         *)

GateDecide(c) ==
  /\ gate[c].pc = "idle"
  /\ \E i \in Invocations : \E a \in AskedAbout(i, i.tool) :
       gate' = [gate EXCEPT ![c] =
         [@ EXCEPT !.pc = "record", !.inv = i, !.result = Decision(i, i.tool, a, FALSE)]]
  /\ UNCHANGED <<clock, rows, journal, resolve, redeem>>

(* Journals the decision; only then may it be returned.  A required        *)
(* approval is stamped when the journal call comes back.                   *)
GateRecord(c) ==
  /\ gate[c].pc = "record"
  /\ Record("decision", c, gate[c].result)
  /\ gate' = [gate EXCEPT ![c] =
       [@ EXCEPT !.pc = IF gate[c].result = "REQUIRE_APPROVAL" THEN "create" ELSE "done",
                 !.now = clock]]
  /\ UNCHANGED <<clock, rows, resolve, redeem>>

(* Mutant: the request is not journaled.                                   *)
MutantGateCreate(c) ==
  /\ gate[c].pc = "create"
  /\ rows' = [rows EXCEPT ![c] = [status |-> "pending", expires |-> gate[c].now + TTL,
                                  resolvedBy |-> Nobody]]
  /\ gate' = [gate EXCEPT ![c].pc = "notify"]
  /\ UNCHANGED <<clock, journal, resolve, redeem>>

GateCreate(c) ==
  /\ gate[c].pc = "create"
  /\ rows' = [rows EXCEPT ![c] = [status |-> "pending", expires |-> gate[c].now + TTL,
                                  resolvedBy |-> Nobody]]
  /\ gate' = [gate EXCEPT ![c].pc = "announce"]
  /\ UNCHANGED <<clock, journal, resolve, redeem>>

GateAnnounce(c) ==
  /\ gate[c].pc = "announce"
  /\ Record("approval_requested", c, "PENDING")
  /\ gate' = [gate EXCEPT ![c].pc = "notify"]
  /\ UNCHANGED <<clock, rows, resolve, redeem>>

(* A channel failure is journaled and changes nothing else, so the loop    *)
(* over the channels is one step.                                          *)
GateNotify(c) ==
  /\ gate[c].pc = "notify"
  /\ \E failed \in SUBSET Channels :
       journal' = journal \cup {Event("approval_notify_failed", c, ch) : ch \in failed}
  /\ gate' = [gate EXCEPT ![c].pc = "done"]
  /\ UNCHANGED <<clock, rows, resolve, redeem>>

-----------------------------------------------------------------------------
(* ActionGate.resolve, and `hoc approvals approve | reject`: the clock is  *)
(* read once, at the start, and that instant is used throughout.           *)

ResolveGet(c) ==
  /\ resolve[c].pc = "idle"
  /\ \E r \in GateCalls, u \in Users, v \in {"approved", "rejected"} :
       resolve' = IF rows[r].status = "absent"
         THEN [resolve EXCEPT ![c].pc = "raised"]
         ELSE [resolve EXCEPT ![c] =
                [@ EXCEPT !.pc = "authorize", !.req = r, !.by = u, !.verdict = v,
                          !.now = clock]]
  /\ UNCHANGED <<clock, rows, journal, gate, redeem>>

Subject(r) == gate[r].inv.chain.subject

(* Mutant: an engine that fails does not refuse.                           *)
MutantAuthorized(r, u, answer) ==
  IF u = Subject(r) THEN SelfApproval ELSE answer # "unrelated"

(* authorize_approver: the subject only with self-approval, without asking *)
(* the engine; anyone else only if the engine says so.                     *)
Authorized(r, u, answer) ==
  IF u = Subject(r) THEN SelfApproval ELSE answer = "related"

ResolveAuthorize(c) ==
  /\ resolve[c].pc = "authorize"
  /\ \E a \in IF resolve[c].by = Subject(resolve[c].req) THEN {"unasked"} ELSE Answers :
       resolve' = [resolve EXCEPT ![c] =
         [@ EXCEPT !.pc = IF Authorized(resolve[c].req, resolve[c].by, a)
                          THEN "reread" ELSE "refuse",
                   !.answer = a]]
  /\ UNCHANGED <<clock, rows, journal, gate, redeem>>

ResolveRefuse(c) ==
  /\ resolve[c].pc = "refuse"
  /\ Record("approval_resolved", c, "REFUSED")
  /\ resolve' = [resolve EXCEPT ![c].pc = "raised"]
  /\ UNCHANGED <<clock, rows, gate, redeem>>

(* Mutant: the resolver calls a request overdue at expires_at already,     *)
(* where a redeem still takes it.                                          *)
MutantResolveReread(c) ==
  /\ resolve[c].pc = "reread"
  /\ LET r == resolve[c].req IN
     resolve' = [resolve EXCEPT ![c].pc =
       CASE rows[r].status # "pending" -> "raised"
         [] resolve[c].now >= rows[r].expires -> "expire"
         [] OTHER -> "settle"]
  /\ UNCHANGED <<clock, rows, journal, gate, redeem>>

(* resolve_request reads the row again, in a step of its own.  An overdue  *)
(* pending row goes to the write of ResolveExpire, every other row that is *)
(* not pending raises.                                                     *)
ResolveReread(c) ==
  /\ resolve[c].pc = "reread"
  /\ LET r == resolve[c].req IN
     resolve' = [resolve EXCEPT ![c].pc =
       CASE rows[r].status = "pending" /\ Overdue(resolve[c].now, r) -> "expire"
         [] rows[r].status # "pending" -> "raised"
         [] OTHER -> IF resolve[c].by = Subject(r) /\ ~SelfApproval
                     THEN "raised" ELSE "settle"]
  /\ UNCHANGED <<clock, rows, journal, gate, redeem>>

(* store.update of the row as it was read, EXPIRED: no compare-and-set,    *)
(* and the resolver of the row is the snapshot's, None.                    *)
ResolveExpire(c) ==
  /\ resolve[c].pc = "expire"
  /\ rows' = Resolved(resolve[c].req, "expired", Nobody)
  /\ resolve' = [resolve EXCEPT ![c].pc = "raised"]
  /\ UNCHANGED <<clock, journal, gate, redeem>>

ResolveSettle(c) ==
  /\ resolve[c].pc = "settle"
  /\ IF CanMove(resolve[c].req, {"pending"})
     THEN /\ rows' = Resolved(resolve[c].req, resolve[c].verdict, resolve[c].by)
          /\ resolve' = [resolve EXCEPT ![c].pc = "journal"]
     ELSE /\ rows' = rows
          /\ resolve' = [resolve EXCEPT ![c].pc = "raised"]
  /\ UNCHANGED <<clock, journal, gate, redeem>>

ResolveJournal(c) ==
  /\ resolve[c].pc = "journal"
  /\ Record("approval_resolved", c, resolve[c].verdict)
  /\ resolve' = [resolve EXCEPT ![c].pc = "done"]
  /\ UNCHANGED <<clock, rows, gate, redeem>>

-----------------------------------------------------------------------------
(* ActionGate.redeem                                                       *)

(* The caller may leave the tool out: it is then the request's.            *)
RedeemGet(c) ==
  /\ redeem[c].pc = "idle"
  /\ \E r \in GateCalls, i \in Invocations, named \in BOOLEAN :
       redeem' = IF rows[r].status = "absent"
         THEN [redeem EXCEPT ![c].pc = "deny"]
         ELSE [redeem EXCEPT ![c] =
                [@ EXCEPT !.pc = "check", !.req = r, !.inv = i, !.seen = rows[r].status,
                          !.tool = IF named THEN i.tool ELSE gate[r].inv.tool]]
  /\ UNCHANGED <<clock, rows, journal, gate, resolve>>

(* Mutant: the delegation depth is not compared.                           *)
MutantRedeemable(c, seenStatus) ==
  LET asked == Binding(gate[redeem[c].req].inv)
      given == Binding([redeem[c].inv EXCEPT !.tool = redeem[c].tool])
  IN  seenStatus = "approved" /\ asked = [given EXCEPT !.depth = asked.depth]

(* _mismatch, without the reasons: the status read earlier, and the call   *)
(* and chain presented, against those the request was made for.            *)
Redeemable(c, seenStatus) ==
  LET asked == Binding(gate[redeem[c].req].inv)
      given == Binding([redeem[c].inv EXCEPT !.tool = redeem[c].tool])
  IN  seenStatus = "approved" /\ asked = given

AfterMismatch(c, seenStatus) == IF Redeemable(c, seenStatus) THEN "claim" ELSE "deny"

(* _expire_if_needed reads the clock; when the row is not overdue the      *)
(* mismatch test follows without an await.                                 *)
RedeemCheck(c) ==
  /\ redeem[c].pc = "check"
  /\ redeem' = [redeem EXCEPT ![c].pc =
       IF redeem[c].seen \in {"pending", "approved"} /\ Overdue(clock, redeem[c].req)
       THEN "expire" ELSE AfterMismatch(c, redeem[c].seen)]
  /\ UNCHANGED <<clock, rows, journal, gate, resolve>>

(* Compare-and-set to EXPIRED.  When it fails the row is read again, in a  *)
(* later step.                                                             *)
RedeemExpire(c) ==
  /\ redeem[c].pc = "expire"
  /\ LET r == redeem[c].req IN
     IF CanMove(r, {"pending", "approved"})
     THEN /\ rows' = Moved(r, "expired")
          /\ redeem' = [redeem EXCEPT ![c] =
               [@ EXCEPT !.seen = "expired", !.pc = AfterMismatch(c, "expired")]]
     ELSE /\ rows' = rows
          /\ redeem' = [redeem EXCEPT ![c].pc = "reread"]
  /\ UNCHANGED <<clock, journal, gate, resolve>>

RedeemReread(c) ==
  /\ redeem[c].pc = "reread"
  /\ LET s == rows[redeem[c].req].status IN
     redeem' = [redeem EXCEPT ![c] =
       [@ EXCEPT !.seen = s, !.pc = AfterMismatch(c, s)]]
  /\ UNCHANGED <<clock, rows, journal, gate, resolve>>

RedeemDeny(c) ==
  /\ redeem[c].pc = "deny"
  /\ Record("decision", c, "DENY")
  /\ redeem' = [redeem EXCEPT ![c] = [@ EXCEPT !.pc = "done", !.result = "DENY"]]
  /\ UNCHANGED <<clock, rows, gate, resolve>>

(* Mutant: the answer of consume is ignored.                               *)
MutantRedeemClaim(c) ==
  /\ redeem[c].pc = "claim"
  /\ rows' = IF CanMove(redeem[c].req, {"approved"})
             THEN Moved(redeem[c].req, "consumed") ELSE rows
  /\ redeem' = [redeem EXCEPT ![c].pc = "decide"]
  /\ UNCHANGED <<clock, journal, gate, resolve>>

(* consume: APPROVED to CONSUMED, before the decision.                     *)
RedeemClaim(c) ==
  /\ redeem[c].pc = "claim"
  /\ IF CanMove(redeem[c].req, {"approved"})
     THEN /\ rows' = Moved(redeem[c].req, "consumed")
          /\ redeem' = [redeem EXCEPT ![c].pc = "decide"]
     ELSE /\ rows' = rows
          /\ redeem' = [redeem EXCEPT ![c].pc = "deny"]
  /\ UNCHANGED <<clock, journal, gate, resolve>>

RedeemDecide(c) ==
  /\ redeem[c].pc = "decide"
  /\ \E a \in AskedAbout(redeem[c].inv, redeem[c].tool) :
       redeem' = [redeem EXCEPT ![c] =
         [@ EXCEPT !.pc = "record", !.answer = a,
                   !.result = Decision(redeem[c].inv, redeem[c].tool, a, TRUE)]]
  /\ UNCHANGED <<clock, rows, journal, gate, resolve>>

RedeemRecord(c) ==
  /\ redeem[c].pc = "record"
  /\ Record("decision", c, redeem[c].result)
  /\ redeem' = [redeem EXCEPT ![c].pc = "journal"]
  /\ UNCHANGED <<clock, rows, gate, resolve>>

RedeemJournal(c) ==
  /\ redeem[c].pc = "journal"
  /\ Record("approval_consumed", c, redeem[c].result)
  /\ redeem' = [redeem EXCEPT ![c].pc = "done"]
  /\ UNCHANGED <<clock, rows, gate, resolve>>

-----------------------------------------------------------------------------
(* expire_pending, run by the sync loop and by `hoc approvals sweep`.      *)

(* Mutant: a sweep one tick late.                                          *)
MutantSweepable(r) == rows[r].status = "pending" /\ rows[r].expires + 1 < clock

Sweepable(r) == rows[r].status = "pending" /\ rows[r].expires < clock

Sweep ==
  /\ \E r \in GateCalls : Sweepable(r)
  /\ rows' = [r \in GateCalls |->
       IF Sweepable(r) THEN [rows[r] EXCEPT !.status = "expired"] ELSE rows[r]]
  /\ UNCHANGED <<clock, journal, gate, resolve, redeem>>

Tick ==
  /\ clock < MaxClock
  /\ clock' = clock + 1
  /\ UNCHANGED <<rows, journal, gate, resolve, redeem>>

(* A store or journal failure raises out of the call, and so does its      *)
(* cancellation; a crash of the process ends it at the same points.  What  *)
(* the call already wrote stays written.                                   *)
InFlight(pc) == pc \notin {"idle", "done", "raised"}

RaiseGate(c) ==
  /\ InFlight(gate[c].pc)
  /\ gate' = [gate EXCEPT ![c].pc = "raised"]
  /\ UNCHANGED <<clock, rows, journal, resolve, redeem>>

RaiseResolve(c) ==
  /\ InFlight(resolve[c].pc)
  /\ resolve' = [resolve EXCEPT ![c].pc = "raised"]
  /\ UNCHANGED <<clock, rows, journal, gate, redeem>>

RaiseRedeem(c) ==
  /\ InFlight(redeem[c].pc)
  /\ redeem' = [redeem EXCEPT ![c].pc = "raised"]
  /\ UNCHANGED <<clock, rows, journal, gate, resolve>>

-----------------------------------------------------------------------------
AnInvocation == CHOOSE i \in Invocations : TRUE
ARequest     == CHOOSE r \in GateCalls : TRUE
AUser        == CHOOSE u \in Users : TRUE

Init ==
  /\ clock = 0
  /\ rows = [r \in GateCalls |->
       [status |-> "absent", expires |-> 0, resolvedBy |-> Nobody]]
  /\ journal = {}
  /\ gate = [c \in GateCalls |->
       [pc |-> "idle", inv |-> AnInvocation, now |-> 0, result |-> "DENY"]]
  /\ resolve = [c \in ResolveCalls |->
       [pc |-> "idle", req |-> ARequest, by |-> AUser, verdict |-> "approved",
        now |-> 0, answer |-> "unasked"]]
  /\ redeem = [c \in RedeemCalls |->
       [pc |-> "idle", req |-> ARequest, inv |-> AnInvocation, tool |-> AnInvocation.tool,
        seen |-> "absent", answer |-> "unasked", result |-> "DENY"]]

GateStep(c) == GateDecide(c) \/ GateRecord(c) \/ GateCreate(c) \/ GateAnnounce(c)
               \/ GateNotify(c) \/ RaiseGate(c)

ResolveStep(c) == ResolveGet(c) \/ ResolveAuthorize(c) \/ ResolveRefuse(c)
                  \/ ResolveReread(c) \/ ResolveExpire(c) \/ ResolveSettle(c)
                  \/ ResolveJournal(c) \/ RaiseResolve(c)

RedeemStep(c) == RedeemGet(c) \/ RedeemCheck(c) \/ RedeemExpire(c) \/ RedeemReread(c)
                 \/ RedeemDeny(c) \/ RedeemClaim(c) \/ RedeemDecide(c)
                 \/ RedeemRecord(c) \/ RedeemJournal(c) \/ RaiseRedeem(c)

Next ==
  \/ \E c \in GateCalls : GateStep(c)
  \/ \E c \in ResolveCalls : ResolveStep(c)
  \/ \E c \in RedeemCalls : RedeemStep(c)
  \/ Sweep \/ Tick

Spec == Init /\ [][Next]_vars

-----------------------------------------------------------------------------
(* Properties                                                              *)

GatePcs    == {"idle", "record", "create", "announce", "notify", "done", "raised"}
ResolvePcs == {"idle", "authorize", "refuse", "reread", "expire", "settle", "journal",
               "done", "raised"}
RedeemPcs  == {"idle", "check", "expire", "reread", "deny", "claim", "decide", "record",
               "journal", "done", "raised"}

Tools == {i.tool : i \in Invocations}

GateCall    == [pc : GatePcs, inv : Invocations, now : Nat, result : Outcomes]
ResolveCall == [pc : ResolvePcs, req : GateCalls, by : Users,
                verdict : {"approved", "rejected"}, now : Nat,
                answer : Answers \cup {"unasked"}]
RedeemCall  == [pc : RedeemPcs, req : GateCalls, inv : Invocations, tool : Tools,
                seen : Statuses, answer : Answers \cup {"unasked"}, result : Outcomes]

(* The store and every call in flight are well formed.                     *)
TypeOK ==
  /\ clock \in Nat
  /\ rows \in [GateCalls -> Row]
  /\ gate \in [GateCalls -> GateCall]
  /\ resolve \in [ResolveCalls -> ResolveCall]
  /\ redeem \in [RedeemCalls -> RedeemCall]

Returned(c) == redeem[c].pc = "done"
Served(c)   == Returned(c) /\ redeem[c].result = "ALLOW"

(* Concurrent redeems of one approval: at most one of them returns ALLOW   *)
(* (gate.py, redeem: the claim before the decision).                       *)
SingleUse ==
  \A c, d \in RedeemCalls :
    Served(c) /\ Served(d) /\ redeem[c].req = redeem[d].req => c = d

(* An ALLOW returned by redeem is for a request that is consumed, by the   *)
(* subject, actor and depth, the tool and the argument hash it was asked   *)
(* for, and scope and engine were checked again after the approval         *)
(* (gate.py, _mismatch and the second decide).                             *)
AllowIsBound ==
  \A c \in RedeemCalls : Served(c) =>
    LET r == redeem[c].req
        i == redeem[c].inv
    IN  /\ rows[r].status = "consumed"
        /\ Binding(gate[r].inv) = Binding([i EXCEPT !.tool = redeem[c].tool])
        /\ redeem[c].tool \in i.chain.scope
        /\ redeem[c].answer = "related"

Settled(c) == resolve[c].pc \in {"journal", "done"}

(* An approval that stands or was used comes from a human who had the      *)
(* authority: a resolve call by that user, authorised for that request,    *)
(* and never the subject alone unless self-approval is on                  *)
(* (approvals.py, authorize_approver).                                     *)
ApprovalHasAuthority ==
  \A r \in GateCalls : rows[r].status \in {"approved", "consumed"} =>
    \E c \in ResolveCalls :
      /\ resolve[c].req = r
      /\ resolve[c].by = rows[r].resolvedBy
      /\ resolve[c].verdict = "approved"
      /\ IF resolve[c].by = gate[r].inv.chain.subject
         THEN SelfApproval ELSE resolve[c].answer = "related"

(* Two resolvers racing never both succeed (approvals.py:374).             *)
OneResolution ==
  \A c, d \in ResolveCalls :
    Settled(c) /\ Settled(d) /\ resolve[c].req = resolve[d].req => c = d

(* A caller holds nothing the journal does not show: neither an ALLOW of   *)
(* redeem, nor a pending request of gate (decider.py:86, gate.py:112-118). *)
AnswersAreJournaled ==
  /\ \A c \in RedeemCalls : Returned(c) =>
       /\ Event("decision", c, redeem[c].result) \in journal
       /\ Served(c) => Event("approval_consumed", c, "ALLOW") \in journal
  /\ \A c \in GateCalls : gate[c].pc = "done" =>
       /\ Event("decision", c, gate[c].result) \in journal
       /\ gate[c].result = "REQUIRE_APPROVAL" =>
            /\ Event("approval_requested", c, "PENDING") \in journal
            /\ rows[c].status # "absent"

(* A used approval and an expired one stay so, and nothing is approved     *)
(* twice or after a rejection, whatever stale write lands late.            *)
Follows(s) ==
  CASE s = "absent"   -> {"pending"}
    [] s = "pending"  -> {"approved", "rejected", "expired"}
    [] s = "approved" -> {"consumed", "expired"}
    [] s = "rejected" -> {"expired"}
    [] OTHER          -> {}

NeverReopened ==
  [][\A r \in GateCalls :
       rows'[r].status # rows[r].status => rows'[r].status \in Follows(rows[r].status)]_vars

Life(s) ==
  CASE s = "absent"   -> "none"
    [] s = "pending"  -> "asked"
    [] s = "approved" -> "granted"
    [] s = "consumed" -> "used"
    [] OTHER          -> "closed"

Contract == INSTANCE ApprovalContract WITH
  Requests <- GateCalls,
  Callers  <- RedeemCalls,
  life     <- [r \in GateCalls |-> Life(rows[r].status)],
  served   <- [r \in GateCalls |-> {c \in RedeemCalls : Served(c) /\ redeem[c].req = r}]

(* The gate implements the contract of ADR 0008 and ADR 0017.              *)
KeepsContract == Contract!Spec

-----------------------------------------------------------------------------
(* The inductive invariant behind SingleUse and NeverReopened.  The write  *)
(* of ResolveExpire is not a compare-and-set: what keeps it from hitting a *)
(* consumed request is that the row was pending when the clock was already *)
(* past its expiry, so that no redeem can have seen it approved in time.   *)

RowsCreated ==
  \A r \in GateCalls : rows[r].status # "absent" =>
    gate[r].pc \in {"announce", "notify", "done", "raised"}

StampsArePast == \A c \in ResolveCalls : resolve[c].now <= clock

LateWrite(c) == resolve[c].pc = "expire" =>
  LET r == resolve[c].req
  IN  /\ rows[r].status \notin {"absent", "consumed"}
      /\ rows[r].expires < clock
      /\ \A d \in RedeemCalls : redeem[d].req = r => redeem[d].pc # "claim"

SeenIsPast(d) ==
  LET s == rows[redeem[d].req].status
  IN  /\ redeem[d].pc \in {"check", "expire"} => s # "absent"
      /\ redeem[d].pc = "check" /\ redeem[d].seen = "approved" => s # "pending"
      /\ redeem[d].pc = "claim" => s \notin {"absent", "pending"}
      /\ redeem[d].pc = "reread" => s \in {"rejected", "expired", "consumed"}

Claimed(d) == redeem[d].pc \in {"decide", "record", "journal"} \/ Served(d)

ClaimsHold ==
  /\ \A d \in RedeemCalls : Claimed(d) => rows[redeem[d].req].status = "consumed"
  /\ \A d, e \in RedeemCalls :
       Claimed(d) /\ Claimed(e) /\ redeem[d].req = redeem[e].req => d = e

IInv ==
  /\ TypeOK
  /\ RowsCreated
  /\ StampsArePast
  /\ \A c \in ResolveCalls : LateWrite(c)
  /\ \A d \in RedeemCalls : SeenIsPast(d)
  /\ ClaimsHold

(* What each call has established by the point it has reached: it is what  *)
(* makes AllowIsBound, OneResolution, ApprovalHasAuthority and             *)
(* AnswersAreJournaled inductive.                                          *)

(* A resolve call works on a row that exists, and past its authorisation   *)
(* by a human who had the authority; a settled one has moved the row.      *)
Vetted(c) ==
  /\ resolve[c].pc \notin {"idle", "raised"} => rows[resolve[c].req].status # "absent"
  /\ resolve[c].pc \in {"reread", "expire", "settle", "journal", "done"} =>
       Authorized(resolve[c].req, resolve[c].by, resolve[c].answer)
  /\ Settled(c) => rows[resolve[c].req].status # "pending"

(* The call an approval of r comes from; its process may have died since.  *)
Approves(c, r) ==
  /\ resolve[c].pc \in {"journal", "done", "raised"}
  /\ resolve[c].req = r
  /\ resolve[c].by = rows[r].resolvedBy
  /\ resolve[c].verdict = "approved"
  /\ Authorized(r, resolve[c].by, resolve[c].answer)

RowsApproved ==
  \A r \in GateCalls : rows[r].status \in {"approved", "consumed"} =>
    \E c \in ResolveCalls : Approves(c, r)

(* A redeem past the mismatch test presents what the request was for, and  *)
(* past the decision it knows that scope and engine agreed.                *)
Checked(d) ==
  /\ redeem[d].pc = "claim" \/ Claimed(d) =>
       Binding(gate[redeem[d].req].inv)
         = Binding([redeem[d].inv EXCEPT !.tool = redeem[d].tool])
  /\ redeem[d].pc \in {"record", "journal", "done"} /\ redeem[d].result = "ALLOW" =>
       redeem[d].tool \in redeem[d].inv.chain.scope /\ redeem[d].answer = "related"

RedeemWrote(d) ==
  /\ redeem[d].pc \in {"journal", "done"} =>
       Event("decision", d, redeem[d].result) \in journal
  /\ Served(d) => Event("approval_consumed", d, "ALLOW") \in journal

GateWrote(c) ==
  /\ gate[c].pc \in {"create", "announce", "notify", "done"} =>
       Event("decision", c, gate[c].result) \in journal
  /\ gate[c].pc \in {"create", "announce", "notify"} => gate[c].result = "REQUIRE_APPROVAL"
  /\ gate[c].pc \in {"announce", "notify", "done"} /\ gate[c].result = "REQUIRE_APPROVAL" =>
       rows[c].status # "absent"
  /\ gate[c].pc \in {"notify", "done"} /\ gate[c].result = "REQUIRE_APPROVAL" =>
       Event("approval_requested", c, "PENDING") \in journal

CallsInv ==
  /\ IInv
  /\ \A c \in ResolveCalls : Vetted(c)
  /\ OneResolution
  /\ RowsApproved
  /\ \A d \in RedeemCalls : Checked(d) /\ RedeemWrote(d)
  /\ \A c \in GateCalls : GateWrote(c)

-----------------------------------------------------------------------------
(* What the documents say and the code does not do                         *)

(* "A rejection is never overwritten." (ADR 0017, amendment)               *)
RejectionNeverOverwritten ==
  [][\A r \in GateCalls : rows[r].status = "rejected" => rows'[r] = rows[r]]_vars

-----------------------------------------------------------------------------
(* Liveness: `hoc sync` sweeps again and again, and time goes on.          *)

FairSpec == Spec /\ WF_vars(Sweep) /\ WF_vars(Tick)

(* No request stays pending past its expiry, whatever happened to the      *)
(* calls that created it or were resolving it.                             *)
OverdueCloses ==
  \A r \in GateCalls :
    rows[r].status = "pending" /\ rows[r].expires < MaxClock ~> rows[r].status # "pending"
=============================================================================
