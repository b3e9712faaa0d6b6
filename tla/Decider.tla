------------------------------ MODULE Decider ------------------------------
(***************************************************************************)
(* The single decision path of core/decider.py and the tool policies of    *)
(* actions/policies.py, as operators without state.                        *)
(*                                                                         *)
(* A chain is a record [subject, actor, depth, scope]; its scope is the    *)
(* set of resources its capabilities cover (module Scope relates           *)
(* capability patterns to that set).  An engine answer is "related",       *)
(* "unrelated" or "failed": every exception of the engine, typed or not,   *)
(* and a stale connector, count as "failed".  Reasons are left out: no     *)
(* property tells two denials apart.                                       *)
(***************************************************************************)

Outcomes == {"ALLOW", "REQUIRE_APPROVAL", "DENY"}
Answers  == {"related", "unrelated", "failed"}

(* CompositePolicy: the most restrictive verdict wins, whatever the order  *)
(* of the policies; without a policy the verdict is ALLOW.                 *)
MostRestrictive(verdicts) ==
  IF "DENY" \in verdicts THEN "DENY"
  ELSE IF "REQUIRE_APPROVAL" \in verdicts THEN "REQUIRE_APPROVAL"
  ELSE "ALLOW"

(* A rule names the tools it matches and, per argument, whether its        *)
(* predicate holds ("yes"), does not ("no") or raises ("raise").           *)
Matches(rule, tool) == tool \in rule.tools

(* RequireApproval.evaluate: a validated approval satisfies the rule, a    *)
(* raising predicate denies before the approval is looked at.              *)
RequireApproval(rule, tool, args, approved) ==
  IF ~Matches(rule, tool) \/ rule.when[args] = "no" THEN "ALLOW"
  ELSE IF rule.when[args] = "raise" THEN "DENY"
  ELSE IF approved THEN "ALLOW"
  ELSE "REQUIRE_APPROVAL"

(* DenyWhen.evaluate: a hit and a raising predicate both deny.             *)
DenyWhen(rule, tool, args) ==
  IF Matches(rule, tool) /\ rule.when[args] # "no" THEN "DENY" ELSE "ALLOW"

PolicyVerdict(approvalRules, denyRules, tool, args, approved) ==
  MostRestrictive(   {RequireApproval(r, tool, args, approved) : r \in approvalRules}
                  \cup {DenyWhen(r, tool, args) : r \in denyRules})

(* Decider._evaluate: scope first, then the engine about the subject, then *)
(* the policies.  A failing engine denies.                                 *)
Evaluate(chain, resource, answer, verdict) ==
  IF resource \notin chain.scope THEN "DENY"
  ELSE IF answer # "related" THEN "DENY"
  ELSE verdict

(* Decider._evaluate_all: every resource must be related, in one batch;    *)
(* without any the scope alone was the question.  verdict is the first     *)
(* policy verdict that is not ALLOW.                                       *)
EvaluateAll(scoped, resources, related, answered, verdict) ==
  IF ~scoped THEN "DENY"
  ELSE IF resources = {} THEN "ALLOW"
  ELSE IF ~answered \/ ~(resources \subseteq related) THEN "DENY"
  ELSE verdict

(* Decider.decide_each, for one resource of a batch.                       *)
EvaluateEach(scoped, resource, related, answered, verdict) ==
  IF scoped /\ answered /\ resource \in related THEN verdict ELSE "DENY"
=============================================================================
