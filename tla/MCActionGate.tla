---------------------------- MODULE MCActionGate ----------------------------
(***************************************************************************)
(* Small instances of ActionGate for TLC.                                  *)
(***************************************************************************)
EXTENDS ActionGate, FiniteSets, TLC

CONSTANTS alice, bob, bot, pay, ship, small, big

MCUsers == {alice, bob}

(* alice's agent, and a sub-agent it delegated to with the same tools but  *)
(* one level deeper.                                                       *)
Direct    == [subject |-> alice, actor |-> bot, depth |-> 1, scope |-> {pay}]
Delegated == [subject |-> alice, actor |-> bot, depth |-> 2, scope |-> {pay}]

(* The call that needs an approval, and near misses of it.                 *)
Payment   == [chain |-> Direct, tool |-> pay, args |-> big]
Deeper    == [Payment EXCEPT !.chain = Delegated]
Cheaper   == [Payment EXCEPT !.args = small]
OtherTool == [Payment EXCEPT !.tool = ship]

OnePayment      == {Payment}
SomeInvocations == {Payment, Deeper}
AllInvocations  == {Payment, Deeper, Cheaper, OtherTool}

(* Small payments need no approval; the deny rule cannot read big shipments. *)
MCApprovalRules == {[tools |-> {pay}, when |-> (big :> "yes" @@ small :> "no")]}
MCDenyRules     == {[tools |-> {ship}, when |-> (big :> "raise" @@ small :> "no")]}

MCFingerprint(args) == args

(* Any three of the resolvers and redeems, in any order.                   *)
Started ==
  {c \in ResolveCalls : resolve[c].pc # "idle"} \cup {c \in RedeemCalls : redeem[c].pc # "idle"}

ThreeCalls == Cardinality(Started) <= 3

CallSymmetry == Permutations(ResolveCalls) \cup Permutations(RedeemCalls)
=============================================================================
