---------------------------- MODULE ServerProofs ----------------------------
(***************************************************************************)
(* Proofs about what a server process keeps to itself and every request    *)
(* passes: the cached keys of the identity provider (OidcProvider), for    *)
(* any number of concurrent verifications and of rotations, any lifetime   *)
(* of the cached keys, refresh window and timeout, and any tokens that the *)
(* provider may issue; the buckets of the limiter (RateLimiter), for any   *)
(* clients, any budget and any cap of three buckets or more; and its start *)
(* (Startup), for any number of replicas of any releases and any number of *)
(* deaths.                                                                 *)
(***************************************************************************)
EXTENDS OidcProvider, RateLimiter, Startup, FiniteSetTheorems, TLAPS

-----------------------------------------------------------------------------
(* Whom a token is taken for                                               *)

(* A caller that a route admits is the one the token was issued to.        *)
LEMMA AdmittedIsHolder ==
  ASSUME NEW t \in IssuedTokens, NEW route \in {"agent", "user"},
         Admits(route, CallerOf(t.claims, t.detection))
  PROVE  CallerOf(t.claims, t.detection) = t.holder
<1> DEFINE c == t.claims
           d == t.detection
           who == CallerOf(c, d)
<1>0. (Marked(c, d) <=> HasMarker(t)) /\ (ServiceAccount(c, d) <=> HasServiceName(t))
  BY DEF Marked, HasMarker, ServiceAccount, HasServiceName
<1>1. who.kind = route
  BY DEF Admits
<1>2. who # NoCaller
  <2>1. NoCaller.kind = "none"
    BY DEF NoCaller
  <2> HIDE DEF who
  <2>. QED
    BY <1>1, <2>1
<1>3. ASSUME NEW client \in References, NEW id, id \in {"", client}, Agent(id) # NoCaller
      PROVE  Agent(id) = [kind |-> "agent", ref |-> client]
  BY <1>3, ProviderAssumption DEF Agent
<1>4. CASE Marked(c, d)
  <2> DEFINE id == IF c.id # "" THEN c.id ELSE c.azp
  <2>1. who = Agent(id)
    BY <1>4 DEF CallerOf
  <2>2. PICK client \in References : /\ t.holder = [kind |-> "agent", ref |-> client]
                                     /\ {c.id, c.azp} \subseteq {"", client}
    BY <1>0, <1>4, IssuerAssumption
  <2>3. id \in {"", client}
    BY <2>2
  <2>. QED
    BY <1>2, <1>3, <2>1, <2>2, <2>3
<1>5. CASE ~Marked(c, d) /\ ServiceAccount(c, d) /\ c.username.name \in {"", c.azp}
  <2>1. who = Agent(c.username.name)
    BY <1>5 DEF CallerOf
  <2>2. c.username.name # ""
    BY <1>2, <2>1, ProviderAssumption DEF Agent
  <2>3. PICK client \in References : /\ t.holder = [kind |-> "agent", ref |-> client]
                                     /\ c.username.name = client
    BY <1>0, <1>5, <2>2, IssuerAssumption
  <2>. QED
    BY <1>2, <1>3, <2>1, <2>3
<1>6. CASE ~Marked(c, d) /\ ~(ServiceAccount(c, d) /\ c.username.name \in {"", c.azp})
  <2>1. who = User(c.subject)
    BY <1>6 DEF CallerOf
  <2>2. t.holder = User(c.subject)
    BY <1>0, <1>6, IssuerAssumption
  <2>. QED
    BY <2>1, <2>2
<1>. QED
  BY <1>4, <1>5, <1>6

-----------------------------------------------------------------------------
(* The parts of a step                                                     *)

(* A verification at rest, and one that goes out for the keys.             *)
LEMMA FetchingTyped ==
  ASSUME NEW key \in Nat, NEW forced \in BOOLEAN
  PROVE  /\ Idle \in VerifyCall /\ Idle.pc = "idle" /\ Idle.key = 0
         /\ Fetching(key, forced) \in VerifyCall /\ Fetching(key, forced).pc \in {"get", "discover"}
         /\ Fetching(key, forced).key = key
<1>1. Idle \in VerifyCall /\ Idle.pc = "idle" /\ Idle.key = 0
  BY DEF Idle, VerifyCall
<1>. QED
  BY <1>1 DEF Fetching, VerifyCall

(* A decision on a token: the verdict it may lead to, and the refresh.     *)
LEMMA DecodeKnows ==
  ASSUME ProviderType, NEW v \in VerifyCalls, NEW key \in Nat, NEW keys \in Nat,
         NEW forced \in BOOLEAN, Decode(v, key, keys, forced), UNCHANGED <<clock, withdrawn>>,
         keys \in DOMAIN withdrawn => clock < withdrawn[keys] + KeyTTL + FetchTimeout,
         forced /\ key = Signing => key = keys
  PROVE  /\ lastForced' \in SUBSET Nat
         /\ \E x \in {Idle, Fetching(key, TRUE)} : verify' = [verify EXCEPT ![v] = x]
         /\ (WithdrawnKeyExpires /\ RotationIsPickedUp /\ ServedIsHolder)'
<1>0. Signing' = Signing /\ clock \in Nat /\ lastForced \in SUBSET Nat /\ withdrawn \in Seq(Nat)
      /\ MinRefresh \in Nat
  BY ProviderAssumption DEF Signing, ProviderType
<1>1. CASE key # 0 /\ key = keys
  <2>1. PICK t \in IssuedTokens, route \in {"agent", "user"} :
          Ends(v, [outcome |-> IF ClaimsValid(t.claims)
                                    /\ Admits(route, CallerOf(t.claims, t.detection))
                               THEN "served" ELSE "denied",
                   key |-> key, caller |-> CallerOf(t.claims, t.detection),
                   holder |-> t.holder, exp |-> t.claims.exp])
        /\ UNCHANGED lastForced
    BY <1>1 DEF Decode, Accept
  <2> DEFINE good == ClaimsValid(t.claims) /\ Admits(route, CallerOf(t.claims, t.detection))
  <2>2. /\ verify' = [verify EXCEPT ![v] = Idle] /\ lastForced' = lastForced
        /\ verdict'.outcome = IF good THEN "served" ELSE "denied"
        /\ verdict'.key = key /\ verdict'.caller = CallerOf(t.claims, t.detection)
        /\ verdict'.holder = t.holder /\ verdict'.exp = t.claims.exp
    BY <2>1 DEF Ends
  <2>3. good => verdict'.caller = verdict'.holder /\ verdict'.exp >= clock
    BY <2>2, AdmittedIsHolder DEF ClaimsValid
  <2>4. verdict'.key < Signing => verdict'.key \in DOMAIN withdrawn
    BY <1>0, <1>1, <2>2 DEF Signing
  <2>5. (WithdrawnKeyExpires /\ RotationIsPickedUp /\ ServedIsHolder)'
    BY <1>0, <1>1, <2>2, <2>3, <2>4 DEF WithdrawnKeyExpires, RotationIsPickedUp, ServedIsHolder
  <2>. QED
    BY <1>0, <2>2, <2>5
<1>2. CASE ~(key # 0 /\ key = keys) /\ ~forced /\ MayForceRefresh
  <2>1. /\ lastForced' = {clock} /\ verify' = [verify EXCEPT ![v] = Fetching(key, TRUE)]
        /\ verdict' = NoVerdict
    BY <1>2 DEF Decode, Reject
  <2>2. verdict'.outcome = "none"
    BY <2>1 DEF NoVerdict
  <2>. QED
    BY <1>0, <2>1, <2>2 DEF WithdrawnKeyExpires, RotationIsPickedUp, ServedIsHolder
<1>3. CASE ~(key # 0 /\ key = keys) /\ ~(~forced /\ MayForceRefresh)
  <2>1. /\ lastForced' = lastForced /\ verify' = [verify EXCEPT ![v] = Idle]
        /\ verdict' = [outcome |-> "refused", key |-> key, forced |-> forced]
    BY <1>3 DEF Decode, Reject, Ends
  <2>2. verdict'.outcome = "refused" /\ verdict'.key = key /\ verdict'.forced = forced
    BY <2>1
  <2>3. key = Signing => ~forced /\ \E t \in lastForced : clock < t + MinRefresh
    BY <1>0, <1>3 DEF Signing, MayForceRefresh
  <2>4. (WithdrawnKeyExpires /\ RotationIsPickedUp /\ ServedIsHolder)'
    BY <1>0, <2>1, <2>2, <2>3 DEF WithdrawnKeyExpires, RotationIsPickedUp, ServedIsHolder
  <2>. QED
    BY <1>0, <2>1, <2>4
<1>. QED
  BY <1>1, <1>2, <1>3

(* A verification that goes out for the keys, or is at rest, has no reply. *)
LEMMA VerifyMoves ==
  ASSUME ProviderInv, NEW v \in VerifyCalls, NEW key \in Nat, key <= Signing,
         NEW forced \in BOOLEAN, NEW x \in {Idle, Fetching(key, forced)},
         verify' = [verify EXCEPT ![v] = x], UNCHANGED <<clock, withdrawn>>
  PROVE  /\ verify' \in [VerifyCalls -> VerifyCall]
         /\ \A w \in VerifyCalls : VerifyKnows(w)'
<1>0. verify \in [VerifyCalls -> VerifyCall] /\ withdrawn \in Seq(Nat) /\ Signing' = Signing
      /\ Signing \in Nat
  BY DEF ProviderInv, ProviderType, Signing
<1>1. x \in VerifyCall /\ x.pc # "reply" /\ x.key <= Signing
  BY <1>0, FetchingTyped
<1>2. /\ verify' \in [VerifyCalls -> VerifyCall] /\ verify'[v] = x
      /\ \A w \in VerifyCalls : w # v => verify'[w] = verify[w]
  BY <1>0, <1>1
<1>3. ASSUME NEW w \in VerifyCalls, w # v
      PROVE  VerifyKnows(w)'
  <2>1. VerifyKnows(w)
    BY DEF ProviderInv
  <2>. QED
    BY <1>0, <1>2, <1>3, <2>1 DEF VerifyKnows, Dated
<1>4. VerifyKnows(v)'
  BY <1>0, <1>1, <1>2 DEF VerifyKnows
<1>. QED
  BY <1>2, <1>3, <1>4

(* A step without a verdict cannot give a wrong one.                       *)
LEMMA NoVerdictKnows ==
  ASSUME verdict'.outcome \in {"none", "failed"}
  PROVE  (WithdrawnKeyExpires /\ RotationIsPickedUp /\ ServedIsHolder)'
BY DEF WithdrawnKeyExpires, RotationIsPickedUp, ServedIsHolder

-----------------------------------------------------------------------------
(* The steps                                                               *)

(* A token arrives.                                                        *)
LEMMA BeginKeeps ==
  ASSUME ProviderInv, NEW v \in VerifyCalls, NEW key \in 0..Signing, Begin(v, key), UNCHANGED clock
  PROVE  ProviderInv'
<1>0. /\ ProviderType /\ withdrawn \in Seq(Nat) /\ clock \in Nat /\ cache.key \in Nat /\ cache.at \in Nat
      /\ Signing \in Nat /\ Signing' = Signing /\ UNCHANGED <<clock, withdrawn, cache>>
      /\ {KeyTTL, FetchTimeout} \subseteq Nat /\ Dated(cache.key, cache.at, FetchTimeout)
  <2>1. ProviderType /\ Dated(cache.key, cache.at, FetchTimeout)
    BY DEF ProviderInv
  <2>2. UNCHANGED <<clock, withdrawn, cache>>
    BY DEF Begin
  <2>3. {KeyTTL, FetchTimeout} \subseteq Nat
    BY ProviderAssumption
  <2>. QED
    BY <2>1, <2>2, <2>3 DEF ProviderType, Signing
<1>1. key \in Nat /\ key <= Signing
  BY <1>0
<1>2. /\ lastForced' \in SUBSET Nat
      /\ \E x \in {Idle, Fetching(key, TRUE), Fetching(key, FALSE)} :
           verify' = [verify EXCEPT ![v] = x]
      /\ (WithdrawnKeyExpires /\ RotationIsPickedUp /\ ServedIsHolder)'
  <2>1. CASE Fresh
    <3>1. Decode(v, key, cache.key, FALSE)
      BY <2>1 DEF Begin
    <3>2. cache.key \in DOMAIN withdrawn => clock < withdrawn[cache.key] + KeyTTL + FetchTimeout
      <4> SUFFICES ASSUME cache.key \in DOMAIN withdrawn
                   PROVE  clock < withdrawn[cache.key] + KeyTTL + FetchTimeout
        OBVIOUS
      <4>1. withdrawn[cache.key] \in Nat
        BY <1>0
      <4>4. cache.at <= withdrawn[cache.key] + FetchTimeout
        BY <1>0 DEF Dated
      <4>2. clock - cache.at < KeyTTL
        BY <2>1 DEF Fresh
      <4>3. KeyTTL \in Nat /\ FetchTimeout \in Nat /\ clock \in Nat /\ cache.at \in Nat
        BY <1>0
      <4>. QED
        BY <4>1, <4>2, <4>3, <4>4
    <3>. QED
      BY <1>0, <1>1, <3>1, <3>2, DecodeKnows
  <2>2. CASE ~Fresh
    <3>1. /\ verify' = [verify EXCEPT ![v] = Fetching(key, FALSE)] /\ verdict' = NoVerdict
          /\ lastForced' = lastForced
      BY <2>2 DEF Begin
    <3>2. verdict'.outcome = "none"
      BY <3>1 DEF NoVerdict
    <3>. QED
      BY <1>0, <3>1, <3>2, NoVerdictKnows DEF ProviderType
  <2>. QED
    BY <2>1, <2>2
<1>3. /\ verify' \in [VerifyCalls -> VerifyCall]
      /\ \A w \in VerifyCalls : VerifyKnows(w)'
  BY <1>0, <1>1, <1>2, VerifyMoves
<1>4. Dated(cache.key, cache.at, FetchTimeout)'
  BY <1>0 DEF Dated
<1>. QED
  BY <1>0, <1>2, <1>3, <1>4 DEF ProviderInv, ProviderType

(* The metadata are there; the keys are asked for.                         *)
LEMMA DiscoverKeeps ==
  ASSUME ProviderInv, NEW v \in VerifyCalls, Discover(v), UNCHANGED clock
  PROVE  ProviderInv'
<1>0. /\ ProviderType /\ verify \in [VerifyCalls -> VerifyCall] /\ Signing' = Signing
      /\ UNCHANGED <<clock, withdrawn, cache, lastForced>>
  BY DEF ProviderInv, ProviderType, Signing, Discover
<1>1. /\ verify' \in [VerifyCalls -> VerifyCall] /\ verify'[v].pc = "get"
      /\ verify'[v].key = verify[v].key
      /\ \A w \in VerifyCalls : w # v => verify'[w] = verify[w]
  BY <1>0 DEF Discover, VerifyCall
<1>2. ASSUME NEW w \in VerifyCalls
      PROVE  VerifyKnows(w)'
  <2>1. VerifyKnows(w)
    BY DEF ProviderInv
  <2>. QED
    BY <1>0, <1>1, <2>1 DEF VerifyKnows, Dated
<1>3. (WithdrawnKeyExpires /\ RotationIsPickedUp /\ ServedIsHolder)'
  BY NoVerdictKnows DEF Discover, NoVerdict
<1>4. Dated(cache.key, cache.at, FetchTimeout)'
  BY <1>0 DEF ProviderInv, Dated
<1>. QED
  BY <1>0, <1>1, <1>2, <1>3, <1>4 DEF ProviderInv, ProviderType

(* The provider answers with the key in use: no older than the token's.    *)
LEMMA ServeKeeps ==
  ASSUME ProviderInv, NEW v \in VerifyCalls, Serve(v), UNCHANGED clock
  PROVE  ProviderInv'
<1>0. /\ ProviderType /\ verify \in [VerifyCalls -> VerifyCall] /\ Signing' = Signing
      /\ withdrawn \in Seq(Nat) /\ Signing \in Nat /\ clock \in Nat /\ FetchTimeout \in Nat
      /\ UNCHANGED <<clock, withdrawn, cache, lastForced>>
  <2>1. ProviderType
    BY DEF ProviderInv
  <2>2. UNCHANGED <<clock, withdrawn, cache, lastForced>>
    BY DEF Serve
  <2>3. FetchTimeout \in Nat
    BY ProviderAssumption
  <2>. QED
    BY <2>1, <2>2, <2>3 DEF ProviderType, Signing
<1> DEFINE x == [verify[v] EXCEPT !.pc = "reply", !.reply = Signing, !.at = clock]
<1>1. verify' = [verify EXCEPT ![v] = x]
  BY DEF Serve
<1>2. /\ x \in VerifyCall /\ x.pc = "reply" /\ x.reply = Signing /\ x.at = clock
      /\ x.key = verify[v].key
  BY <1>0 DEF VerifyCall
<1> HIDE DEF x
<1>3. /\ verify' \in [VerifyCalls -> VerifyCall] /\ verify'[v] = x
      /\ \A w \in VerifyCalls : w # v => verify'[w] = verify[w]
  BY <1>0, <1>1, <1>2
<1>4. ASSUME NEW w \in VerifyCalls
      PROVE  VerifyKnows(w)'
  <2>1. VerifyKnows(w)
    BY DEF ProviderInv
  <2>2. CASE w = v
    <3>1. Signing \notin DOMAIN withdrawn
      BY <1>0 DEF Signing
    <3>. QED
      BY <1>0, <1>2, <1>3, <2>1, <2>2, <3>1 DEF VerifyKnows, Dated
  <2>3. CASE w # v
    BY <1>0, <1>3, <2>1, <2>3 DEF VerifyKnows, Dated
  <2>. QED
    BY <2>2, <2>3
<1>5. (WithdrawnKeyExpires /\ RotationIsPickedUp /\ ServedIsHolder)'
  BY NoVerdictKnows DEF Serve, NoVerdict
<1>6. Dated(cache.key, cache.at, FetchTimeout)'
  BY <1>0 DEF ProviderInv, Dated
<1>. QED
  BY <1>0, <1>3, <1>4, <1>5, <1>6 DEF ProviderInv, ProviderType

(* The reply lands: what it holds was in use FetchTimeout ago at most.     *)
LEMMA LandKeeps ==
  ASSUME ProviderInv, NEW v \in VerifyCalls, Land(v), UNCHANGED clock
  PROVE  ProviderInv'
<1> DEFINE key == verify[v].key
           reply == verify[v].reply
<1>0. /\ ProviderType /\ verify[v] \in VerifyCall /\ withdrawn \in Seq(Nat) /\ clock \in Nat
      /\ Signing' = Signing /\ Signing \in Nat /\ verify[v].pc = "reply"
      /\ cache' = [key |-> reply, at |-> clock] /\ Decode(v, key, reply, verify[v].forced)
      /\ UNCHANGED <<clock, withdrawn>> /\ VerifyKnows(v)
  BY DEF ProviderInv, ProviderType, Signing, Land
<1>1. /\ key \in Nat /\ reply \in Nat /\ verify[v].forced \in BOOLEAN /\ verify[v].at \in Nat
      /\ FetchTimeout \in Nat /\ KeyTTL \in Nat \ {0}
  BY <1>0, ProviderAssumption DEF VerifyCall
<1>2. /\ key <= reply /\ key <= Signing /\ reply <= Signing
      /\ reply \in DOMAIN withdrawn => clock <= withdrawn[reply] + FetchTimeout
  <2>1. /\ key <= Signing /\ key <= reply /\ reply <= Signing
        /\ clock <= verify[v].at + FetchTimeout
        /\ reply \in DOMAIN withdrawn => verify[v].at <= withdrawn[reply] + 0
    BY <1>0 DEF VerifyKnows, Dated
  <2>2. ASSUME reply \in DOMAIN withdrawn
        PROVE  clock <= withdrawn[reply] + FetchTimeout
    <3>1. withdrawn[reply] \in Nat
      BY <1>0, <2>2
    <3> HIDE DEF reply
    <3>. QED
      BY <1>0, <1>1, <2>1, <2>2, <3>1
  <2>. QED
    BY <2>1, <2>2
<1>3. reply \in DOMAIN withdrawn => clock < withdrawn[reply] + KeyTTL + FetchTimeout
  <2>1. reply \in DOMAIN withdrawn => withdrawn[reply] \in Nat
    BY <1>0
  <2> HIDE DEF reply
  <2>. QED
    BY <1>0, <1>1, <1>2, <2>1
<1>4. key = Signing => key = reply
  BY <1>0, <1>1, <1>2
<1>5. /\ lastForced' \in SUBSET Nat
      /\ \E x \in {Idle, Fetching(key, TRUE)} : verify' = [verify EXCEPT ![v] = x]
      /\ (WithdrawnKeyExpires /\ RotationIsPickedUp /\ ServedIsHolder)'
  <2> HIDE DEF key, reply
  <2>. QED
    BY <1>0, <1>1, <1>3, <1>4, DecodeKnows
<1>6. /\ verify' \in [VerifyCalls -> VerifyCall]
      /\ \A w \in VerifyCalls : VerifyKnows(w)'
  <2> HIDE DEF key, reply
  <2>. QED
    BY <1>0, <1>1, <1>2, <1>5, VerifyMoves
<1>7. cache' \in [key : Nat, at : Nat] /\ cache'.key = reply /\ cache'.at = clock
  BY <1>0, <1>1
<1>8. Dated(cache.key, cache.at, FetchTimeout)'
  BY <1>0, <1>1, <1>2, <1>7 DEF Dated
<1>. QED
  BY <1>0, <1>5, <1>6, <1>7, <1>8 DEF ProviderInv, ProviderType

(* Without keys no token is taken for good.                                *)
LEMMA FailKeeps ==
  ASSUME ProviderInv, NEW v \in VerifyCalls, Fail(v), UNCHANGED clock
  PROVE  ProviderInv'
<1>0. /\ ProviderType /\ verify' = [verify EXCEPT ![v] = Idle] /\ verdict' = [outcome |-> "failed"]
      /\ 0 <= Signing /\ UNCHANGED <<clock, withdrawn, cache, lastForced>>
  BY DEF ProviderInv, ProviderType, Signing, Fail, Ends
<1>1. /\ verify' \in [VerifyCalls -> VerifyCall]
      /\ \A w \in VerifyCalls : VerifyKnows(w)'
  BY <1>0, VerifyMoves
<1>2. (WithdrawnKeyExpires /\ RotationIsPickedUp /\ ServedIsHolder)'
  BY <1>0, NoVerdictKnows
<1>3. Dated(cache.key, cache.at, FetchTimeout)'
  BY <1>0 DEF ProviderInv, Dated, Signing
<1>. QED
  BY <1>0, <1>1, <1>2, <1>3 DEF ProviderInv, ProviderType

(* The key in use is withdrawn, and whoever holds it got it before now.    *)
LEMMA RotateKeeps ==
  ASSUME ProviderInv, Rotate, UNCHANGED clock
  PROVE  ProviderInv'
<1>0. /\ ProviderType /\ withdrawn \in Seq(Nat) /\ clock \in Nat /\ FetchTimeout \in Nat
      /\ withdrawn' = Append(withdrawn, clock) /\ verify \in [VerifyCalls -> VerifyCall]
      /\ cache.key \in Nat /\ cache.at \in Nat
      /\ UNCHANGED <<clock, cache, lastForced, verify>>
  BY ProviderAssumption DEF ProviderInv, ProviderType, Rotate
<1>1. /\ withdrawn' \in Seq(Nat) /\ Signing' = Signing + 1 /\ Signing \in Nat
      /\ DOMAIN withdrawn' = 1..Signing /\ DOMAIN withdrawn = 1..(Signing - 1)
      /\ withdrawn'[Signing] = clock
      /\ \A i \in DOMAIN withdrawn : withdrawn'[i] = withdrawn[i] /\ withdrawn[i] \in Nat
  BY <1>0 DEF Signing
<1>2. ASSUME NEW key \in Nat, NEW at \in Nat, NEW late \in Nat, Dated(key, at, late)
      PROVE  /\ key <= Signing' /\ at <= clock'
             /\ key \in DOMAIN withdrawn' => at <= withdrawn'[key] + late
  BY <1>0, <1>1, <1>2 DEF Dated
<1>3. Dated(cache.key, cache.at, FetchTimeout)'
  BY <1>0, <1>2 DEF ProviderInv, Dated
<1>4. ASSUME NEW v \in VerifyCalls
      PROVE  VerifyKnows(v)'
  <2>1. VerifyKnows(v) /\ verify[v] \in VerifyCall
    BY <1>0 DEF ProviderInv
  <2>2. verify[v].key \in Nat /\ verify[v].reply \in Nat /\ verify[v].at \in Nat
    BY <2>1 DEF VerifyCall
  <2>3. verify[v].pc = "reply" => Dated(verify[v].reply, verify[v].at, 0)'
    BY <1>0, <1>2, <2>1, <2>2 DEF VerifyKnows, Dated
  <2>. QED
    BY <1>0, <1>1, <2>1, <2>2, <2>3 DEF VerifyKnows
<1>5. (WithdrawnKeyExpires /\ RotationIsPickedUp /\ ServedIsHolder)'
  BY NoVerdictKnows DEF Rotate, NoVerdict
<1>. QED
  BY <1>0, <1>1, <1>3, <1>4, <1>5 DEF ProviderInv, ProviderType

(* Time passes, but not past a reply that has to land.                     *)
LEMMA ElapseKeeps ==
  ASSUME ProviderInv, Advance, Elapse
  PROVE  ProviderInv'
<1>0. /\ ProviderType /\ clock \in Nat /\ clock' = clock + 1 /\ FetchTimeout \in Nat
      /\ verify \in [VerifyCalls -> VerifyCall] /\ cache.at \in Nat
      /\ Signing' = Signing /\ UNCHANGED <<withdrawn, cache, lastForced, verify>>
  BY ProviderAssumption DEF ProviderInv, ProviderType, Signing, Advance, Elapse
<1>1. Dated(cache.key, cache.at, FetchTimeout)'
  BY <1>0 DEF ProviderInv, Dated
<1>2. ASSUME NEW v \in VerifyCalls
      PROVE  VerifyKnows(v)'
  <2>1. VerifyKnows(v) /\ verify[v] \in VerifyCall
    BY <1>0 DEF ProviderInv
  <2>2. verify[v].at \in Nat
    BY <2>1 DEF VerifyCall
  <2>3. verify[v].pc = "reply" => clock < verify[v].at + FetchTimeout
    BY DEF Elapse
  <2>. QED
    BY <1>0, <2>1, <2>2, <2>3 DEF VerifyKnows, Dated
<1>3. (WithdrawnKeyExpires /\ RotationIsPickedUp /\ ServedIsHolder)'
  BY NoVerdictKnows DEF Elapse, NoVerdict
<1>. QED
  BY <1>0, <1>1, <1>2, <1>3 DEF ProviderInv, ProviderType

-----------------------------------------------------------------------------
(* The invariant and what follows from it                                  *)

(* No keys, and nobody to verify.                                          *)
LEMMA ProviderInitKnows ==
  ASSUME clock = 0, ProviderInit
  PROVE  ProviderInv
<1>1. Idle \in VerifyCall /\ Idle.pc = "idle" /\ Idle.key = 0
  BY FetchingTyped
<1>2. ProviderType
  BY <1>1 DEF ProviderInit, ProviderType
<1>3. Signing = 1 /\ DOMAIN withdrawn = {}
  BY DEF ProviderInit, Signing
<1>4. Dated(cache.key, cache.at, FetchTimeout)
  BY <1>3 DEF ProviderInit, Dated
<1>5. \A v \in VerifyCalls : VerifyKnows(v)
  BY <1>1, <1>3 DEF ProviderInit, VerifyKnows
<1>6. WithdrawnKeyExpires /\ RotationIsPickedUp /\ ServedIsHolder
  BY DEF ProviderInit, NoVerdict, WithdrawnKeyExpires, RotationIsPickedUp, ServedIsHolder
<1>. QED
  BY <1>2, <1>4, <1>5, <1>6 DEF ProviderInv

(* Every step keeps the invariant.                                         *)
LEMMA ProviderStepKnows ==
  ASSUME ProviderInv, [ProviderStep]_<<clock, providerVars>>
  PROVE  ProviderInv'
<1>1. CASE ProviderNext /\ UNCHANGED clock
  BY <1>1, BeginKeeps, DiscoverKeeps, ServeKeeps, LandKeeps, FailKeeps, RotateKeeps DEF ProviderNext
<1>2. CASE Advance /\ Elapse
  BY <1>2, ElapseKeeps
<1>3. CASE UNCHANGED <<clock, providerVars>>
  BY <1>3 DEF providerVars, ProviderInv, ProviderType, Dated, VerifyKnows, Signing,
     WithdrawnKeyExpires, RotationIsPickedUp, ServedIsHolder
<1>. QED
  BY <1>1, <1>2, <1>3 DEF ProviderStep

(* The inductive invariant holds of every behaviour, however the fetches   *)
(* overlap, fail and overtake one another (oidc.py:69-94, 201-268).       *)
THEOREM ProviderInvariant == ProviderSpec => []ProviderInv
BY ProviderInitKnows, ProviderStepKnows, PTL DEF ProviderSpec

(* A withdrawn key verifies nothing once the lifetime of the cached keys   *)
(* and the time a reply may take have passed (oidc.py:262-263).            *)
THEOREM WithdrawnKeysExpire == ProviderSpec => []WithdrawnKeyExpires
BY ProviderInvariant, PTL DEF ProviderInv

(* "a genuine key rotation is picked up by the first forced refresh, and   *)
(* waits at most one window if forged tokens used it up" (oidc.py:240-241).*)
THEOREM RotationsArePickedUp == ProviderSpec => []RotationIsPickedUp
BY ProviderInvariant, PTL DEF ProviderInv

(* Whoever enters a route is the one the token was issued to, as the kind  *)
(* of caller it is, and the token is not expired (callers.py:33-34, 69).   *)
THEOREM ServedAreHolders == ProviderSpec => []ServedIsHolder
BY ProviderInvariant, PTL DEF ProviderInv

-----------------------------------------------------------------------------
(* The limiter: amounts                                                    *)

(* Amounts are numbers, and a full bucket holds a token.                   *)
LEMMA Amounts ==
  /\ PerMinute \in Nat /\ Unit \in Nat \ {0} /\ Rate \in Nat \ {0}
  /\ MaxBuckets \in Nat /\ MaxBuckets >= 3
  /\ Capacity \in Nat /\ Unit <= Capacity
<1>1. /\ PerMinute \in Nat \ {0} /\ Unit \in Nat \ {0} /\ Rate \in Nat \ {0}
      /\ MaxBuckets \in Nat /\ MaxBuckets >= 3
  BY LimiterAssumption
<1>2. \A x, y \in Nat \ {0} : x * y \in Nat /\ y <= x * y
  OBVIOUS
<1>. QED
  BY <1>1, <1>2 DEF Capacity

(* A level is at most a full bucket and at least what is in the bucket.    *)
LEMMA Levels ==
  ASSUME clock \in Nat, NEW b \in Bucket, b.updated <= clock, b.tokens <= Capacity
  PROVE  Level(b, clock) \in Nat /\ Level(b, clock) <= Capacity /\ b.tokens <= Level(b, clock)
<1>1. b.tokens \in Nat /\ b.updated \in Nat /\ Capacity \in Nat /\ Rate \in Nat
  BY Amounts DEF Bucket
<1> DEFINE flown == (clock - b.updated) * Rate
<1>2. flown \in Nat
  <2>1. clock - b.updated \in Nat
    BY <1>1
  <2>2. \A x, y \in Nat : x * y \in Nat
    OBVIOUS
  <2>. QED
    BY <1>1, <2>1, <2>2
<1>3. Level(b, clock) = Least(Capacity, b.tokens + flown)
  BY DEF Level
<1> HIDE DEF flown
<1>. QED
  BY <1>1, <1>2, <1>3 DEF Least

(* A bucket that was just dated is worth what it holds.                    *)
LEMMA LevelNow ==
  ASSUME clock \in Nat, NEW x \in Nat, x <= Capacity
  PROVE  /\ [tokens |-> x, updated |-> clock] \in Bucket
         /\ Level([tokens |-> x, updated |-> clock], clock) = x
<1>1. Rate \in Nat /\ Capacity \in Nat
  BY Amounts
<1>2. (clock - clock) * Rate = 0
  BY <1>1
<1>. QED
  BY <1>1, <1>2 DEF Level, Least, Bucket

(* In one tick Rate flows in at most.                                      *)
LEMMA LevelLater ==
  ASSUME clock \in Nat, NEW b \in Bucket, b.updated <= clock, b.tokens <= Capacity
  PROVE  Level(b, clock + 1) <= Level(b, clock) + Rate
<1>1. b.tokens \in Nat /\ b.updated \in Nat /\ Capacity \in Nat /\ Rate \in Nat
  BY Amounts DEF Bucket
<1> DEFINE flown == (clock - b.updated) * Rate
<1>2. clock - b.updated \in Nat
  BY <1>1
<1>3. \A x, y \in Nat : x * y \in Nat /\ (x + 1) * y = x * y + y
  OBVIOUS
<1>4. flown \in Nat /\ ((clock - b.updated) + 1) * Rate = flown + Rate
  BY <1>1, <1>2, <1>3
<1>5. (clock + 1) - b.updated = (clock - b.updated) + 1
  BY <1>1
<1>6. /\ Level(b, clock) = Least(Capacity, b.tokens + flown)
      /\ Level(b, clock + 1) = Least(Capacity, b.tokens + (flown + Rate))
  BY <1>4, <1>5 DEF Level
<1> HIDE DEF flown
<1>. QED
  BY <1>1, <1>4, <1>6 DEF Least

(* What is left for a key is a number.                                     *)
LEMMA Balances ==
  ASSUME clock \in Nat, NEW t, WellFormed(t), NEW k
  PROVE  Balance(t, k) \in Nat /\ Balance(t, k) <= Capacity
BY Amounts, Levels DEF WellFormed, Balance

-----------------------------------------------------------------------------
(* Tables                                                                  *)

(* A smaller table.                                                        *)
LEMMA Smaller ==
  ASSUME NEW t, WellFormed(t), NEW S \in SUBSET DOMAIN t
  PROVE  /\ WellFormed(Restrict(t, S)) /\ DOMAIN Restrict(t, S) = S
         /\ \A k \in S : Restrict(t, S)[k] = t[k]
<1>1. DOMAIN Restrict(t, S) = S /\ \A k \in S : Restrict(t, S)[k] = t[k]
  BY DEF Restrict
<1>2. IsFiniteSet(S) /\ Cardinality(S) <= Cardinality(DOMAIN t)
  BY FS_Subset DEF WellFormed
<1>3. Restrict(t, S) \in [S -> Bucket]
  BY DEF Restrict, WellFormed
<1>4. Cardinality(S) <= MaxBuckets
  BY <1>2, FS_CardinalityType, Amounts DEF WellFormed
<1>. QED
  BY <1>1, <1>2, <1>3, <1>4 DEF WellFormed

(* A new bucket in a table that has room for it.                           *)
LEMMA Larger ==
  ASSUME clock \in Nat, NEW t, WellFormed(t), Cardinality(DOMAIN t) < MaxBuckets, NEW k \in Keys,
         NEW u, u = [j \in DOMAIN t \cup {k} |-> IF j = k THEN FullBucket(clock) ELSE t[j]]
  PROVE  /\ WellFormed(u) /\ DOMAIN u = DOMAIN t \cup {k}
         /\ u[k] = FullBucket(clock) /\ \A j \in DOMAIN t : j # k => u[j] = t[j]
<1>1. FullBucket(clock) \in Bucket /\ FullBucket(clock).updated = clock /\ FullBucket(clock).tokens = Capacity
  BY Amounts, LevelNow DEF FullBucket
<1>2. /\ DOMAIN u = DOMAIN t \cup {k}
      /\ u[k] = FullBucket(clock) /\ \A j \in DOMAIN t : j # k => u[j] = t[j]
  OBVIOUS
<1>3. IsFiniteSet(DOMAIN u) /\ Cardinality(DOMAIN u) <= MaxBuckets
  BY <1>2, FS_AddElement, FS_CardinalityType, Amounts DEF WellFormed
<1>4. u \in [DOMAIN u -> Bucket]
  BY <1>1, <1>2 DEF WellFormed
<1>5. \A j \in DOMAIN u : u[j].tokens <= Capacity /\ u[j].updated <= clock
  BY <1>1, <1>2, Amounts DEF WellFormed
<1>. QED
  BY <1>2, <1>3, <1>4, <1>5 DEF WellFormed

(* An eviction of a full table makes room, drops no bucket that is emptier *)
(* than one it keeps, and drops half of them if none was full.             *)
LEMMA Evictions ==
  ASSUME clock \in Nat, NEW t, WellFormed(t), Cardinality(DOMAIN t) >= MaxBuckets,
         NEW u \in Evicted(t, clock)
  PROVE  /\ WellFormed(u) /\ DOMAIN u \subseteq DOMAIN t /\ \A k \in DOMAIN u : u[k] = t[k]
         /\ Cardinality(DOMAIN u) < MaxBuckets
         /\ \A k \in DOMAIN t \ DOMAIN u, j \in DOMAIN u : Level(t[k], clock) >= Level(t[j], clock)
         /\ (\A k \in DOMAIN t : Level(t[k], clock) < Capacity)
              => Cardinality(DOMAIN u) = MaxBuckets - MaxBuckets \div 2
<1> DEFINE K == {k \in DOMAIN t : Level(t[k], clock) < Capacity}
           kept == Restrict(t, K)
           n == Cardinality(K)
<1>1. NotFull(t, clock) = kept
  BY DEF NotFull, RestrictDomain
<1>2. WellFormed(kept) /\ DOMAIN kept = K /\ \A k \in K : kept[k] = t[k]
  BY Smaller
<1>3. /\ IsFiniteSet(K) /\ n \in Nat /\ n <= MaxBuckets
      /\ K = DOMAIN t => n = MaxBuckets
  BY <1>2, FS_CardinalityType, Amounts DEF WellFormed
<1>4. \A k \in DOMAIN t : Level(t[k], clock) \in Nat /\ Level(t[k], clock) <= Capacity
  BY Levels DEF WellFormed
<1>5. \A k \in DOMAIN t \ K, j \in DOMAIN t : Level(t[k], clock) >= Level(t[j], clock)
  BY <1>4, Amounts
<1>6. CASE n < MaxBuckets
  <2>1. u = kept
    BY <1>1, <1>2, <1>6 DEF Evicted
  <2>2. K # DOMAIN t
    BY <1>3, <1>6, Amounts
  <2> HIDE DEF kept
  <2>. QED
    BY <1>2, <1>3, <1>5, <1>6, <2>1, <2>2
<1>7. CASE ~(n < MaxBuckets)
  <2>1. PICK D \in SUBSET K : /\ Cardinality(D) = n \div 2
                              /\ \A d \in D, k \in K \ D : ~Before(kept[k], kept[d], clock)
                              /\ u = Restrict(kept, K \ D)
    BY <1>1, <1>2, <1>7 DEF Evicted
  <2>2. WellFormed(u) /\ DOMAIN u = K \ D /\ \A k \in K \ D : u[k] = kept[k]
    BY <1>2, <2>1, Smaller
  <2>3. Cardinality(K \ D) = n - Cardinality(D)
    <3>1. K \cap D = D
      BY <2>1
    <3>. QED
      BY <1>3, <3>1, FS_Difference
  <2>4. n = MaxBuckets
    BY <1>3, <1>7, Amounts
  <2>5. /\ Cardinality(DOMAIN u) = MaxBuckets - MaxBuckets \div 2
        /\ Cardinality(DOMAIN u) < MaxBuckets
    BY <2>1, <2>2, <2>3, <2>4, Amounts
  <2>6. ASSUME NEW k \in D, NEW j \in K \ D
        PROVE  Level(t[k], clock) >= Level(t[j], clock)
    <3>1. ~(Level(t[j], clock) > Level(t[k], clock))
      BY <1>2, <2>1 DEF Before
    <3>. QED
      BY <1>4, <2>1, <3>1
  <2> HIDE DEF kept
  <2>. QED
    BY <1>2, <1>5, <2>1, <2>2, <2>5, <2>6
<1>. QED
  BY <1>6, <1>7

(* A bucket is opened: others may have to make room.                       *)
LEMMA Openings ==
  ASSUME clock \in Nat, NEW t, WellFormed(t), NEW k \in Keys, k \notin DOMAIN t,
         NEW u \in Opened(t, k, clock)
  PROVE  /\ WellFormed(u) /\ k \in DOMAIN u /\ DOMAIN u \subseteq DOMAIN t \cup {k}
         /\ u[k] = FullBucket(clock) /\ \A j \in DOMAIN u : j # k => u[j] = t[j]
         /\ \A d \in DOMAIN t \ DOMAIN u, j \in DOMAIN u \cap DOMAIN t :
              Level(t[d], clock) >= Level(t[j], clock)
         /\ (\A d \in DOMAIN t : Level(t[d], clock) < Capacity) =>
              \/ DOMAIN u = DOMAIN t \cup {k}
              \/ Cardinality(DOMAIN u \cap DOMAIN t) = MaxBuckets - MaxBuckets \div 2
<1>0. Cardinality(DOMAIN t) \in Nat /\ MaxBuckets \in Nat
  BY FS_CardinalityType, Amounts DEF WellFormed
<1>1. PICK w \in IF Cardinality(DOMAIN t) >= MaxBuckets THEN Evicted(t, clock) ELSE {t} :
        u = [j \in DOMAIN w \cup {k} |-> IF j = k THEN FullBucket(clock) ELSE w[j]]
  BY DEF Opened
<1>2. CASE Cardinality(DOMAIN t) >= MaxBuckets
  <2>1. /\ WellFormed(w) /\ DOMAIN w \subseteq DOMAIN t /\ \A j \in DOMAIN w : w[j] = t[j]
        /\ Cardinality(DOMAIN w) < MaxBuckets
        /\ \A d \in DOMAIN t \ DOMAIN w, j \in DOMAIN w : Level(t[d], clock) >= Level(t[j], clock)
        /\ (\A d \in DOMAIN t : Level(t[d], clock) < Capacity)
             => Cardinality(DOMAIN w) = MaxBuckets - MaxBuckets \div 2
    BY <1>1, <1>2, Evictions
  <2>2. /\ WellFormed(u) /\ DOMAIN u = DOMAIN w \cup {k}
        /\ u[k] = FullBucket(clock) /\ \A j \in DOMAIN w : j # k => u[j] = w[j]
    BY <1>1, <2>1, Larger
  <2>3. DOMAIN u \cap DOMAIN t = DOMAIN w
    BY <2>1, <2>2
  <2>. QED
    BY <2>1, <2>2, <2>3
<1>3. CASE ~(Cardinality(DOMAIN t) >= MaxBuckets)
  <2>1. w = t /\ Cardinality(DOMAIN t) < MaxBuckets
    BY <1>0, <1>1, <1>3
  <2>2. /\ WellFormed(u) /\ DOMAIN u = DOMAIN t \cup {k}
        /\ u[k] = FullBucket(clock) /\ \A j \in DOMAIN t : j # k => u[j] = t[j]
    BY <1>1, <2>1, Larger
  <2>. QED
    BY <2>2
<1>. QED
  BY <1>2, <1>3

(* A token is drawn from a bucket that was just dated.                     *)
LEMMA Draws ==
  ASSUME clock \in Nat, NEW t, WellFormed(t), NEW k \in DOMAIN t, t[k].updated = clock
  PROVE  /\ WellFormed(Drawn(t, k)) /\ DOMAIN Drawn(t, k) = DOMAIN t
         /\ \A j \in DOMAIN t : j # k => Drawn(t, k)[j] = t[j]
         /\ Drawable(t, k) \in BOOLEAN
         /\ Level(Drawn(t, k)[k], clock) + (IF Drawable(t, k) THEN Unit ELSE 0) = Level(t[k], clock)
<1> DEFINE x == t[k].tokens
           left == IF x >= Unit THEN x - Unit ELSE x
<1>1. /\ x \in Nat /\ x <= Capacity /\ Capacity \in Nat /\ Unit \in Nat
      /\ t[k] \in Bucket /\ t[k] = [tokens |-> x, updated |-> clock]
  BY Amounts DEF WellFormed, Bucket
<1>2. left \in Nat /\ left <= Capacity /\ left + (IF x >= Unit THEN Unit ELSE 0) = x
  BY <1>1
<1>3. Drawn(t, k) = [t EXCEPT ![k] = [tokens |-> left, updated |-> clock]]
  <2>0. t \in [DOMAIN t -> Bucket]
    BY DEF WellFormed
  <2>1. CASE x >= Unit
    <3>1. Drawn(t, k) = [t EXCEPT ![k] = [t[k] EXCEPT !.tokens = x - Unit]]
      BY <2>1 DEF Drawn, Drawable
    <3>2. [t[k] EXCEPT !.tokens = x - Unit] = [tokens |-> x - Unit, updated |-> clock]
      BY <1>1
    <3>. QED
      BY <2>1, <3>1, <3>2
  <2>2. CASE ~(x >= Unit)
    <3>1. Drawn(t, k) = t /\ left = x
      BY <2>2 DEF Drawn, Drawable
    <3> HIDE DEF x, left
    <3>2. t = [t EXCEPT ![k] = t[k]]
      BY <2>0
    <3>. QED
      BY <1>1, <3>1, <3>2
  <2>. QED
    BY <2>1, <2>2
<1>4. /\ Level(t[k], clock) = x /\ Level([tokens |-> left, updated |-> clock], clock) = left
      /\ [tokens |-> left, updated |-> clock] \in Bucket
  BY <1>1, <1>2, LevelNow
<1>5. Drawable(t, k) = (x >= Unit)
  BY DEF Drawable
<1> DEFINE b == [tokens |-> left, updated |-> clock]
<1>6. b.tokens = left /\ b.updated = clock
  OBVIOUS
<1>7. /\ DOMAIN Drawn(t, k) = DOMAIN t /\ Drawn(t, k)[k] = b
      /\ \A j \in DOMAIN t : j # k => Drawn(t, k)[j] = t[j]
  BY <1>3 DEF WellFormed
<1> HIDE DEF b, left, x
<1>8. WellFormed(Drawn(t, k))
  <2>1. Drawn(t, k) \in [DOMAIN t -> Bucket]
    BY <1>3, <1>4 DEF WellFormed, b
  <2>2. \A j \in DOMAIN t : Drawn(t, k)[j].tokens <= Capacity /\ Drawn(t, k)[j].updated <= clock
    BY <1>2, <1>6, <1>7 DEF WellFormed
  <2>. QED
    BY <1>7, <2>1, <2>2 DEF WellFormed
<1>9. Level(Drawn(t, k)[k], clock) = left
  BY <1>4, <1>7 DEF b
<1>10. Level(Drawn(t, k)[k], clock) + (IF Drawable(t, k) THEN Unit ELSE 0) = Level(t[k], clock)
  BY <1>2, <1>4, <1>5, <1>9
<1>. QED
  BY <1>5, <1>7, <1>8, <1>10

(* A bucket is refilled: it is worth what it was.                          *)
LEMMA Refills ==
  ASSUME clock \in Nat, NEW t, WellFormed(t), NEW k \in DOMAIN t
  PROVE  /\ WellFormed(Refilled(t, k, clock)) /\ DOMAIN Refilled(t, k, clock) = DOMAIN t
         /\ \A j \in DOMAIN t : j # k => Refilled(t, k, clock)[j] = t[j]
         /\ Refilled(t, k, clock)[k].updated = clock
         /\ Level(Refilled(t, k, clock)[k], clock) = Level(t[k], clock)
<1> DEFINE x == Level(t[k], clock)
           b == [tokens |-> x, updated |-> clock]
           u == Refilled(t, k, clock)
<1>1. x \in Nat /\ x <= Capacity
  BY Levels DEF WellFormed
<1>2. b \in Bucket /\ Level(b, clock) = x /\ b.tokens = x /\ b.updated = clock
  BY <1>1, LevelNow
<1>3. u = [t EXCEPT ![k] = b]
  BY DEF Refilled
<1> HIDE DEF x, b, u
<1>4. /\ DOMAIN u = DOMAIN t /\ u[k] = b /\ u \in [DOMAIN t -> Bucket]
      /\ \A j \in DOMAIN t : j # k => u[j] = t[j]
  BY <1>2, <1>3 DEF WellFormed
<1>5. \A j \in DOMAIN t : u[j].tokens <= Capacity /\ u[j].updated <= clock
  BY <1>1, <1>2, <1>4 DEF WellFormed
<1>6. WellFormed(u)
  BY <1>4, <1>5 DEF WellFormed
<1>. QED
  BY <1>2, <1>4, <1>6 DEF u, x

(* acquire: the key has a bucket afterwards, which is worth what it was    *)
(* but for the token that was given; others are as they were, or dropped.  *)
LEMMA Acquisitions ==
  ASSUME clock \in Nat, NEW t, WellFormed(t), NEW k \in Keys, NEW r \in Acquired(t, k, clock)
  PROVE  /\ WellFormed(r.table) /\ k \in DOMAIN r.table /\ DOMAIN r.table \subseteq DOMAIN t \cup {k}
         /\ \A j \in DOMAIN r.table : j # k => r.table[j] = t[j]
         /\ r.given \in BOOLEAN
         /\ Level(r.table[k], clock) + (IF r.given THEN Unit ELSE 0) = Balance(t, k)
         /\ \A d \in DOMAIN t \ DOMAIN r.table, j \in DOMAIN r.table \cap DOMAIN t :
              Level(t[d], clock) >= Level(t[j], clock)
         /\ (\A d \in DOMAIN t : Level(t[d], clock) < Capacity) =>
              \/ DOMAIN t \subseteq DOMAIN r.table
              \/ Cardinality(DOMAIN r.table \cap DOMAIN t) = MaxBuckets - MaxBuckets \div 2
<1>1. PICK u \in IF k \in DOMAIN t THEN {Refilled(t, k, clock)} ELSE Opened(t, k, clock) :
        r = [table |-> Drawn(u, k), given |-> Drawable(u, k)]
  BY DEF Acquired
<1>2. r.table = Drawn(u, k) /\ r.given = Drawable(u, k)
  BY <1>1
<1>3. CASE k \in DOMAIN t
  <2>1. u = Refilled(t, k, clock)
    BY <1>1, <1>3
  <2>2. /\ WellFormed(u) /\ DOMAIN u = DOMAIN t /\ \A j \in DOMAIN t : j # k => u[j] = t[j]
        /\ u[k].updated = clock /\ Level(u[k], clock) = Level(t[k], clock)
    BY <1>3, <2>1, Refills
  <2>3. /\ WellFormed(r.table) /\ DOMAIN r.table = DOMAIN t
        /\ \A j \in DOMAIN t : j # k => r.table[j] = u[j]
        /\ r.given \in BOOLEAN
        /\ Level(r.table[k], clock) + (IF r.given THEN Unit ELSE 0) = Level(u[k], clock)
    BY <1>2, <1>3, <2>2, Draws
  <2>. QED
    BY <1>3, <2>2, <2>3 DEF Balance
<1>4. CASE k \notin DOMAIN t
  <2>1. u \in Opened(t, k, clock)
    BY <1>1, <1>4
  <2>2. /\ WellFormed(u) /\ k \in DOMAIN u /\ DOMAIN u \subseteq DOMAIN t \cup {k}
        /\ u[k] = FullBucket(clock) /\ \A j \in DOMAIN u : j # k => u[j] = t[j]
        /\ \A d \in DOMAIN t \ DOMAIN u, j \in DOMAIN u \cap DOMAIN t :
             Level(t[d], clock) >= Level(t[j], clock)
        /\ (\A d \in DOMAIN t : Level(t[d], clock) < Capacity) =>
             \/ DOMAIN u = DOMAIN t \cup {k}
             \/ Cardinality(DOMAIN u \cap DOMAIN t) = MaxBuckets - MaxBuckets \div 2
    BY <1>4, <2>1, Openings
  <2>3. FullBucket(clock).updated = clock /\ Level(FullBucket(clock), clock) = Capacity
    BY Amounts, LevelNow DEF FullBucket
  <2>4. /\ WellFormed(r.table) /\ DOMAIN r.table = DOMAIN u
        /\ \A j \in DOMAIN u : j # k => r.table[j] = u[j]
        /\ r.given \in BOOLEAN
        /\ Level(r.table[k], clock) + (IF r.given THEN Unit ELSE 0) = Capacity
    BY <1>2, <2>2, <2>3, Draws
  <2>5. Balance(t, k) = Capacity
    BY <1>4 DEF Balance
  <2>. QED
    BY <2>2, <2>4, <2>5
<1>. QED
  BY <1>3, <1>4

-----------------------------------------------------------------------------
(* The budget                                                              *)

(* A table in which no key has more left than before, less what it was     *)
(* given.                                                                  *)
LEMMA BecomesKeeps ==
  ASSUME LimiterInv, UNCHANGED clock, NEW t, WellFormed(t), NEW given \in SUBSET Keys,
         \A k \in DOMAIN t :
           Balance(t, k) + (IF k \in given THEN Unit ELSE 0) <= Balance(buckets, k),
         Becomes(t, given)
  PROVE  LimiterInv'
<1> DEFINE owing == {k \in DOMAIN buckets : Level(buckets[k], clock) < Capacity} \cup given
<1>1. /\ clock \in Nat /\ clock' = clock /\ WellFormed(buckets) /\ drawn \in [Keys -> Nat]
      /\ lost \subseteq Keys /\ buckets' = t /\ lost' = lost \cup (owing \ DOMAIN t)
      /\ drawn' = [k \in Keys |->
           IF k \in lost' THEN 0 ELSE IF k \in given THEN drawn[k] + 1 ELSE drawn[k]]
  BY DEF LimiterInv, Becomes
<1>2. owing \subseteq Keys
  BY <1>1 DEF WellFormed
<1>3. lost' \subseteq Keys /\ drawn' \in [Keys -> Nat]
  BY <1>1, <1>2
<1>4. WellFormed(buckets)'
  BY <1>1 DEF WellFormed
<1>5. ASSUME NEW k \in Keys \ lost'
      PROVE  (drawn[k] * Unit + Balance(buckets, k) <= Capacity + clock * Rate)'
  <2>1. drawn[k] * Unit + Balance(buckets, k) <= Capacity + clock * Rate
    BY <1>1, <1>5 DEF LimiterInv
  <2>2. Balance(buckets, k)' = Balance(t, k)
    BY <1>1 DEF Balance
  <2>3. /\ Balance(t, k) \in Nat /\ Balance(buckets, k) \in Nat /\ Balance(buckets, k) <= Capacity
        /\ Capacity \in Nat /\ Unit \in Nat /\ drawn[k] \in Nat /\ Rate \in Nat
    BY <1>1, <1>5, Balances, Amounts
  <2>4. /\ k \in given => drawn'[k] = drawn[k] + 1
        /\ k \notin given => drawn'[k] = drawn[k]
    BY <1>1, <1>5
  <2>5. \A x, y \in Nat : x * y \in Nat /\ (x + 1) * y = x * y + y
    OBVIOUS
  <2>6. Balance(t, k) + (IF k \in given THEN Unit ELSE 0) <= Balance(buckets, k)
    <3>1. CASE k \in DOMAIN t
      BY <3>1
    <3>2. CASE k \notin DOMAIN t
      <4>1. k \notin owing
        BY <1>1, <1>5, <3>2
      <4>2. k \notin given /\ Balance(t, k) = Capacity
        BY <3>2, <4>1 DEF Balance
      <4>3. Balance(buckets, k) = Capacity
        <5>1. CASE k \in DOMAIN buckets
          <6>1. ~(Level(buckets[k], clock) < Capacity)
            BY <4>1, <5>1
          <6>2. Balance(buckets, k) = Level(buckets[k], clock)
            BY <5>1 DEF Balance
          <6>. QED
            BY <2>3, <6>1, <6>2
        <5>2. CASE k \notin DOMAIN buckets
          BY <5>2 DEF Balance
        <5>. QED
          BY <5>1, <5>2
      <4>. QED
        BY <2>3, <4>2, <4>3
    <3>. QED
      BY <3>1, <3>2
  <2> DEFINE spent == drawn[k] * Unit
             flown == clock * Rate
  <2>7. spent \in Nat /\ flown \in Nat /\ (drawn[k] + 1) * Unit = spent + Unit
    BY <1>1, <2>3, <2>5
  <2> HIDE DEF spent, flown
  <2>8. drawn'[k] * Unit + Balance(t, k) <= Capacity + flown
    <3>1. CASE k \in given
      <4>1. drawn'[k] * Unit = spent + Unit
        BY <2>4, <2>7, <3>1
      <4>2. Balance(t, k) + Unit <= Balance(buckets, k)
        BY <2>6, <3>1
      <4>3. spent + Balance(buckets, k) <= Capacity + flown
        BY <2>1 DEF spent, flown
      <4>. QED
        BY <2>3, <2>7, <4>1, <4>2, <4>3
    <3>2. CASE k \notin given
      <4>1. drawn'[k] * Unit = spent
        BY <2>4, <3>2 DEF spent
      <4>2. Balance(t, k) + 0 <= Balance(buckets, k)
        BY <2>6, <3>2
      <4>3. spent + Balance(buckets, k) <= Capacity + flown
        BY <2>1 DEF spent, flown
      <4>. QED
        BY <2>3, <2>7, <4>1, <4>2, <4>3
    <3>. QED
      BY <3>1, <3>2
  <2>. QED
    BY <1>1, <2>2, <2>8 DEF flown
<1>. QED
  BY <1>1, <1>3, <1>4, <1>5 DEF LimiterInv

-----------------------------------------------------------------------------
(* Requests                                                                *)

(* What a request may make of the table: nobody has more left than before, *)
(* less what it was given, and what is dropped was fuller than what is     *)
(* kept.                                                                   *)
Fair(t, given) ==
  /\ WellFormed(t)
  /\ \A k \in DOMAIN t : Balance(t, k) + (IF k \in given THEN Unit ELSE 0) <= Balance(buckets, k)
  /\ \A d \in DOMAIN buckets \ DOMAIN t, j \in DOMAIN buckets \cap DOMAIN t :
       Level(buckets[d], clock) >= Level(t[j], clock)
  /\ (/\ \A d \in DOMAIN buckets : Level(buckets[d], clock) < Capacity
      /\ DOMAIN buckets \ DOMAIN t # {})
       => DOMAIN buckets \cap DOMAIN t # {}

(* Half of a table that was full is two buckets at least.                  *)
LEMMA HalfATable ==
  ASSUME NEW S, IsFiniteSet(S), Cardinality(S) = MaxBuckets - MaxBuckets \div 2, NEW n
  PROVE  \E x \in S : x # n
<1>1. MaxBuckets - MaxBuckets \div 2 >= 2
  BY Amounts
<1>2. SUFFICES ASSUME S \subseteq {n} PROVE FALSE
  OBVIOUS
<1>3. IsFiniteSet({n}) /\ Cardinality({n}) = 1
  BY FS_Singleton
<1>4. Cardinality(S) <= 1
  BY <1>2, <1>3, FS_Subset
<1>. QED
  BY <1>1, <1>4, FS_CardinalityType, Amounts

(* A request that spends from one bucket.                                  *)
LEMMA KnownIsFair ==
  ASSUME LimiterInv, NEW k \in Keys, NEW r \in Acquired(buckets, k, clock)
  PROVE  Fair(r.table, IF r.given THEN {k} ELSE {})
<1> DEFINE t == r.table
           given == IF r.given THEN {k} ELSE {}
<1>0. clock \in Nat /\ WellFormed(buckets) /\ IsFiniteSet(DOMAIN buckets) /\ Unit \in Nat
  BY Amounts DEF LimiterInv, WellFormed
<1>1. /\ WellFormed(t) /\ k \in DOMAIN t /\ DOMAIN t \subseteq DOMAIN buckets \cup {k}
      /\ \A j \in DOMAIN t : j # k => t[j] = buckets[j]
      /\ Level(t[k], clock) + (IF r.given THEN Unit ELSE 0) = Balance(buckets, k)
      /\ \A d \in DOMAIN buckets \ DOMAIN t, j \in DOMAIN t \cap DOMAIN buckets :
           Level(buckets[d], clock) >= Level(buckets[j], clock)
      /\ (\A d \in DOMAIN buckets : Level(buckets[d], clock) < Capacity) =>
           \/ DOMAIN buckets \subseteq DOMAIN t
           \/ Cardinality(DOMAIN t \cap DOMAIN buckets) = MaxBuckets - MaxBuckets \div 2
  BY <1>0, Acquisitions
<1> HIDE DEF t
<1>2. ASSUME NEW j \in DOMAIN t
      PROVE  /\ Balance(t, j) + (IF j \in given THEN Unit ELSE 0) = Balance(buckets, j)
             /\ Balance(t, j) = Level(t[j], clock) /\ Balance(t, j) \in Nat
             /\ Balance(buckets, j) \in Nat /\ Balance(t, j) <= Balance(buckets, j)
  <2>1. Balance(t, j) = Level(t[j], clock) /\ Balance(t, j) \in Nat /\ Balance(buckets, j) \in Nat
    BY <1>0, <1>1, Balances DEF Balance
  <2>2. CASE j = k
    <3>1. (IF j \in given THEN Unit ELSE 0) = (IF r.given THEN Unit ELSE 0)
      BY <2>2
    <3>. QED
      BY <1>0, <1>1, <2>1, <2>2, <3>1
  <2>3. CASE j # k
    <3>1. j \notin given /\ j \in DOMAIN buckets /\ t[j] = buckets[j]
      BY <1>1, <2>3
    <3>2. Balance(buckets, j) = Level(t[j], clock)
      BY <3>1 DEF Balance
    <3>. QED
      BY <2>1, <3>1, <3>2
  <2>. QED
    BY <2>2, <2>3
<1>3. ASSUME NEW d \in DOMAIN buckets \ DOMAIN t, NEW j \in DOMAIN buckets \cap DOMAIN t
      PROVE  Level(buckets[d], clock) >= Level(t[j], clock)
  <2>1. Level(buckets[d], clock) >= Level(buckets[j], clock)
    BY <1>1
  <2>2. Balance(buckets, j) = Level(buckets[j], clock) /\ Balance(buckets, d) = Level(buckets[d], clock)
    BY DEF Balance
  <2>3. Balance(buckets, d) \in Nat
    BY <1>0, Balances
  <2>. QED
    BY <1>2, <2>1, <2>2, <2>3
<1>4. ASSUME \A d \in DOMAIN buckets : Level(buckets[d], clock) < Capacity,
             DOMAIN buckets \ DOMAIN t # {}
      PROVE  DOMAIN buckets \cap DOMAIN t # {}
  <2>1. Cardinality(DOMAIN t \cap DOMAIN buckets) = MaxBuckets - MaxBuckets \div 2
    BY <1>1, <1>4
  <2>2. IsFiniteSet(DOMAIN t \cap DOMAIN buckets)
    BY <1>0, FS_Subset
  <2>3. \E x \in DOMAIN t \cap DOMAIN buckets : x # k
    BY <2>1, <2>2, HalfATable
  <2>. QED
    BY <2>3
<1>5. \A j \in DOMAIN t : Balance(t, j) + (IF j \in given THEN Unit ELSE 0) <= Balance(buckets, j)
  BY <1>2
<1> HIDE DEF given
<1>6. Fair(t, given)
  BY <1>1, <1>3, <1>4, <1>5 DEF Fair
<1>. QED
  BY <1>6 DEF t, given

(* A bearer seen for the first time, let in by its address.                *)
LEMMA UnknownIsFair ==
  ASSUME LimiterInv, NEW n \in Keys, NEW k \in Keys, k # n, k \notin DOMAIN buckets,
         NEW r \in Acquired(buckets, n, clock), r.given, NEW u \in Opened(r.table, k, clock)
  PROVE  Fair(Drawn(u, k), {n, k})
<1> DEFINE s == r.table
           t == Drawn(u, k)
           B == DOMAIN buckets
<1>0. /\ clock \in Nat /\ WellFormed(buckets) /\ IsFiniteSet(B)
      /\ Unit \in Nat \ {0} /\ Capacity \in Nat /\ Unit <= Capacity
  BY Amounts DEF LimiterInv, WellFormed
<1>1. /\ WellFormed(s) /\ n \in DOMAIN s /\ DOMAIN s \subseteq B \cup {n}
      /\ \A j \in DOMAIN s : j # n => s[j] = buckets[j]
      /\ Level(s[n], clock) + Unit = Balance(buckets, n)
      /\ \A d \in B \ DOMAIN s, j \in DOMAIN s \cap B :
           Level(buckets[d], clock) >= Level(buckets[j], clock)
      /\ (\A d \in B : Level(buckets[d], clock) < Capacity) =>
           \/ B \subseteq DOMAIN s
           \/ Cardinality(DOMAIN s \cap B) = MaxBuckets - MaxBuckets \div 2
  <2>1. Level(s[n], clock) + (IF r.given THEN Unit ELSE 0) = Balance(buckets, n)
    BY <1>0, Acquisitions
  <2>2. Level(s[n], clock) + Unit = Balance(buckets, n)
    BY <2>1
  <2>. QED
    BY <1>0, <2>2, Acquisitions
<1>2. k \notin DOMAIN s
  BY <1>1
<1>3. /\ WellFormed(u) /\ k \in DOMAIN u /\ DOMAIN u \subseteq DOMAIN s \cup {k}
      /\ u[k] = FullBucket(clock) /\ \A j \in DOMAIN u : j # k => u[j] = s[j]
      /\ \A d \in DOMAIN s \ DOMAIN u, j \in DOMAIN u \cap DOMAIN s :
           Level(s[d], clock) >= Level(s[j], clock)
      /\ (\A d \in DOMAIN s : Level(s[d], clock) < Capacity) =>
           \/ DOMAIN u = DOMAIN s \cup {k}
           \/ Cardinality(DOMAIN u \cap DOMAIN s) = MaxBuckets - MaxBuckets \div 2
  BY <1>0, <1>1, <1>2, Openings
<1>4. /\ FullBucket(clock).updated = clock /\ FullBucket(clock).tokens = Capacity
      /\ Level(FullBucket(clock), clock) = Capacity
  BY <1>0, LevelNow DEF FullBucket
<1>5. /\ WellFormed(t) /\ DOMAIN t = DOMAIN u /\ \A j \in DOMAIN u : j # k => t[j] = u[j]
      /\ Level(t[k], clock) + Unit = Capacity
  <2>1. Drawable(u, k)
    BY <1>0, <1>3, <1>4 DEF Drawable
  <2>. QED
    BY <1>0, <1>3, <1>4, <2>1, Draws
<1> HIDE DEF s, t
<1>6. \A j \in DOMAIN t : j # k => j \in DOMAIN s /\ t[j] = s[j]
  BY <1>3, <1>5
<1>7. \A j \in B : Balance(buckets, j) = Level(buckets[j], clock) /\ Balance(buckets, j) \in Nat
  BY <1>0, Balances DEF Balance
<1>8. ASSUME NEW j \in DOMAIN s
      PROVE  /\ Level(s[j], clock) + (IF j = n THEN Unit ELSE 0) = Balance(buckets, j)
             /\ Level(s[j], clock) \in Nat /\ Balance(buckets, j) \in Nat
             /\ Level(s[j], clock) <= Balance(buckets, j)
  <2>1. /\ Balance(s, j) = Level(s[j], clock) /\ Balance(s, j) \in Nat
        /\ Balance(buckets, j) \in Nat
    BY <1>0, <1>1, Balances DEF Balance
  <2>2. CASE j = n
    BY <1>0, <1>1, <2>1, <2>2
  <2>3. CASE j # n
    <3>1. Level(s[j], clock) = Balance(buckets, j)
      BY <1>1, <1>7, <2>3
    <3>. QED
      BY <2>1, <2>3, <3>1
  <2>. QED
    BY <2>2, <2>3
<1>9. ASSUME NEW j \in DOMAIN t
      PROVE  Balance(t, j) + (IF j \in {n, k} THEN Unit ELSE 0) <= Balance(buckets, j)
  <2>1. Balance(t, j) = Level(t[j], clock)
    BY DEF Balance
  <2>2. CASE j = k
    <3>1. Balance(buckets, j) = Capacity
      BY <2>2 DEF Balance
    <3>. QED
      BY <1>0, <1>5, <2>1, <2>2, <3>1
  <2>3. CASE j # k
    <3>1. j \in DOMAIN s /\ t[j] = s[j]
      BY <1>6, <2>3
    <3>2. (IF j \in {n, k} THEN Unit ELSE 0) = (IF j = n THEN Unit ELSE 0)
      BY <2>3
    <3>. QED
      BY <1>8, <2>1, <3>1, <3>2
  <2>. QED
    BY <2>2, <2>3
<1>10. ASSUME NEW d \in B \ DOMAIN t, NEW j \in B \cap DOMAIN t
       PROVE  Level(buckets[d], clock) >= Level(t[j], clock)
  <2>1. j # k /\ j \in DOMAIN s /\ t[j] = s[j] /\ j \in DOMAIN u
    BY <1>5, <1>6
  <2>2. CASE d \in DOMAIN s
    <3>1. Level(s[d], clock) >= Level(s[j], clock)
      BY <1>3, <1>5, <2>1, <2>2
    <3>. QED
      BY <1>7, <1>8, <2>1, <2>2, <3>1
  <2>3. CASE d \notin DOMAIN s
    <3>1. Level(buckets[d], clock) >= Level(buckets[j], clock)
      BY <1>1, <2>1, <2>3
    <3>. QED
      BY <1>7, <1>8, <2>1, <3>1
  <2>. QED
    BY <2>2, <2>3
<1>11. ASSUME \A d \in B : Level(buckets[d], clock) < Capacity, B \ DOMAIN t # {}
       PROVE  B \cap DOMAIN t # {}
  <2>1. \A d \in DOMAIN s : Level(s[d], clock) < Capacity
    <3> TAKE d \in DOMAIN s
    <3>1. CASE d = n
      <4>1. Balance(buckets, n) <= Capacity
        BY <1>0, Balances
      <4>. QED
        BY <1>0, <1>1, <1>8, <3>1, <4>1
    <3>2. CASE d # n
      BY <1>1, <1>11, <3>2
    <3>. QED
      BY <3>1, <3>2
  <2>2. CASE DOMAIN u = DOMAIN s \cup {k}
    <3>1. Cardinality(DOMAIN s \cap B) = MaxBuckets - MaxBuckets \div 2
      BY <1>1, <1>5, <1>11, <2>2
    <3>2. IsFiniteSet(DOMAIN s \cap B)
      BY <1>0, FS_Subset
    <3>3. \E x \in DOMAIN s \cap B : x # n
      BY <3>1, <3>2, HalfATable
    <3>. QED
      BY <1>5, <2>2, <3>3
  <2>3. CASE Cardinality(DOMAIN u \cap DOMAIN s) = MaxBuckets - MaxBuckets \div 2
    <3>1. IsFiniteSet(DOMAIN u \cap DOMAIN s)
      BY <1>1, FS_Subset DEF WellFormed
    <3>2. \E x \in DOMAIN u \cap DOMAIN s : x # n
      BY <2>3, <3>1, HalfATable
    <3>. QED
      BY <1>1, <1>5, <3>2
  <2>. QED
    BY <1>3, <2>1, <2>2, <2>3
<1>12. Fair(t, {n, k})
  BY <1>5, <1>9, <1>10, <1>11 DEF Fair
<1>. QED
  BY <1>12 DEF t

(* Every request is fair.                                                  *)
LEMMA RequestIsFair ==
  ASSUME LimiterInv, LimiterNext
  PROVE  \E t : \E given \in SUBSET Keys : Fair(t, given) /\ Becomes(t, given)
<1>1. PICK b \in Bearers \cup {NoBearer}, a \in Addresses : Known(b, a) \/ Unknown(b, a)
  BY DEF LimiterNext
<1>2. <<"addr", a>> \in Keys /\ <<"new", a>> \in Keys /\ (b # NoBearer => <<"bearer", b>> \in Keys)
  BY DEF Keys
<1>3. CASE Known(b, a)
  <2> DEFINE k == IF b = NoBearer THEN <<"addr", a>> ELSE <<"bearer", b>>
  <2>1. k \in Keys
    BY <1>2
  <2>2. PICK r \in Acquired(buckets, k, clock) : Becomes(r.table, IF r.given THEN {k} ELSE {})
    BY <1>3 DEF Known
  <2> HIDE DEF k
  <2>3. Fair(r.table, IF r.given THEN {k} ELSE {})
    BY <2>1, KnownIsFair
  <2>4. (IF r.given THEN {k} ELSE {}) \in SUBSET Keys
    BY <2>1
  <2>. QED
    BY <2>2, <2>3, <2>4
<1>4. CASE Unknown(b, a)
  <2> DEFINE n == <<"new", a>>
             k == <<"bearer", b>>
  <2>1. n \in Keys /\ k \in Keys /\ k # n /\ k \notin DOMAIN buckets
    BY <1>2, <1>4 DEF Unknown
  <2>2. PICK r \in Acquired(buckets, n, clock) :
          IF r.given THEN \E t \in Opened(r.table, k, clock) : Becomes(Drawn(t, k), {n, k})
                     ELSE Becomes(r.table, {})
    BY <1>4 DEF Unknown
  <2> HIDE DEF n, k
  <2>3. CASE r.given
    <3>1. PICK u \in Opened(r.table, k, clock) : Becomes(Drawn(u, k), {n, k})
      BY <2>2, <2>3
    <3>2. Fair(Drawn(u, k), {n, k})
      BY <2>1, <2>3, UnknownIsFair
    <3>3. {n, k} \in SUBSET Keys
      BY <2>1
    <3>. QED
      BY <3>1, <3>2, <3>3
  <2>4. CASE ~r.given
    <3>1. Fair(r.table, {})
      BY <2>1, <2>4, KnownIsFair
    <3>2. Becomes(r.table, {})
      BY <2>2, <2>4
    <3>. QED
      BY <3>1, <3>2
  <2>. QED
    BY <2>3, <2>4
<1>. QED
  BY <1>1, <1>3, <1>4

(* Time passes: what flows in is in the budget.                            *)
LEMMA AdvanceKeeps ==
  ASSUME LimiterInv, Advance, UNCHANGED limiterVars
  PROVE  LimiterInv'
<1>1. /\ clock \in Nat /\ clock' = clock + 1 /\ WellFormed(buckets) /\ drawn \in [Keys -> Nat]
      /\ UNCHANGED <<buckets, drawn, lost>> /\ lost \subseteq Keys
      /\ Rate \in Nat /\ Capacity \in Nat /\ Unit \in Nat
  BY Amounts DEF LimiterInv, Advance, limiterVars
<1>2. \A k \in DOMAIN buckets : /\ buckets[k] \in Bucket /\ buckets[k].updated \in Nat
                                /\ buckets[k].updated <= clock /\ buckets[k].tokens <= Capacity
  BY <1>1 DEF WellFormed, Bucket
<1>3. \A k \in DOMAIN buckets : buckets[k].updated <= clock'
  BY <1>1, <1>2
<1>4. WellFormed(buckets)'
  BY <1>1, <1>3 DEF WellFormed
<1>5. ASSUME NEW k \in Keys \ lost
      PROVE  (drawn[k] * Unit + Balance(buckets, k) <= Capacity + clock * Rate)'
  <2>1. Balance(buckets, k) \in Nat
    BY <1>1, Balances
  <2>2. Balance(buckets, k)' \in Nat
    <3>1. CASE k \in DOMAIN buckets
      <4>1. Balance(buckets, k)' = Level(buckets[k], clock)'
        BY <1>1, <3>1 DEF Balance
      <4>2. Level(buckets[k], clock)' \in Nat
        <5>1. clock' \in Nat /\ buckets'[k] \in Bucket
          BY <1>1, <1>2, <3>1
        <5>2. \A x, y \in Nat : x * y \in Nat
          OBVIOUS
        <5>3. clock' - buckets'[k].updated \in Nat /\ buckets'[k].tokens \in Nat
          BY <1>1, <1>2, <3>1, <5>1 DEF Bucket
        <5>4. (clock' - buckets'[k].updated) * Rate \in Nat
          BY <1>1, <5>2, <5>3
        <5>. QED
          BY <1>1, <5>3, <5>4 DEF Level, Least, Capacity
      <4>. QED
        BY <4>1, <4>2
    <3>2. CASE k \notin DOMAIN buckets
      BY <1>1, <3>2 DEF Balance, Capacity
    <3>. QED
      BY <3>1, <3>2
  <2>3. Balance(buckets, k)' <= Balance(buckets, k) + Rate
    <3>1. CASE k \in DOMAIN buckets
      <4>1. Level(buckets[k], clock + 1) <= Level(buckets[k], clock) + Rate
        BY <1>1, <1>2, <3>1, LevelLater
      <4>2. Balance(buckets, k)' = Level(buckets[k], clock + 1)
        BY <1>1, <3>1 DEF Balance, Level, Capacity
      <4>. QED
        BY <3>1, <4>1, <4>2 DEF Balance
    <3>2. CASE k \notin DOMAIN buckets
      <4>1. Balance(buckets, k)' = Capacity /\ Balance(buckets, k) = Capacity
        BY <1>1, <3>2 DEF Balance, Capacity
      <4>. QED
        BY <1>1, <4>1
    <3>. QED
      BY <3>1, <3>2
  <2>4. \A x, y \in Nat : x * y \in Nat /\ (x + 1) * y = x * y + y
    OBVIOUS
  <2> DEFINE spent == drawn[k] * Unit
             flown == clock * Rate
  <2>5. spent \in Nat /\ flown \in Nat /\ (clock + 1) * Rate = flown + Rate
    BY <1>1, <2>4
  <2>6. spent + Balance(buckets, k) <= Capacity + flown
    BY DEF LimiterInv
  <2> HIDE DEF spent, flown
  <2>7. spent + Balance(buckets, k)' <= Capacity + (flown + Rate)
    BY <1>1, <2>1, <2>2, <2>3, <2>5, <2>6
  <2>. QED
    BY <1>1, <2>5, <2>7 DEF spent, Capacity
<1>. QED
  BY <1>1, <1>4, <1>5 DEF LimiterInv

(* An empty table, and nothing drawn.                                      *)
LEMMA LimiterStarts == clock = 0 /\ LimiterInit => LimiterInv
<1> SUFFICES ASSUME clock = 0, LimiterInit PROVE LimiterInv
  OBVIOUS
<1>1. /\ clock \in Nat /\ DOMAIN buckets = {} /\ buckets = << >> /\ lost = {}
      /\ drawn \in [Keys -> Nat] /\ \A k \in Keys : drawn[k] = 0
  BY DEF LimiterInit
<1>2. IsFiniteSet({}) /\ Cardinality({}) = 0
  BY FS_EmptySet
<1>3. buckets \in [DOMAIN buckets -> Bucket]
  BY <1>1
<1>4. WellFormed(buckets)
  BY <1>1, <1>2, <1>3, Amounts DEF WellFormed
<1>5. \A k \in Keys : drawn[k] * Unit + Balance(buckets, k) <= Capacity + clock * Rate
  <2> TAKE k \in Keys
  <2>1. Balance(buckets, k) = Capacity
    BY <1>1 DEF Balance
  <2>2. drawn[k] * Unit = 0 /\ clock * Rate = 0
    BY <1>1, Amounts
  <2>. QED
    BY <2>1, <2>2, Amounts
<1>. QED
  BY <1>1, <1>4, <1>5 DEF LimiterInv

-----------------------------------------------------------------------------
(* For any number of clients, any budget and any cap of three or more      *)
(* buckets, what a key has drawn and what it may still draw were in a full *)
(* bucket or have flowed in (ratelimit.py:45-111).                         *)
THEOREM LimiterInvariant == LimiterSpec => []LimiterInv
<1>1. clock = 0 /\ LimiterInit => LimiterInv
  BY LimiterStarts
<1>2. ASSUME LimiterInv, LimiterStep
      PROVE  LimiterInv'
  <2>1. CASE LimiterNext /\ UNCHANGED clock
    <3>1. PICK t : \E given \in SUBSET Keys : Fair(t, given) /\ Becomes(t, given)
      BY <1>2, <2>1, RequestIsFair
    <3>. QED
      BY <1>2, <2>1, <3>1, BecomesKeeps DEF Fair
  <2>2. CASE Advance /\ UNCHANGED limiterVars
    BY <1>2, <2>2, AdvanceKeeps
  <2>. QED
    BY <1>2, <2>1, <2>2 DEF LimiterStep
<1>3. ASSUME LimiterInv, UNCHANGED <<clock, limiterVars>>
      PROVE  LimiterInv'
  BY <1>3 DEF LimiterInv, limiterVars, WellFormed, Balance, Level, Least, Capacity
<1>. QED
  BY <1>1, <1>2, <1>3, PTL DEF LimiterSpec

(* WithinBudget of RateLimiter: "per_minute requests per key, bursting up  *)
(* to per_minute" (ratelimit.py:37), for every client whose bucket was     *)
(* never dropped early, and a table that never grows beyond its cap.       *)
THEOREM BudgetIsKept == LimiterSpec => []WithinBudget
<1>1. ASSUME LimiterInv PROVE WithinBudget
  <2>1. Cardinality(DOMAIN buckets) <= MaxBuckets
    BY <1>1 DEF LimiterInv, WellFormed
  <2>2. ASSUME NEW k \in Keys \ lost
        PROVE  drawn[k] * Unit <= Capacity + clock * Rate
    <3>1. /\ drawn[k] \in Nat /\ Unit \in Nat /\ clock \in Nat /\ Rate \in Nat /\ Capacity \in Nat
          /\ Balance(buckets, k) \in Nat
      BY <1>1, Balances, Amounts DEF LimiterInv
    <3> DEFINE spent == drawn[k] * Unit
               flown == clock * Rate
    <3>2. \A x, y \in Nat : x * y \in Nat
      OBVIOUS
    <3>3. spent \in Nat /\ flown \in Nat /\ spent + Balance(buckets, k) <= Capacity + flown
      BY <1>1, <3>1, <3>2 DEF LimiterInv
    <3> HIDE DEF spent, flown
    <3>4. spent <= Capacity + flown
      BY <3>1, <3>3
    <3>. QED
      BY <3>4 DEF spent, flown
  <2>. QED
    BY <2>1, <2>2 DEF WithinBudget
<1>. QED
  BY <1>1, LimiterInvariant, PTL

(* SparesExhausted of RateLimiter: "an exhausted bucket is exactly the     *)
(* state the limiter exists to remember. Never every bucket at once"       *)
(* (ratelimit.py:98-100), for every step, also one that evicts twice.      *)
THEOREM ExhaustedAreSpared == LimiterSpec => SparesExhausted
<1> DEFINE Spares ==
      LET dropped == DOMAIN buckets \ DOMAIN buckets'
          kept    == DOMAIN buckets \cap DOMAIN buckets'
      IN  /\ \A k \in dropped, j \in kept : Level(buckets[k], clock) >= Level(buckets'[j], clock)
          /\ dropped # {} /\ (\A k \in DOMAIN buckets : Level(buckets[k], clock) < Capacity)
               => kept # {}
<1>1. ASSUME LimiterInv, LimiterStep
      PROVE  Spares \/ UNCHANGED limiterVars
  <2>1. CASE LimiterNext /\ UNCHANGED clock
    <3>1. PICK t : \E given \in SUBSET Keys : Fair(t, given) /\ Becomes(t, given)
      BY <1>1, <2>1, RequestIsFair
    <3>2. buckets' = t
      BY <3>1 DEF Becomes
    <3>. QED
      BY <3>1, <3>2 DEF Fair
  <2>. QED
    BY <1>1, <2>1 DEF LimiterStep
<1>2. ASSUME UNCHANGED <<clock, limiterVars>>
      PROVE  UNCHANGED limiterVars
  BY <1>2
<1>. QED
  BY <1>1, <1>2, LimiterInvariant, PTL DEF LimiterSpec, SparesExhausted

-----------------------------------------------------------------------------
(* The start of replicas: SchemaInStep is not inductive.  That no two      *)
(* replicas apply one migration rests on who holds the advisory lock, and  *)
(* that a plan made after the lock was taken is still right when a         *)
(* migration is applied.                                                   *)

BootPcs == {"start", "ledger", "apply", "release", "serving", "failed", "conflict"}

BootType ==
  /\ applied \in Seq(Nat)
  /\ boot \in [Replicas -> [pc : BootPcs, next : Nat]]

(* Between Acquire and Release a replica holds the lock, alone.            *)
HoldsLock == \A r \in Replicas : boot[r].pc \in {"ledger", "apply", "release"} => lock = {r}

(* The next migration of a plan is the first that is not applied.          *)
PlanIsCurrent == \A r \in Replicas : boot[r].pc = "apply" => boot[r].next = Len(applied) + 1

BootInv == BootType /\ HoldsLock /\ PlanIsCurrent /\ SchemaInStep

bootVars == <<applied, lock, boot>>

-----------------------------------------------------------------------------
(* Everybody starts, and nothing is applied.                               *)
LEMMA InitBootInv == StartupInit => BootInv
<1> SUFFICES ASSUME StartupInit PROVE BootInv
  OBVIOUS
<1>1. applied = << >> /\ boot = [r \in Replicas |-> [pc |-> "start", next |-> 1]]
  BY DEF StartupInit
<1>2. BootType
  BY <1>1 DEF BootType, BootPcs
<1>3. \A r \in Replicas : boot[r].pc = "start"
  BY <1>1
<1> QED
  BY <1>1, <1>2, <1>3 DEF BootInv, HoldsLock, PlanIsCurrent, SchemaInStep

(* A step that leaves the ledger, the lock and the replicas alone.         *)
LEMMA SameBoot == BootInv /\ UNCHANGED bootVars => BootInv'
  BY DEF BootInv, bootVars, BootType, HoldsLock, PlanIsCurrent, SchemaInStep, Version

(* The lock was free, so that nobody was between Acquire and Release.      *)
LEMMA AcquireBootInv == ASSUME BootInv, NEW r \in Replicas, Acquire(r) PROVE BootInv'
<1>1. boot' = [boot EXCEPT ![r].pc = "ledger"] /\ applied' = applied /\ lock' = {r} /\ lock = {}
  BY DEF Acquire, Step
<1>2. BootType'
  BY <1>1 DEF BootInv, BootType, BootPcs
<1>3. \A q \in Replicas \ {r} : boot'[q] = boot[q] /\ boot[q].pc \notin {"ledger", "apply", "release"}
  BY <1>1 DEF BootInv, BootType, HoldsLock
<1>4. boot'[r].pc = "ledger"
  BY <1>1 DEF BootInv, BootType
<1> QED
  BY <1>1, <1>2, <1>3, <1>4 DEF BootInv, HoldsLock, PlanIsCurrent, SchemaInStep, Version

(* The plan is made under the lock, from the ledger as it is.              *)
LEMMA PlanBootInv == ASSUME BootInv, NEW r \in Replicas, Plan(r) PROVE BootInv'
<1> DEFINE to == [pc   |-> IF Version > Latest[r] THEN "release" ELSE "apply",
                  next |-> Version + 1]
<1>1. boot' = [boot EXCEPT ![r] = to] /\ UNCHANGED <<applied, lock>> /\ boot[r].pc = "ledger"
  BY DEF Plan
<1>2. to \in [pc : BootPcs, next : Nat] /\ to.pc \in {"release", "apply"} /\ to.next = Len(applied) + 1
  BY DEF BootInv, BootType, BootPcs, Version
<1>3. BootType'
  BY <1>1, <1>2 DEF BootInv, BootType
<1>4. boot'[r] = to /\ \A q \in Replicas \ {r} : boot'[q] = boot[q]
  BY <1>1 DEF BootInv, BootType
<1>5. lock = {r}
  BY <1>1 DEF BootInv, HoldsLock
<1> HIDE DEF to
<1>6. HoldsLock'
  BY <1>1, <1>4, <1>5 DEF BootInv, HoldsLock
<1>7. PlanIsCurrent'
  BY <1>1, <1>2, <1>4 DEF BootInv, PlanIsCurrent
<1>8. SchemaInStep'
  BY <1>1, <1>2, <1>4 DEF BootInv, SchemaInStep, Version
<1> QED
  BY <1>3, <1>6, <1>7, <1>8 DEF BootInv

(* The one step that changes the ledger: whoever applies holds the lock,   *)
(* so that no other replica has a plan, and the version is the next one.   *)
LEMMA ApplyBootInv == ASSUME BootInv, NEW r \in Replicas, Apply(r) PROVE BootInv'
<1>1. boot[r].pc = "apply" /\ lock' = lock /\ lock = {r} /\ boot[r].next = Len(applied) + 1
  BY DEF Apply, BootInv, HoldsLock, PlanIsCurrent
<1>2. \A i \in DOMAIN applied : applied[i] # boot[r].next
  BY <1>1 DEF BootInv, BootType, SchemaInStep
<1>3. \A q \in Replicas \ {r} : boot[q].pc \notin {"ledger", "apply", "release"}
  BY <1>1 DEF BootInv, HoldsLock
<1>4. CASE applied' = Append(applied, boot[r].next) /\ boot' = [boot EXCEPT ![r].next = @ + 1]
  <2>1. BootType'
    BY <1>1, <1>4 DEF BootInv, BootType
  <2>2. /\ boot'[r].pc = "apply" /\ boot'[r].next = boot[r].next + 1
        /\ \A q \in Replicas \ {r} : boot'[q] = boot[q]
    BY <1>1, <1>4 DEF BootInv, BootType
  <2>3. /\ Len(applied') = Len(applied) + 1
        /\ DOMAIN applied' = 1..(Len(applied) + 1)
        /\ \A i \in DOMAIN applied' : applied'[i] = i
    BY <1>1, <1>4 DEF BootInv, BootType, SchemaInStep
  <2>4. HoldsLock' /\ PlanIsCurrent'
    BY <1>1, <1>3, <2>2, <2>3 DEF HoldsLock, PlanIsCurrent
  <2>5. \A q \in Replicas : boot'[q].pc = "serving" => boot[q].pc = "serving"
    BY <2>2
  <2>6. \A q \in Replicas : boot'[q].pc # "conflict"
    BY <2>2 DEF BootInv, SchemaInStep
  <2>7. \A q \in Replicas : boot'[q].pc = "serving" => Len(applied') >= Latest[q]
    BY <2>3, <2>5, StartupAssumption DEF BootInv, BootType, SchemaInStep, Version
  <2> QED
    BY <2>1, <2>3, <2>4, <2>6, <2>7 DEF BootInv, SchemaInStep, Version
<1>5. CASE applied' = applied /\ boot' = [boot EXCEPT ![r].pc = "release"]
  <2>1. BootType'
    BY <1>5 DEF BootInv, BootType, BootPcs
  <2>2. boot'[r].pc = "release" /\ \A q \in Replicas \ {r} : boot'[q] = boot[q]
    BY <1>5 DEF BootInv, BootType
  <2> QED
    BY <1>1, <1>3, <1>5, <2>1, <2>2 DEF BootInv, HoldsLock, PlanIsCurrent, SchemaInStep, Version
<1> QED
  BY <1>2, <1>4, <1>5 DEF Apply

(* A plan carried out to its end has taken the ledger to the last version  *)
(* this code knows.                                                        *)
LEMMA ReleaseBootInv == ASSUME BootInv, NEW r \in Replicas, Release(r) PROVE BootInv'
<1> DEFINE to == IF boot[r].pc = "apply" THEN "serving" ELSE "failed"
<1>1. /\ boot' = [boot EXCEPT ![r].pc = to] /\ applied' = applied /\ lock' = lock \ {r}
      /\ boot[r].pc \in {"release", "apply"}
      /\ boot[r].pc = "apply" => boot[r].next > Latest[r]
  BY DEF Release, Step
<1>2. \A q \in Replicas \ {r} : boot[q].pc \notin {"ledger", "apply", "release"}
  BY <1>1 DEF BootInv, HoldsLock
<1>3. BootType'
  BY <1>1 DEF BootInv, BootType, BootPcs
<1>4. boot'[r].pc = to /\ \A q \in Replicas \ {r} : boot'[q] = boot[q]
  BY <1>1 DEF BootInv, BootType
<1>5. to = "serving" => Len(applied) >= Latest[r]
  <2>1. CASE boot[r].pc = "apply"
    <3>1. boot[r].next = Len(applied) + 1 /\ boot[r].next > Latest[r]
      BY <1>1, <2>1 DEF BootInv, PlanIsCurrent
    <3>2. Len(applied) \in Nat /\ Latest[r] \in Nat
      BY StartupAssumption DEF BootInv, BootType
    <3> QED
      BY <3>1, <3>2
  <2>2. CASE boot[r].pc # "apply"
    BY <2>2
  <2> QED
    BY <2>1, <2>2
<1> QED
  BY <1>1, <1>2, <1>3, <1>4, <1>5 DEF BootInv, HoldsLock, PlanIsCurrent, SchemaInStep, Version

(* A replica that does not migrate serves an exact schema only.            *)
LEMMA AssertCurrentBootInv == ASSUME BootInv, NEW r \in Replicas, AssertCurrent(r) PROVE BootInv'
<1> DEFINE to == IF Version = Latest[r] THEN "serving" ELSE "failed"
<1>1. boot' = [boot EXCEPT ![r].pc = to] /\ UNCHANGED <<applied, lock>>
  BY DEF AssertCurrent, Step
<1>2. BootType'
  BY <1>1 DEF BootInv, BootType, BootPcs
<1>3. boot'[r].pc = to /\ \A q \in Replicas \ {r} : boot'[q] = boot[q]
  BY <1>1 DEF BootInv, BootType
<1>4. to = "serving" => Len(applied) >= Latest[r]
  BY StartupAssumption DEF BootInv, BootType, Version
<1> QED
  BY <1>1, <1>2, <1>3, <1>4 DEF BootInv, HoldsLock, PlanIsCurrent, SchemaInStep, Version

(* A death gives the lock back, and only the dead replica held it.         *)
LEMMA CrashBootInv == ASSUME BootInv, NEW r \in Replicas, Crash(r) PROVE BootInv'
<1> DEFINE to == [pc |-> "start", next |-> 1]
<1>1. boot' = [boot EXCEPT ![r] = to] /\ applied' = applied /\ lock' = lock \ {r}
  BY DEF Crash
<1>2. to \in [pc : BootPcs, next : Nat] /\ to.pc = "start"
  BY DEF BootPcs
<1>3. boot'[r] = to /\ \A q \in Replicas \ {r} : boot'[q] = boot[q]
  BY <1>1 DEF BootInv, BootType
<1> HIDE DEF to
<1>4. BootType'
  BY <1>1, <1>2 DEF BootInv, BootType
<1>5. HoldsLock'
  BY <1>1, <1>2, <1>3 DEF BootInv, HoldsLock
<1> QED
  BY <1>1, <1>2, <1>3, <1>4, <1>5 DEF BootInv, PlanIsCurrent, SchemaInStep, Version

-----------------------------------------------------------------------------
(* No step breaks the invariant; the readiness probe only reads.           *)
LEMMA NextBootInv == BootInv /\ [StartupNext]_startupVars => BootInv'
<1> SUFFICES ASSUME BootInv, [StartupNext]_startupVars PROVE BootInv'
  OBVIOUS
<1>1. CASE \E r \in Replicas : Acquire(r) \/ Plan(r) \/ Apply(r) \/ Release(r)
                               \/ AssertCurrent(r) \/ Crash(r)
  BY <1>1, AcquireBootInv, PlanBootInv, ApplyBootInv, ReleaseBootInv, AssertCurrentBootInv, CrashBootInv
<1>2. CASE ProbeStep
  <2>1. UNCHANGED bootVars
    BY <1>2 DEF ProbeStep, Ask, Check, Toggle, bootVars
  <2> QED
    BY <2>1, SameBoot
<1>3. CASE UNCHANGED startupVars
  BY <1>3, SameBoot DEF startupVars, bootVars
<1> QED
  BY <1>1, <1>2, <1>3 DEF StartupNext, BootStep

(* "Apply every pending migration, one transaction each, serialized across *)
(* processes" (migrations.py:86), for any replicas, releases and deaths:   *)
(* every migration is applied once and in order, no replica trips over     *)
(* another, and none serves before the schema has all it knows.            *)
THEOREM ReplicasMigrateInStep == StartupSpec => []SchemaInStep
<1>1. StartupInit => BootInv
  BY InitBootInv
<1>2. BootInv /\ [StartupNext]_startupVars => BootInv'
  BY NextBootInv
<1>3. BootInv => SchemaInStep
  BY DEF BootInv
<1> QED
  BY <1>1, <1>2, <1>3, PTL DEF StartupSpec

-----------------------------------------------------------------------------
(* The readiness probe                                                     *)

(* Each part of a check that went well was good at some instant since the  *)
(* last answer, and an answer ends the check.                              *)
ProbeKnows ==
  /\ up \subseteq {"openfga", "connectors"} /\ seen \subseteq Dependencies
  /\ answer # {} => probe.pc = "done"
  /\ probe.pc = "openfga" /\ probe.ok = TRUE => "schema" \in seen
  /\ probe.pc = "connectors" /\ probe.ok = TRUE => {"schema", "openfga"} \subseteq seen
  /\ ReadyWasSeen

(* No answer is not the answer ready.                                      *)
LEMMA EmptyIsNotReady == {} # {TRUE}
BY Zenon

(* A step that gives no answer keeps what was seen.                        *)
LEMMA SeenGrows ==
  ASSUME ProbeKnows, StartupNext
  PROVE  /\ probe.pc # "done" => seen \subseteq seen'
         /\ Good' \subseteq seen'
         /\ up' \subseteq {"openfga", "connectors"} => seen' \subseteq Dependencies
BY DEF ProbeKnows, StartupNext, Good, Dependencies

(* A check asks its three questions one after the other.                   *)
LEMMA CheckProbe ==
  ASSUME ProbeKnows, StartupNext, Check
  PROVE  ProbeKnows'
<1>0. /\ up' = up /\ applied' = applied /\ up' \subseteq {"openfga", "connectors"}
      /\ up \subseteq seen' /\ seen' \subseteq Dependencies
      /\ Version = Latest[Probed] => "schema" \in seen'
      /\ probe.pc # "done" => seen \subseteq seen'
  <2>1. up' = up /\ applied' = applied /\ up \subseteq {"openfga", "connectors"}
    BY DEF Check, ProbeKnows
  <2>. QED
    BY <2>1, SeenGrows DEF Good, Version
<1>1. CASE probe.pc = "postgres"
  <2>1. PICK reached \in BOOLEAN :
          /\ probe' = [pc |-> "openfga", ok |-> reached /\ Version = Latest[Probed]]
          /\ answer' = {}
    BY <1>1 DEF Check
  <2>2. probe'.pc = "openfga" /\ (probe'.ok = TRUE => Version = Latest[Probed])
    BY <2>1
  <2>. QED
    BY <1>0, <2>1, <2>2 DEF ProbeKnows, ReadyWasSeen
<1>2. CASE probe.pc = "openfga"
  <2>1. probe' = [pc |-> "connectors", ok |-> probe.ok /\ "openfga" \in up] /\ answer' = {}
    BY <1>2 DEF Check
  <2>2. probe'.pc = "connectors" /\ (probe'.ok = TRUE => probe.ok = TRUE /\ "openfga" \in up)
    BY <2>1
  <2>. QED
    BY <1>0, <1>2, <2>1, <2>2 DEF ProbeKnows, ReadyWasSeen
<1>3. CASE probe.pc = "connectors"
  <2>1. /\ probe' = [pc |-> "done", ok |-> probe.ok /\ "connectors" \in up]
        /\ answer' = {probe'.ok}
    BY <1>3 DEF Check
  <2>2. probe'.pc = "done" /\ (probe'.ok = TRUE => probe.ok = TRUE /\ "connectors" \in up)
    BY <2>1
  <2>3. answer' = {TRUE} => seen' = Dependencies
    BY <1>0, <1>3, <2>1, <2>2 DEF ProbeKnows, Dependencies
  <2>. QED
    BY <1>0, <2>2, <2>3 DEF ProbeKnows, ReadyWasSeen
<1>. QED
  BY <1>1, <1>2, <1>3 DEF Check

(* No step breaks what is known of the probe.                              *)
LEMMA NextProbe ==
  ASSUME ProbeKnows, [StartupNext]_startupVars
  PROVE  ProbeKnows'
<1>1. CASE StartupNext /\ BootStep
  <2>1. /\ up' = up /\ answer' = {}
        /\ probe' = probe \/ probe' = [pc |-> "idle", ok |-> FALSE]
    BY <1>1 DEF BootStep
  <2>2. ReadyWasSeen'
    BY <2>1, EmptyIsNotReady DEF ReadyWasSeen
  <2>3. CASE probe' = probe
    BY <1>1, <2>1, <2>2, <2>3, SeenGrows DEF ProbeKnows
  <2>4. CASE probe' = [pc |-> "idle", ok |-> FALSE]
    <3>1. probe'.pc = "idle"
      BY <2>4
    <3>. QED
      BY <1>1, <2>1, <2>2, <3>1, SeenGrows DEF ProbeKnows
  <2>. QED
    BY <2>1, <2>3, <2>4
<1>2. CASE StartupNext /\ Ask
  <2>1. up' = up /\ answer' = {} /\ probe'.pc = "postgres"
    BY <1>2 DEF Ask
  <2>. QED
    BY <1>2, <2>1, SeenGrows DEF ProbeKnows, ReadyWasSeen
<1>3. CASE StartupNext /\ Check
  BY <1>3, CheckProbe
<1>4. CASE StartupNext /\ \E d \in {"openfga", "connectors"} : Toggle(d)
  <2>1. PICK d \in {"openfga", "connectors"} : Toggle(d)
    BY <1>4
  <2>2. up' \subseteq {"openfga", "connectors"} /\ answer' = {} /\ probe' = probe
    BY <2>1 DEF Toggle, ProbeKnows
  <2>. QED
    BY <1>4, <2>2, SeenGrows DEF ProbeKnows, ReadyWasSeen
<1>5. CASE UNCHANGED startupVars
  BY <1>5 DEF startupVars, ProbeKnows, ReadyWasSeen
<1>. QED
  BY <1>1, <1>2, <1>3, <1>4, <1>5 DEF StartupNext, ProbeStep

(* "every dependency the next decision needs, checked now" (system.py:42): *)
(* a probe is told ready only if since the answer before each dependency   *)
(* was good at some instant, however replicas migrate and die meanwhile.   *)
THEOREM ReadyIsSeen == StartupSpec => []ReadyWasSeen
<1>1. ASSUME StartupInit PROVE ProbeKnows
  <2>1. /\ up = {"openfga", "connectors"} /\ seen = up /\ answer = {} /\ probe.pc = "idle"
    BY <1>1 DEF StartupInit
  <2>. QED
    BY <2>1, EmptyIsNotReady DEF ProbeKnows, ReadyWasSeen, Dependencies
<1>2. ProbeKnows => ReadyWasSeen
  BY DEF ProbeKnows
<1>. QED
  BY <1>1, <1>2, NextProbe, PTL DEF StartupSpec
=============================================================================
