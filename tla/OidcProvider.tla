---------------------------- MODULE OidcProvider ----------------------------
(***************************************************************************)
(* Verification of the tokens of the identity provider                     *)
(* (identity/oidc.py): the cached key set, its age, the refresh that a     *)
(* token nobody can verify forces, and what becomes of the claims.         *)
(*                                                                         *)
(* A coroutine gives way only where it waits for HTTP, so that a step goes *)
(* from one such wait to the next.  The identity provider is external: it  *)
(* signs with one key at a time, numbered from 1, publishes that key alone *)
(* and may rotate it at any instant.  Key 0 stands for any other key: a    *)
(* forged token.  A reply that does not land within FetchTimeout of being  *)
(* served is a failed fetch (timeout_seconds of the HTTP client).          *)
(***************************************************************************)
EXTENDS Timing, Callers, Sequences

CONSTANTS
  VerifyCalls,   \* concurrent verifications; an identifier is used again
  MaxKey,        \* bound on the rotations
  KeyTTL,        \* jwks_ttl
  MinRefresh,    \* jwks_min_refresh
  FetchTimeout,
  IssuedTokens   \* [holder, claims, detection]: what the provider signs, for whom

ASSUME ProviderAssumption ==
  /\ {MaxKey, KeyTTL, MinRefresh, FetchTimeout} \subseteq Nat \ {0}
  /\ "" \notin References

(* The deployment tells the provider to put a marker into the tokens of    *)
(* clients, or relies on the user names of service accounts.               *)
HasMarker(t) ==
  /\ t.claims.marker # ""
  /\ t.detection.value = AnyValue \/ t.detection.value = t.claims.marker

HasServiceName(t) == t.detection.fallback /\ t.claims.username.service

(* What the provider is trusted with: a client's token carries the marker, *)
(* and names the client or nobody, or is one of its service account; a     *)
(* human's carries no marker, and bears no user name of the service        *)
(* account of the client the human logs in through.                        *)
ASSUME IssuerAssumption ==
  \A t \in IssuedTokens :
    \/ \E client \in References :
         /\ t.holder = [kind |-> "agent", ref |-> client]
         /\ \/ HasMarker(t) /\ {t.claims.id, t.claims.azp} \subseteq {"", client}
            \/ /\ ~HasMarker(t) /\ HasServiceName(t)
               /\ t.claims.username.name = client /\ t.claims.azp = client
    \/ /\ t.holder = User(t.claims.subject) /\ ~HasMarker(t)
       /\ HasServiceName(t) => t.claims.username.name # t.claims.azp

VARIABLES
  withdrawn,   \* when each key was withdrawn, the signing key excepted
  metadata,    \* _metadata is there
  cache,       \* _keys and _keys_fetched_at
  lastForced,  \* _last_forced_at: no time or one
  verify,      \* the verifications
  verdict      \* how the last step ended a verification, if it did

providerVars == <<withdrawn, metadata, cache, lastForced, verify, verdict>>

Signing == Len(withdrawn) + 1

NoVerdict == [outcome |-> "none"]
Idle      == [pc |-> "idle", key |-> 0, forced |-> FALSE, reply |-> 0, at |-> 0]

-----------------------------------------------------------------------------
(* The key set                                                             *)

(* _key_set, when it need not fetch                                        *)
Fresh == cache.key # 0 /\ clock - cache.at < KeyTTL

(* _may_force_refresh                                                      *)
MayForceRefresh == \A t \in lastForced : clock - t >= MinRefresh

(* _key_set, when it fetches: discovery comes first, once per process.     *)
Fetching(key, forced) ==
  [Idle EXCEPT !.pc = IF metadata THEN "get" ELSE "discover", !.key = key, !.forced = forced]

(* _validate_claims: the audience and the issuer, and not expired.         *)
ClaimsValid(claims) == claims.ours /\ claims.exp >= clock /\ claims.subject \in References

Ends(v, how) == verify' = [verify EXCEPT ![v] = Idle] /\ verdict' = how

(* The signature is good: the claims are read, the caller is named, and    *)
(* the route admits it or does not.  Any token of its holder may be the    *)
(* one that carries the signature.                                         *)
Accept(v, key) ==
  /\ \E t \in IssuedTokens, route \in {"agent", "user"} :
       LET caller == CallerOf(t.claims, t.detection) IN
       Ends(v, [outcome |-> IF ClaimsValid(t.claims) /\ Admits(route, caller)
                            THEN "served" ELSE "denied",
                key |-> key, caller |-> caller, holder |-> t.holder, exp |-> t.claims.exp])
  /\ UNCHANGED lastForced

(* The signature is not good: one forced refresh, if none began lately.    *)
Reject(v, key, forced) ==
  IF ~forced /\ MayForceRefresh
  THEN /\ lastForced' = {clock}
       /\ verify' = [verify EXCEPT ![v] = Fetching(key, TRUE)]
       /\ verdict' = NoVerdict
  ELSE /\ Ends(v, [outcome |-> "refused", key |-> key, forced |-> forced])
       /\ UNCHANGED lastForced

(* _decode, and verify_user_token from there on                            *)
Decode(v, key, keys, forced) ==
  IF key # 0 /\ key = keys THEN Accept(v, key) ELSE Reject(v, key, forced)

-----------------------------------------------------------------------------
(* Steps of a verification                                                 *)

(* verify_user_token                                                       *)
Begin(v, key) ==
  /\ verify[v].pc = "idle"
  /\ IF Fresh
     THEN Decode(v, key, cache.key, FALSE)
     ELSE /\ verify' = [verify EXCEPT ![v] = Fetching(key, FALSE)]
          /\ verdict' = NoVerdict
          /\ UNCHANGED lastForced
  /\ UNCHANGED <<withdrawn, metadata, cache>>

(* _discover                                                               *)
Discover(v) ==
  /\ verify[v].pc = "discover"
  /\ metadata' = TRUE
  /\ verify' = [verify EXCEPT ![v].pc = "get"]
  /\ verdict' = NoVerdict
  /\ UNCHANGED <<withdrawn, cache, lastForced>>

(* The provider answers a key request.                                     *)
Serve(v) ==
  /\ verify[v].pc = "get"
  /\ verify' = [verify EXCEPT ![v] = [@ EXCEPT !.pc = "reply", !.reply = Signing, !.at = clock]]
  /\ verdict' = NoVerdict
  /\ UNCHANGED <<withdrawn, metadata, cache, lastForced>>

(* Mutant: a forced refresh is content with keys that are still fresh.     *)
MutantLand(v) ==
  /\ verify[v].pc = "reply"
  /\ LET s == verify[v] IN
     IF s.forced /\ Fresh
     THEN cache' = cache /\ Decode(v, s.key, cache.key, TRUE)
     ELSE cache' = [key |-> s.reply, at |-> clock] /\ Decode(v, s.key, s.reply, s.forced)
  /\ UNCHANGED <<withdrawn, metadata>>

(* The reply lands, maybe after one that was served later: the keys are    *)
(* kept, dated from now, and the token is decoded with them.               *)
Land(v) ==
  /\ verify[v].pc = "reply"
  /\ cache' = [key |-> verify[v].reply, at |-> clock]
  /\ Decode(v, verify[v].key, verify[v].reply, verify[v].forced)
  /\ UNCHANGED <<withdrawn, metadata>>

(* Mutant: when the provider is down the keys of the last fetch will do.   *)
MutantFail(v) ==
  /\ verify[v].pc \in {"discover", "get", "reply"}
  /\ Decode(v, verify[v].key, cache.key, TRUE)
  /\ UNCHANGED <<withdrawn, metadata, cache>>

(* Discovery or the fetch fails: the token is refused, whatever is cached. *)
Fail(v) ==
  /\ verify[v].pc \in {"discover", "get", "reply"}
  /\ Ends(v, [outcome |-> "failed"])
  /\ UNCHANGED <<withdrawn, metadata, cache, lastForced>>

-----------------------------------------------------------------------------
(* The world                                                               *)

Rotate ==
  /\ Signing < MaxKey
  /\ withdrawn' = Append(withdrawn, clock)
  /\ verdict' = NoVerdict
  /\ UNCHANGED <<metadata, cache, lastForced, verify>>

(* Time does not pass a reply that has to land or to be given up.          *)
Elapse ==
  /\ \A v \in VerifyCalls : verify[v].pc = "reply" => clock < verify[v].at + FetchTimeout
  /\ verdict' = NoVerdict
  /\ UNCHANGED <<withdrawn, metadata, cache, lastForced, verify>>

ProviderInit ==
  /\ withdrawn = << >>
  /\ metadata = FALSE
  /\ cache = [key |-> 0, at |-> 0]
  /\ lastForced = {}
  /\ verify = [v \in VerifyCalls |-> Idle]
  /\ verdict = NoVerdict

ProviderNext ==
  \/ \E v \in VerifyCalls : \/ \E key \in 0..Signing : Begin(v, key)
                            \/ Discover(v) \/ Serve(v) \/ Land(v) \/ Fail(v)
  \/ Rotate

ProviderStep ==
  \/ ProviderNext /\ UNCHANGED clock
  \/ Advance /\ Elapse

ProviderSpec == clock = 0 /\ ProviderInit /\ [][ProviderStep]_<<clock, providerVars>>

-----------------------------------------------------------------------------
(* Properties                                                              *)

(* A key the provider has withdrawn verifies nothing once KeyTTL and the   *)
(* time a reply may be under way have passed, although two fetches may     *)
(* land out of order and put the old keys back with a new date             *)
(* (oidc.py:262-263), and although fetches may fail.                       *)
WithdrawnKeyExpires ==
  verdict.outcome \in {"served", "denied"} /\ verdict.key < Signing =>
    clock < withdrawn[verdict.key] + KeyTTL + FetchTimeout

(* "a genuine key rotation is picked up by the first forced refresh, and   *)
(* waits at most one window if forged tokens used it up" (oidc.py:240-241):*)
(* a token signed with the key in use is refused for its signature only    *)
(* while some other call's forced refresh is less than MinRefresh old, and *)
(* never by the call whose own refresh it was.                             *)
RotationIsPickedUp ==
  verdict.outcome = "refused" /\ verdict.key = Signing =>
    ~verdict.forced /\ \E t \in lastForced : clock < t + MinRefresh

(* A route is entered by the one the token was issued to, as the kind of   *)
(* caller it is (callers.py:33-34, 69; T20): a human cannot pass for an    *)
(* agent by a user name, nor an agent for a human by leaving out its name, *)
(* and an expired token enters nowhere.                                    *)
ServedIsHolder ==
  verdict.outcome = "served" => verdict.caller = verdict.holder /\ verdict.exp >= clock

-----------------------------------------------------------------------------
(* The inductive invariant.                                                *)

VerifyCall == [pc : {"idle", "discover", "get", "reply"}, key : Nat, forced : BOOLEAN,
               reply : Nat, at : Nat]

ProviderType ==
  /\ clock \in Nat
  /\ withdrawn \in Seq(Nat)
  /\ cache \in [key : Nat, at : Nat]
  /\ lastForced \in SUBSET Nat
  /\ verify \in [VerifyCalls -> VerifyCall]

(* A key set dated at is out of date for late at most.                     *)
Dated(key, at, late) ==
  /\ key <= Signing /\ at <= clock
  /\ key \in DOMAIN withdrawn => at <= withdrawn[key] + late

(* A reply under way holds the key that was in use when it was served, and *)
(* no older one than the token's.                                          *)
VerifyKnows(v) ==
  /\ verify[v].key <= Signing
  /\ verify[v].pc = "reply" =>
       /\ Dated(verify[v].reply, verify[v].at, 0)
       /\ clock <= verify[v].at + FetchTimeout
       /\ verify[v].key <= verify[v].reply

ProviderInv ==
  /\ ProviderType
  /\ Dated(cache.key, cache.at, FetchTimeout)
  /\ \A v \in VerifyCalls : VerifyKnows(v)
  /\ WithdrawnKeyExpires /\ RotationIsPickedUp /\ ServedIsHolder
=============================================================================
