----------------------------- MODULE RateLimiter -----------------------------
(***************************************************************************)
(* The token buckets in front of the routes (api/ratelimit.py).            *)
(*                                                                         *)
(* acquire_request awaits nothing, so that one request is one step.  A     *)
(* level counts units, of which Unit make a token and Rate flow in per     *)
(* tick; floating point rounding is left out.  buckets is the table, a     *)
(* function on the keys that have a bucket.                                *)
(*                                                                         *)
(* An operator that may evict returns the set of tables it can lead to:    *)
(* buckets of equal level and age are dropped in the order the dictionary  *)
(* happens to have.                                                        *)
(***************************************************************************)
EXTENDS Timing, FiniteSets, Functions

CONSTANTS
  Addresses, Bearers,
  NoBearer,          \* a request without an authorization header
  PerMinute,         \* tokens in a full bucket
  Unit, Rate,
  MaxBuckets

ASSUME LimiterAssumption ==
  /\ {PerMinute, Unit, Rate, MaxBuckets} \subseteq Nat \ {0}
  /\ MaxBuckets >= 3
  /\ NoBearer \notin Bearers

VARIABLES
  buckets,
  drawn,    \* history: tokens each key was given
  lost      \* history: the keys whose bucket was dropped before it was full

limiterVars == <<buckets, drawn, lost>>

Keys == {"addr", "new"} \X Addresses \cup {"bearer"} \X Bearers

Capacity == PerMinute * Unit

Least(a, b) == IF a <= b THEN a ELSE b

-----------------------------------------------------------------------------
(* _refill, and level of _evict                                            *)
Level(b, now) == Least(Capacity, b.tokens + (now - b.updated) * Rate)

(* TokenBucket                                                             *)
FullBucket(now) == [tokens |-> Capacity, updated |-> now]

(* Mutant: the fullest buckets are kept.                                   *)
MutantBefore(b, c, now) ==
  \/ Level(b, now) < Level(c, now)
  \/ Level(b, now) = Level(c, now) /\ b.updated < c.updated

(* The order of _evict: most tokens first, then the oldest.                *)
Before(b, c, now) ==
  \/ Level(b, now) > Level(c, now)
  \/ Level(b, now) = Level(c, now) /\ b.updated < c.updated

(* Buckets that are full carry no state worth keeping.                      *)
NotFull(t, now) == RestrictDomain(t, LAMBDA k : Level(t[k], now) < Capacity)

(* _evict: the full buckets, and if the table is still full the first half *)
(* in that order.                                                          *)
Evicted(t, now) ==
  LET kept == NotFull(t, now)
      half == Cardinality(DOMAIN kept) \div 2
  IN  IF Cardinality(DOMAIN kept) < MaxBuckets THEN {kept}
      ELSE {Restrict(kept, DOMAIN kept \ dropped) :
              dropped \in {D \in SUBSET DOMAIN kept :
                /\ Cardinality(D) = half
                /\ \A d \in D, k \in DOMAIN kept \ D : ~Before(kept[k], kept[d], now)}}

(* _open                                                                   *)
Opened(t, k, now) ==
  {[j \in DOMAIN u \cup {k} |-> IF j = k THEN FullBucket(now) ELSE u[j]] :
     u \in IF Cardinality(DOMAIN t) >= MaxBuckets THEN Evicted(t, now) ELSE {t}}

Refilled(t, k, now) ==
  [t EXCEPT ![k] = [tokens |-> Level(t[k], now), updated |-> now]]

(* _draw                                                                   *)
Drawable(t, k) == t[k].tokens >= Unit
Drawn(t, k)    == IF Drawable(t, k) THEN [t EXCEPT ![k].tokens = @ - Unit] ELSE t

(* acquire: the tables after it, with whether the token was given.         *)
Acquired(t, k, now) ==
  {[table |-> Drawn(u, k), given |-> Drawable(u, k)] :
     u \in IF k \in DOMAIN t THEN {Refilled(t, k, now)} ELSE Opened(t, k, now)}

-----------------------------------------------------------------------------
(* Requests                                                                *)

(* The table becomes t after the keys of given were given a token each.    *)
(* The history stops counting for a key whose bucket went while something  *)
(* was still owed on it.                                                   *)
Becomes(t, given) ==
  LET owing == {k \in DOMAIN buckets : Level(buckets[k], clock) < Capacity} \cup given
  IN  /\ buckets' = t
      /\ lost' = lost \cup (owing \ DOMAIN t)
      /\ drawn' = [k \in Keys |->
           IF k \in lost' THEN 0 ELSE IF k \in given THEN drawn[k] + 1 ELSE drawn[k]]

(* A request that spends from one bucket only: no bearer, or a bearer that *)
(* has a bucket.                                                           *)
Known(b, a) ==
  /\ b = NoBearer \/ <<"bearer", b>> \in DOMAIN buckets
  /\ LET k == IF b = NoBearer THEN <<"addr", a>> ELSE <<"bearer", b>> IN
     \E r \in Acquired(buckets, k, clock) : Becomes(r.table, IF r.given THEN {k} ELSE {})

(* Mutant: a bearer seen for the first time is let through although the    *)
(* address has no token left.                                              *)
MutantUnknown(b, a) ==
  /\ b # NoBearer /\ <<"bearer", b>> \notin DOMAIN buckets
  /\ \E r \in Acquired(buckets, <<"new", a>>, clock) :
       \E t \in Opened(r.table, <<"bearer", b>>, clock) :
         Becomes(Drawn(t, <<"bearer", b>>), {<<"new", a>>, <<"bearer", b>>})

(* A bearer seen for the first time draws on the address before it gets a  *)
(* bucket; turned away, it gets none.                                      *)
Unknown(b, a) ==
  /\ b # NoBearer /\ <<"bearer", b>> \notin DOMAIN buckets
  /\ LET n == <<"new", a>>
         k == <<"bearer", b>>
     IN  \E r \in Acquired(buckets, n, clock) :
           IF r.given
           THEN \E t \in Opened(r.table, k, clock) : Becomes(Drawn(t, k), {n, k})
           ELSE Becomes(r.table, {})

LimiterInit ==
  /\ buckets = << >>
  /\ drawn = [k \in Keys |-> 0]
  /\ lost = {}

(* acquire_request                                                         *)
LimiterNext ==
  \E b \in Bearers \cup {NoBearer}, a \in Addresses : Known(b, a) \/ Unknown(b, a)

LimiterStep ==
  \/ LimiterNext /\ UNCHANGED clock
  \/ Advance /\ UNCHANGED limiterVars

LimiterSpec == clock = 0 /\ LimiterInit /\ [][LimiterStep]_<<clock, limiterVars>>

-----------------------------------------------------------------------------
(* Properties                                                              *)

(* "per_minute requests per key, bursting up to per_minute"                *)
(* (ratelimit.py:37): whatever mix of bearers and addresses is used, and   *)
(* whenever the table overflows, a key whose bucket was never dropped      *)
(* early has drawn no more than a full bucket and what flowed in since.    *)
(* The new:<address> keys are among them: an address that keeps sending    *)
(* bearers nobody has seen is held to the same budget.                     *)
WithinBudget ==
  /\ Cardinality(DOMAIN buckets) <= MaxBuckets
  /\ \A k \in Keys \ lost : drawn[k] * Unit <= Capacity + clock * Rate

(* "an exhausted bucket is exactly the state the limiter exists to         *)
(* remember. Never every bucket at once" (ratelimit.py:98-100): a step     *)
(* that drops a bucket keeps none that had more tokens left, and an old    *)
(* bucket survives every eviction of a table in which none was full.       *)
SparesExhausted ==
  [][LET dropped == DOMAIN buckets \ DOMAIN buckets'
         kept    == DOMAIN buckets \cap DOMAIN buckets'
     IN  /\ \A k \in dropped, j \in kept : Level(buckets[k], clock) >= Level(buckets'[j], clock)
         /\ dropped # {} /\ (\A k \in DOMAIN buckets : Level(buckets[k], clock) < Capacity)
              => kept # {}]_limiterVars

-----------------------------------------------------------------------------
(* The inductive invariant.                                                *)

Bucket == [tokens : Nat, updated : Nat]

(* A table that the limiter may hold now.                                  *)
WellFormed(t) ==
  /\ t \in [DOMAIN t -> Bucket] /\ DOMAIN t \subseteq Keys
  /\ IsFiniteSet(DOMAIN t) /\ Cardinality(DOMAIN t) <= MaxBuckets
  /\ \A k \in DOMAIN t : t[k].tokens <= Capacity /\ t[k].updated <= clock

(* What a key may still draw: all of it, while it has no bucket.           *)
Balance(t, k) == IF k \in DOMAIN t THEN Level(t[k], clock) ELSE Capacity

(* What a key has drawn and what it may still draw were once in a full     *)
(* bucket or have flowed in.                                               *)
LimiterInv ==
  /\ clock \in Nat /\ WellFormed(buckets)
  /\ lost \subseteq Keys /\ drawn \in [Keys -> Nat]
  /\ \A k \in Keys \ lost : drawn[k] * Unit + Balance(buckets, k) <= Capacity + clock * Rate
=============================================================================
