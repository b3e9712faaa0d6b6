--------------------------- MODULE McpProxyProofs ---------------------------
(***************************************************************************)
(* Proofs about the MCP proxy, for any upstreams, tools, tool map,         *)
(* requests and policies, and any number of calls, redemptions and         *)
(* listings at once.                                                       *)
(***************************************************************************)
EXTENDS McpProxy, TLAPS, SequenceTheorems, WellFoundedInduction

-----------------------------------------------------------------------------
(* Names                                                                   *)

(* A set of naturals that is not empty has a least element.                *)
LEMMA Least ==
  ASSUME NEW T, T \subseteq Nat, T # {}
  PROVE  \E x \in T : \A y \in T : x <= y
<1> DEFINE R == OpToRel(<, Nat)
<1>1. \E x \in T : \A y \in T : ~ (<<y, x>> \in R)
  BY NatLessThanWellFounded, WFMin
<1>2. \A x, y \in Nat : y < x => <<y, x>> \in R
  BY DEF OpToRel
<1> HIDE DEF R
<1>3. PICK x \in T : \A y \in T : ~ (<<y, x>> \in R)
  BY <1>1
<1>4. ASSUME NEW y \in T
      PROVE  x <= y
  <2>1. x \in Nat /\ y \in Nat
    OBVIOUS
  <2>2. ~ (y < x)
    BY <1>2, <1>3, <2>1, Zenon
  <2>. QED
    BY <2>1, <2>2, SMT
<1>. QED
  BY <1>4

(* The parts of a prefixed name, by position.                              *)
LEMMA PrefixedAt ==
  ASSUME NEW server \in Seq(Characters), NEW tool \in Seq(Characters)
  PROVE  /\ Prefixed(server, tool) \in Seq(Characters)
         /\ Len(Prefixed(server, tool)) = Len(server) + 2 + Len(tool)
         /\ \A k \in 1..Len(server) : Prefixed(server, tool)[k] = server[k]
         /\ Prefixed(server, tool)[Len(server) + 1] = Underscore
         /\ Prefixed(server, tool)[Len(server) + 2] = Underscore
         /\ \A k \in 1..Len(tool) : Prefixed(server, tool)[Len(server) + 2 + k] = tool[k]
<1> DEFINE u == <<Underscore, Underscore>>
           h == server \o u
<1>1. u \in Seq(Characters) /\ Len(u) = 2 /\ u[1] = Underscore /\ u[2] = Underscore
  BY CharactersAssumption
<1> HIDE DEF u
<1>2. /\ h \in Seq(Characters) /\ Len(h) = Len(server) + Len(u)
      /\ \A k \in 1..(Len(server) + Len(u)) :
           h[k] = IF k <= Len(server) THEN server[k] ELSE u[k - Len(server)]
  BY <1>1, ConcatProperties, Zenon
<1> HIDE DEF h
<1>h. h \in Seq(Characters)
  BY <1>2
<1> DEFINE w == h \o tool
<1>3. /\ w \in Seq(Characters) /\ Len(w) = Len(h) + Len(tool)
      /\ \A k \in 1..(Len(h) + Len(tool)) :
           w[k] = IF k <= Len(h) THEN h[k] ELSE tool[k - Len(h)]
  BY <1>h, ConcatProperties, Zenon
<1>4. Prefixed(server, tool) = w
  BY DEF Prefixed, h, u
<1>5. Len(server) \in Nat /\ Len(tool) \in Nat
  OBVIOUS
<1> HIDE DEF w
<1>6. \A k \in 1..Len(server) : w[k] = server[k]
  BY <1>1, <1>2, <1>3, <1>5
<1>7. w[Len(server) + 1] = Underscore /\ w[Len(server) + 2] = Underscore
  BY <1>1, <1>2, <1>3, <1>5
<1>8. \A k \in 1..Len(tool) : w[Len(server) + 2 + k] = tool[k]
  BY <1>1, <1>2, <1>3, <1>5
<1>. QED
  BY <1>1, <1>2, <1>3, <1>4, <1>6, <1>7, <1>8

(* A name with a separator is split at its first one.                      *)
LEMMA PartitionAt ==
  ASSUME NEW name \in Seq(Characters), NEW i \in Separators(name),
         \A j \in Separators(name) : i <= j
  PROVE  Partition(name) = [server |-> SubSeq(name, 1, i - 1), found |-> TRUE,
                            tool |-> SubSeq(name, i + 2, Len(name))]
<1> DEFINE k == CHOOSE x \in Separators(name) : \A j \in Separators(name) : x <= j
<1>1. k \in Separators(name) /\ \A j \in Separators(name) : k <= j
  OBVIOUS
<1>2. k = i
  BY <1>1 DEF Separators
<1>3. Separators(name) # {}
  OBVIOUS
<1>. QED
  BY <1>2, <1>3 DEF Partition

(* Putting a separated name together again gives the name: what is called  *)
(* upstream is gated as the name that was sent (mcp.py, _route).           *)
LEMMA PrefixedPartition ==
  ASSUME NEW name \in Seq(Characters), Partition(name).found
  PROVE  Prefixed(Partition(name).server, Partition(name).tool) = name
<1>1. Separators(name) # {}
  BY DEF Partition
<1>0. Separators(name) \subseteq Nat
  BY DEF Separators
<1>2. PICK i \in Separators(name) : \A j \in Separators(name) : i <= j
  BY <1>0, <1>1, Least
<1> DEFINE n == Len(name)
           a == SubSeq(name, 1, i - 1)
           b == SubSeq(name, i + 2, n)
<1>3. /\ i \in 1..(n - 1) /\ n \in Nat
      /\ name[i] = Underscore /\ name[i + 1] = Underscore
  BY <1>2 DEF Separators
<1>4. /\ a \in Seq(Characters) /\ Len(a) = i - 1
      /\ \A k \in 1..(i - 1) : a[k] = name[k]
  BY <1>3, SubSeqProperties
<1>5. /\ b \in Seq(Characters) /\ Len(b) = n - (i + 1)
      /\ \A k \in 1..(n - (i + 1)) : b[k] = name[i + 1 + k]
  BY <1>3, SubSeqProperties
<1> DEFINE w == Prefixed(a, b)
<1>a. a \in Seq(Characters)
  BY <1>4
<1>b. b \in Seq(Characters)
  BY <1>5
<1>6. /\ w \in Seq(Characters) /\ Len(w) = Len(a) + 2 + Len(b)
      /\ \A k \in 1..Len(a) : w[k] = a[k]
      /\ w[Len(a) + 1] = Underscore /\ w[Len(a) + 2] = Underscore
      /\ \A k \in 1..Len(b) : w[Len(a) + 2 + k] = b[k]
  <2> HIDE DEF a, b
  <2>. QED
    BY <1>a, <1>b, PrefixedAt, Zenon
<1> HIDE DEF w
<1>7. w = name
  <2> HIDE DEF a, b
  <2>1. w \in Seq(Characters) /\ Len(w) = n
    BY <1>3, <1>4, <1>5, <1>6
  <2>2. ASSUME NEW k \in 1..n
        PROVE  w[k] = name[k]
    <3>1. CASE k < i
      BY <1>3, <1>4, <1>5, <1>6, <3>1
    <3>2. CASE k = i \/ k = i + 1
      BY <1>3, <1>4, <1>6, <3>2
    <3>3. CASE k > i + 1
      <4>1. /\ k - (i + 1) \in 1..Len(b) /\ k = Len(a) + 2 + (k - (i + 1))
            /\ b[k - (i + 1)] = name[k]
        BY <1>3, <1>4, <1>5, <3>3
      <4>. QED
        BY <1>6, <4>1
    <3>. QED
      BY <1>3, <3>1, <3>2, <3>3
  <2>. QED
    BY <2>1, <2>2, SeqEqual
<1>8. Partition(name) = [server |-> a, found |-> TRUE, tool |-> b]
  BY <1>2, PartitionAt, Zenon
<1>. QED
  BY <1>7, <1>8 DEF w

(* The name of a tool of an upstream leads back to that upstream and tool, *)
(* whatever separators the tool's own name contains, unless the upstream's *)
(* ends in an underscore (mcp.py, _UPSTREAM_NAME).                         *)
LEMMA PartitionPrefixed ==
  ASSUME NEW server \in Seq(Characters), NEW tool \in Seq(Characters),
         ValidUpstream(server), server[Len(server)] # Underscore
  PROVE  Partition(Prefixed(server, tool)) = [server |-> server, found |-> TRUE, tool |-> tool]
<1> DEFINE name == Prefixed(server, tool)
           i == Len(server) + 1
<1>0. /\ name \in Seq(Characters) /\ Len(name) = Len(server) + 2 + Len(tool)
      /\ \A k \in 1..Len(server) : name[k] = server[k]
      /\ name[Len(server) + 1] = Underscore /\ name[Len(server) + 2] = Underscore
      /\ \A k \in 1..Len(tool) : name[Len(server) + 2 + k] = tool[k]
  BY PrefixedAt, Zenon
<1> HIDE DEF name
<1>1. /\ name \in Seq(Characters) /\ Len(name) = Len(server) + 2 + Len(tool)
      /\ Len(server) \in Nat /\ Len(server) > 0 /\ Len(tool) \in Nat
  <2>1. Len(server) > 0
    BY Zenon DEF ValidUpstream
  <2>. QED
    BY <1>0, <2>1
<1>2. /\ \A k \in 1..Len(server) : name[k] = server[k]
      /\ name[i] = Underscore /\ name[i + 1] = Underscore
      /\ \A k \in 1..Len(tool) : name[i + 1 + k] = tool[k]
  BY <1>0, <1>1
<1>3. i \in Separators(name)
  BY <1>1, <1>2 DEF Separators
<1>4. ASSUME NEW j \in Separators(name), j < i
      PROVE  FALSE
  <2>1. /\ j \in Nat /\ j >= 1 /\ j <= Len(server)
        /\ name[j] = Underscore /\ name[j + 1] = Underscore
    BY <1>1, <1>4 DEF Separators
  <2>2. CASE j = Len(server)
    BY <1>1, <1>2, <2>1, <2>2
  <2>3. CASE j < Len(server)
    <3>1. j \in 1..(Len(server) - 1) /\ server[j] = Underscore /\ server[j + 1] = Underscore
      BY <1>1, <1>2, <2>1, <2>3
    <3>. QED
      BY <3>1 DEF ValidUpstream, Separators
  <2>. QED
    BY <1>1, <2>1, <2>2, <2>3
<1>5. \A j \in Separators(name) : i <= j
  BY <1>1, <1>4 DEF Separators
<1>6. SubSeq(name, 1, i - 1) = server
  <2>1. /\ SubSeq(name, 1, i - 1) \in Seq(Characters) /\ Len(SubSeq(name, 1, i - 1)) = Len(server)
        /\ \A k \in 1..Len(server) : SubSeq(name, 1, i - 1)[k] = server[k]
    BY <1>1, <1>2, SubSeqProperties
  <2>. QED
    BY <2>1, SeqEqual
<1>7. SubSeq(name, i + 2, Len(name)) = tool
  <2>1. /\ SubSeq(name, i + 2, Len(name)) \in Seq(Characters)
        /\ Len(SubSeq(name, i + 2, Len(name))) = Len(tool)
        /\ \A k \in 1..Len(tool) : SubSeq(name, i + 2, Len(name))[k] = tool[k]
    BY <1>1, <1>2, SubSeqProperties
  <2>. QED
    BY <2>1, SeqEqual
<1>8. name \in Seq(Characters)
  BY <1>1
<1>9. Partition(name) = [server |-> SubSeq(name, 1, i - 1), found |-> TRUE,
                         tool |-> SubSeq(name, i + 2, Len(name))]
  BY <1>3, <1>5, <1>8, PartitionAt, Zenon
<1>. QED
  BY <1>6, <1>7, <1>9 DEF name
-----------------------------------------------------------------------------
(* The calls                                                               *)

(* The decision path answers with one of the three outcomes.               *)
LEMMA DecidedOutcome ==
  ASSUME NEW c, NEW a, NEW approved
  PROVE  Decided(c, a, approved) \in Outcomes
BY DEF Decided, Evaluate, PolicyVerdict, MostRestrictive, Outcomes

(* The proxy starts with no call, no approval and an empty journal.        *)
LEMMA ProxyStarts ==
  ASSUME ProxyInit
  PROVE  ProxyInv
<1>1. (CHOOSE q \in Requests : TRUE) \in Requests /\ (CHOOSE r \in Calls : TRUE) \in Calls
  BY ProxyAssumption
<1> DEFINE q0 == CHOOSE q \in Requests : TRUE
           r0 == CHOOSE r \in Calls : TRUE
<1>2. proxy = [c \in ProxyCalls |-> [pc |-> "idle", asks |-> q0, req |-> r0, late |-> FALSE]]
  BY DEF ProxyInit
<1>3. listing = [l \in Listings |-> [pc |-> "idle", chain |-> q0.chain,
                                    offered |-> {}, names |-> {}]]
  BY DEF ProxyInit
<1>4. q0 \in Requests /\ r0 \in Calls
  BY <1>1
<1> HIDE DEF q0, r0
<1>5. ProxyTypeOK
  <2>1. life \in [Calls -> {"none", "asked", "granted", "closed", "used"}] /\ revoked \in BOOLEAN
    BY DEF ProxyInit, Approvals!Init
  <2>2. proxy \in [ProxyCalls -> [pc : ProxyPcs, asks : Requests, req : Calls, late : BOOLEAN]]
    BY <1>2, <1>4 DEF ProxyPcs
  <2>3. listing \in [Listings -> [pc : {"idle", "decide", "record", "done"},
                               chain : {q.chain : q \in Requests},
                               offered : SUBSET Candidates, names : SUBSET Candidates]]
    BY <1>3, <1>4
  <2>. QED
    BY <2>1, <2>2, <2>3 DEF ProxyTypeOK
<1>6. \A c \in ProxyCalls : CallKnows(c)
  BY <1>2 DEF ProxyInit, Journaled, CallKnows, Verified, Holds
<1>7. AskersWait
  BY DEF ProxyInit, Approvals!Init, AskersWait
<1>8. OneHolder /\ RanIsSent
  BY <1>2 DEF ProxyInit, OneHolder, Holds, RanIsSent, ProxyCalls
<1>9. \A l \in Listings : ListKnows(l)
  BY <1>3 DEF ProxyInit, Journaled, ListKnows
<1>. QED
  BY <1>5, <1>6, <1>7, <1>8, <1>9 DEF ProxyInv

(* What the journal holds it keeps, and it says nothing new of these.      *)
Silent(S) == journal \subseteq journal' /\ \A d \in S : Journaled(d)' <=> Journaled(d)

(* An event is about the call that records it and about no other.          *)
LEMMA ProxyJournalGrows ==
  ASSUME NEW c, NEW outcome, Record(c, outcome)
  PROVE  /\ journal \subseteq journal' /\ <<c, outcome>> \in journal'
         /\ \A S : c \notin S => Silent(S)
<1>1. journal \subseteq journal' /\ <<c, outcome>> \in journal'
  BY DEF Record
<1>2. ASSUME NEW d, d # c
      PROVE  Journaled(d)' <=> Journaled(d)
  <2>1. \A o : <<d, o>> \in journal' <=> <<d, o>> \in journal
    BY <1>2 DEF Record
  <2>. QED
    BY <2>1 DEF Journaled
<1>. QED
  BY <1>1, <1>2 DEF Silent

LEMMA NothingRecorded ==
  ASSUME UNCHANGED journal
  PROVE  \A S : Silent(S)
BY DEF Silent, Journaled

(* A call and the listings, and the other calls, are not one another.      *)
LEMMA CallsApart ==
  /\ \A c \in ProxyCalls : c \notin Listings /\ c \notin ProxyCalls \ {c}
  /\ \A l \in Listings : l \notin ProxyCalls /\ l \notin Listings \ {l}
BY ProxyAssumption DEF ProxyCalls

(* A listing knows what it knew while other parts move.                    *)
LEMMA ListingsKept ==
  ASSUME ProxyInv, UNCHANGED listing, Silent(Listings)
  PROVE  \A l \in Listings : ListKnows(l)'
<1> SUFFICES ASSUME NEW l \in Listings
             PROVE  ListKnows(l)'
  OBVIOUS
<1>1. ListKnows(l) /\ (Journaled(l)' <=> Journaled(l)) /\ journal \subseteq journal'
  BY DEF ProxyInv, Silent
<1>. QED
  BY <1>1 DEF ListKnows

(* A call that moves on asks for what it asked for; the calls, the         *)
(* approvals and the listings stay well formed.                            *)
LEMMA MovesKeep ==
  ASSUME ProxyInv, NEW c \in ProxyCalls, NEW x \in ProxyPcs,
         proxy' = [proxy EXCEPT ![c].pc = x],
         life' \in [Calls -> {"none", "asked", "granted", "closed", "used"}],
         revoked' \in BOOLEAN, UNCHANGED listing
  PROVE  /\ ProxyTypeOK'
         /\ proxy'[c].pc = x
         /\ \A d \in ProxyCalls : d # c => proxy'[d] = proxy[d]
         /\ \A d \in ProxyCalls : /\ proxy'[d].asks = proxy[d].asks
                                  /\ proxy'[d].req = proxy[d].req
                                  /\ proxy'[d].late = proxy[d].late
<1>1. proxy \in [ProxyCalls -> [pc : ProxyPcs, asks : Requests, req : Calls, late : BOOLEAN]]
  BY DEF ProxyInv, ProxyTypeOK
<1>2. proxy' \in [ProxyCalls -> [pc : ProxyPcs, asks : Requests, req : Calls, late : BOOLEAN]]
  BY <1>1
<1>. QED
  BY <1>1, <1>2 DEF ProxyInv, ProxyTypeOK

(* The binding of a redemption to a request outlives the move of any call. *)
LEMMA SameCallKept ==
  ASSUME NEW c \in ProxyCalls, NEW r \in ProxyCalls, SameCall(c, r),
         proxy'[c].asks = proxy[c].asks, proxy'[r].asks = proxy[r].asks
  PROVE  SameCall(c, r)'
BY DEF SameCall, Wanted

(* A call that does not move knows what it knew: used approvals stay used, *)
(* a revoked token stays revoked and the journal only grows.               *)
LEMMA OthersKnow ==
  ASSUME ProxyInv, NEW d \in ProxyCalls, proxy'[d] = proxy[d],
         proxy'[proxy[d].req].asks = proxy[proxy[d].req].asks
           \/ proxy[proxy[d].req].pc = "idle",
         \A r \in Calls : life[r] = "used" => life'[r] = "used",
         revoked => revoked', Silent({d})
  PROVE  CallKnows(d)'
<1>1. CallKnows(d) /\ proxy[d].req \in Calls
  BY DEF ProxyInv, ProxyTypeOK
<1>0. journal \subseteq journal' /\ (Journaled(d)' <=> Journaled(d))
  BY DEF Silent
<1>2. Wanted(d)' = Wanted(d) /\ (Verified(d)' <=> Verified(d)) /\ (Holds(d)' <=> Holds(d))
  BY DEF Wanted, Verified, Holds
<1>3. ASSUME d \in Redemptions, Holds(d)
      PROVE  life'[proxy[d].req] = "used" /\ SameCall(d, proxy[d].req)'
  <2>1. life[proxy[d].req] = "used" /\ SameCall(d, proxy[d].req)
    BY <1>1, <1>3 DEF CallKnows
  <2>2. proxy[proxy[d].req].pc = "refused"
    BY <1>1, <2>1 DEF ProxyInv, AskersWait
  <2>3. proxy'[proxy[d].req].asks = proxy[proxy[d].req].asks
    BY <2>2
  <2>. QED
    BY <1>1, <2>1, <2>3 DEF SameCall, Wanted
<1>4. CallKnows(d)' <=>
        /\ d \in Calls /\ proxy[d].pc # "idle" => proxy[d].req = d
        /\ proxy[d].pc = "claimed" => d \in Redemptions
        /\ proxy[d].pc # "idle" => (proxy[d].pc = "invalid" <=> ~ValidResource(Wanted(d)))
        /\ proxy[d].pc \in {"idle", "invalid"} => ~Journaled(d)'
        /\ proxy[d].pc = "verify" /\ proxy[d].late => revoked'
        /\ Verified(d) => ~proxy[d].late /\ Wanted(d) \in proxy[d].asks.chain.scope
        /\ d \in Redemptions /\ Holds(d) =>
             life'[proxy[d].req] = "used" /\ SameCall(d, proxy[d].req)'
        /\ proxy[d].pc \in {"allowed", "sent", "unroutable"} => <<d, "ALLOW">> \in journal'
        /\ proxy[d].pc = "refused" =>
             <<d, "DENY">> \in journal' \/ <<d, "REQUIRE_APPROVAL">> \in journal'
  BY <1>2 DEF CallKnows, SameCall, Wanted
<1>. QED
  BY <1>0, <1>1, <1>3, <1>4 DEF CallKnows

(* A call that gains no approval leaves each approval with one holder.     *)
LEMMA HoldersKept ==
  ASSUME ProxyInv, NEW c \in ProxyCalls, \A d \in ProxyCalls : d # c => proxy'[d] = proxy[d],
         proxy'[c].req = proxy[c].req \/ ~Holds(c)',
         c \in Redemptions /\ Holds(c)' => Holds(c)
  PROVE  OneHolder'
<1>1. \A d \in Redemptions : Holds(d)' => Holds(d) /\ proxy'[d].req = proxy[d].req
  BY DEF Holds, ProxyCalls
<1>. QED
  BY <1>1 DEF ProxyInv, OneHolder

(* What was sent stays what its call asked for.                            *)
LEMMA RanKept ==
  ASSUME ProxyInv, NEW c \in ProxyCalls, \A d \in ProxyCalls : d # c => proxy'[d] = proxy[d],
         proxy[c].pc # "sent", NEW e \in ran
  PROVE  /\ e.call \in ProxyCalls /\ e.call # c
         /\ proxy'[e.call].pc = "sent"
         /\ Routable(proxy'[e.call].asks.name)
         /\ e = Sending(e.call)'
<1>1. /\ e.call \in ProxyCalls
      /\ proxy[e.call].pc = "sent"
      /\ Routable(proxy[e.call].asks.name)
      /\ e = Sending(e.call)
  BY DEF ProxyInv, RanIsSent
<1>2. proxy'[e.call] = proxy[e.call] /\ e.call # c
  BY <1>1
<1>3. Sending(e.call)' = Sending(e.call)
  BY <1>2 DEF Sending
<1>. QED
  BY <1>1, <1>2, <1>3

(* Nothing that was sent, no holder of an approval and no caller that      *)
(* waits is disturbed by a call that has sent nothing and gains nothing.   *)
LEMMA RestKept ==
  ASSUME ProxyInv, NEW c \in ProxyCalls, \A d \in ProxyCalls : d # c => proxy'[d] = proxy[d],
         proxy[c].pc \notin {"sent", "refused"}, UNCHANGED <<life, ran>>,
         proxy'[c].req = proxy[c].req \/ ~Holds(c)',
         c \in Redemptions /\ Holds(c)' => Holds(c)
  PROVE  AskersWait' /\ OneHolder' /\ RanIsSent'
<1>1. AskersWait'
  BY DEF ProxyInv, AskersWait, ProxyCalls, Wanted
<1>2. OneHolder'
  BY HoldersKept
<1>3. RanIsSent'
  <2>1. ASSUME NEW e \in ran
        PROVE  /\ e.call \in ProxyCalls
               /\ proxy'[e.call].pc = "sent"
               /\ Routable(proxy'[e.call].asks.name)
               /\ e = Sending(e.call)'
    BY RanKept
  <2>. QED
    BY <2>1 DEF RanIsSent
<1>. QED
  BY <1>1, <1>2, <1>3

(* A call that begins knows nothing yet; it is its own request.            *)
LEMMA StartKeeps ==
  ASSUME ProxyInv, NEW c \in ProxyCalls, Start(c)
  PROVE  ProxyInv'
<1>1. PICK q \in Requests, r \in Calls :
        proxy' = [proxy EXCEPT ![c] =
          [pc |-> IF ValidResource(Resource(q.name)) THEN "verify" ELSE "invalid",
           asks |-> q, req |-> IF c \in Calls THEN c ELSE r, late |-> revoked]]
  BY DEF Start
<1>2. UNCHANGED <<life, served, revoked, journal, listing, ran>> /\ proxy[c].pc = "idle"
  BY DEF Start, approvalVars
<1>3. proxy \in [ProxyCalls -> [pc : ProxyPcs, asks : Requests, req : Calls, late : BOOLEAN]]
  BY DEF ProxyInv, ProxyTypeOK
<1>4. \A d \in ProxyCalls : d # c => proxy'[d] = proxy[d]
  BY <1>1, <1>3
<1>5. /\ proxy'[c].pc \in {"verify", "invalid"} /\ proxy'[c].late = revoked
      /\ c \in Calls => proxy'[c].req = c
      /\ proxy'[c].pc = "invalid" <=> ~ValidResource(Wanted(c)')
  BY <1>1, <1>3 DEF Wanted
<1>10. ~Journaled(c)'
  BY <1>2 DEF ProxyInv, CallKnows, Journaled
<1>6. ProxyTypeOK'
  <2>1. proxy' \in [ProxyCalls -> [pc : ProxyPcs, asks : Requests, req : Calls, late : BOOLEAN]]
    <3> DEFINE x == IF ValidResource(Resource(q.name)) THEN "verify" ELSE "invalid"
               y == IF c \in Calls THEN c ELSE r
    <3>1. x \in ProxyPcs /\ y \in Calls /\ revoked \in BOOLEAN
      BY DEF ProxyPcs, ProxyInv, ProxyTypeOK
    <3>2. proxy' = [proxy EXCEPT ![c] = [pc |-> x, asks |-> q, req |-> y, late |-> revoked]]
      BY <1>1
    <3> HIDE DEF x, y
    <3>. QED
      BY <1>3, <3>1, <3>2
  <2>. QED
    BY <1>2, <2>1 DEF ProxyInv, ProxyTypeOK
<1>7. ASSUME NEW d \in ProxyCalls
      PROVE  CallKnows(d)'
  <2>1. CASE d = c
    BY <1>2, <1>5, <1>10, <2>1 DEF CallKnows, Verified, Holds
  <2>2. CASE d # c
    <3>1. proxy[d].req \in ProxyCalls
      BY <1>3 DEF ProxyCalls
    <3>2. proxy'[proxy[d].req].asks = proxy[proxy[d].req].asks \/ proxy[proxy[d].req].pc = "idle"
      BY <1>2, <1>4, <3>1
    <3>3. proxy'[d] = proxy[d]
      BY <1>4, <2>2
    <3>. QED
      BY <1>2, <3>2, <3>3, NothingRecorded, OthersKnow
  <2>. QED
    BY <2>1, <2>2
<1>8. AskersWait' /\ OneHolder' /\ RanIsSent'
  <2>1. ~Holds(c)'
    BY <1>5 DEF Holds
  <2>. QED
    BY <1>2, <1>4, <2>1, RestKept
<1>9. \A l \in Listings : ListKnows(l)'
  BY <1>2, NothingRecorded, ListingsKept
<1>. QED
  BY <1>6, <1>7, <1>8, <1>9 DEF ProxyInv

(* A call moves on: what is left to show is what the call itself knows at  *)
(* the point it has come to.                                               *)
LEMMA MoveKnows ==
  ASSUME ProxyInv, NEW c \in ProxyCalls, NEW x \in ProxyPcs,
         proxy' = [proxy EXCEPT ![c].pc = x], proxy[c].pc \notin {"idle", "invalid"},
         life' \in [Calls -> {"none", "asked", "granted", "closed", "used"}],
         \A r \in Calls : life[r] = "used" => life'[r] = "used",
         UNCHANGED <<revoked, listing>>, Silent(Listings), Silent(ProxyCalls \ {c}),
         x \notin {"idle", "verify", "invalid"},
         x = "claimed" => c \in Redemptions,
         x \in {"gated", "claimed", "allowed", "sent", "unroutable"} =>
           \/ Verified(c)
           \/ ~proxy[c].late /\ Wanted(c) \in proxy[c].asks.chain.scope,
         c \in Redemptions /\ x \in {"claimed", "allowed", "sent", "unroutable"} =>
           \/ Holds(c)
           \/ life'[proxy[c].req] = "used" /\ SameCall(c, proxy[c].req),
         x \in {"allowed", "sent", "unroutable"} => <<c, "ALLOW">> \in journal',
         x = "refused" => <<c, "DENY">> \in journal' \/ <<c, "REQUIRE_APPROVAL">> \in journal'
  PROVE  /\ ProxyTypeOK'
         /\ \A d \in ProxyCalls : CallKnows(d)'
         /\ \A l \in Listings : ListKnows(l)'
<1>0. revoked' \in BOOLEAN
  BY DEF ProxyInv, ProxyTypeOK
<1>1. /\ ProxyTypeOK'
      /\ proxy'[c].pc = x
      /\ \A d \in ProxyCalls : d # c => proxy'[d] = proxy[d]
      /\ \A d \in ProxyCalls : /\ proxy'[d].asks = proxy[d].asks
                               /\ proxy'[d].req = proxy[d].req
                               /\ proxy'[d].late = proxy[d].late
  BY <1>0, MovesKeep
<1>2. \A d \in ProxyCalls : proxy[d].req \in Calls
  BY DEF ProxyInv, ProxyTypeOK
<1>3. CallKnows(c)
  BY DEF ProxyInv
<1>4. CallKnows(c)'
  <2>1. (c \in Calls => proxy'[c].req = c)
    BY <1>1, <1>3 DEF CallKnows
  <2>2. Verified(c)' => ~proxy'[c].late /\ Wanted(c)' \in proxy'[c].asks.chain.scope
    BY <1>1, <1>3 DEF CallKnows, Verified, Wanted
  <2>3. ASSUME c \in Redemptions, Holds(c)'
        PROVE  life'[proxy'[c].req] = "used" /\ SameCall(c, proxy[c].req)'
    <3>1. x \in {"claimed", "allowed", "sent", "unroutable"}
      BY <1>1, <2>3 DEF Holds
    <3>2. life'[proxy[c].req] = "used" /\ SameCall(c, proxy[c].req)
      BY <1>2, <1>3, <2>3, <3>1 DEF CallKnows
    <3>3. proxy[c].req \in ProxyCalls
      BY <1>2 DEF ProxyCalls
    <3>4. proxy'[proxy[c].req].asks = proxy[proxy[c].req].asks
      BY <1>1, <3>3
    <3>5. proxy'[c].req = proxy[c].req
      BY <1>1
    <3>6. SameCall(c, proxy[c].req)'
      BY <1>1, <3>2, <3>4, <3>5 DEF SameCall, Wanted
    <3>. QED
      BY <3>2, <3>5, <3>6
  <2>4. ValidResource(Wanted(c)')
    BY <1>1, <1>3 DEF CallKnows, Wanted
  <2>. QED
    BY <1>1, <2>1, <2>2, <2>3, <2>4 DEF CallKnows
<1>5. ASSUME NEW d \in ProxyCalls, d # c
      PROVE  CallKnows(d)'
  <2>1. proxy[d].req \in ProxyCalls
    BY <1>2 DEF ProxyCalls
  <2>2. proxy'[proxy[d].req].asks = proxy[proxy[d].req].asks
    BY <1>1, <2>1
  <2>3. proxy'[d] = proxy[d]
    BY <1>1, <1>5
  <2>4. Silent({d})
    BY <1>5 DEF Silent
  <2>. QED
    BY <2>2, <2>3, <2>4, OthersKnow
<1>6. \A l \in Listings : ListKnows(l)'
  BY ListingsKept
<1>. QED
  BY <1>1, <1>4, <1>5, <1>6

(* The token is refused, or it is good at this moment: it is not on the    *)
(* revocation list, so that the call began before it was.                  *)
LEMMA VerifyKeeps ==
  ASSUME ProxyInv, NEW c \in ProxyCalls, VerifyToken(c)
  PROVE  ProxyInv'
<1>1. UNCHANGED <<life, served, revoked, listing, ran>> /\ proxy[c].pc = "verify"
  BY DEF VerifyToken, approvalVars
<1>2. life' \in [Calls -> {"none", "asked", "granted", "closed", "used"}]
  BY <1>1 DEF ProxyInv, ProxyTypeOK
<1>3. PICK x \in {"gated", "refused"} :
        /\ proxy' = [proxy EXCEPT ![c].pc = x]
        /\ x = "gated" => TokenPermits(proxy[c].asks.chain, Wanted(c))
        /\ IF x = "refused" THEN Record(c, "DENY") ELSE UNCHANGED journal
  BY DEF VerifyToken
<1>9. /\ Silent(Listings) /\ Silent(ProxyCalls \ {c})
      /\ x = "refused" => <<c, "DENY">> \in journal'
  BY <1>3, CallsApart, ProxyJournalGrows, NothingRecorded
<1>4. x \in ProxyPcs
  BY DEF ProxyPcs
<1>5. x = "gated" => ~proxy[c].late /\ Wanted(c) \in proxy[c].asks.chain.scope
  BY <1>1, <1>3 DEF TokenPermits, ProxyInv, CallKnows
<1>6. /\ ProxyTypeOK'
      /\ \A d \in ProxyCalls : CallKnows(d)'
      /\ \A l \in Listings : ListKnows(l)'
  BY <1>1, <1>2, <1>3, <1>4, <1>5, <1>9, MoveKnows
<1>7. /\ proxy'[c].pc = x /\ proxy'[c].req = proxy[c].req
      /\ \A d \in ProxyCalls : d # c => proxy'[d] = proxy[d]
  BY <1>3 DEF ProxyInv, ProxyTypeOK
<1>8. AskersWait' /\ OneHolder' /\ RanIsSent'
  <2>1. ~Holds(c)'
    BY <1>7 DEF Holds
  <2>. QED
    BY <1>1, <1>7, <2>1, RestKept
<1>. QED
  BY <1>6, <1>8 DEF ProxyInv

(* The gate decides: the answer is in the journal, and a call that must    *)
(* wait for an approval goes no further.                                   *)
LEMMA AuthorizeKeeps ==
  ASSUME ProxyInv, NEW c \in ProxyCalls, Authorize(c)
  PROVE  ProxyInv'
<1>1. UNCHANGED <<revoked, listing, ran>> /\ proxy[c].pc = "gated" /\ c \in Calls
  BY DEF Authorize
<1>2. PICK a \in Answers :
        LET outcome == Decided(c, a, FALSE) IN
        /\ Record(c, outcome)
        /\ IF outcome = "REQUIRE_APPROVAL" THEN Approvals!Ask(c) ELSE UNCHANGED approvalVars
        /\ proxy' = [proxy EXCEPT ![c].pc = IF Forwards(outcome) THEN "allowed" ELSE "refused"]
  BY DEF Authorize
<1> DEFINE outcome == Decided(c, a, FALSE)
           x == IF Forwards(outcome) THEN "allowed" ELSE "refused"
<1>3. outcome \in Outcomes
  BY DecidedOutcome
<1>4. /\ Record(c, outcome)
      /\ IF outcome = "REQUIRE_APPROVAL" THEN Approvals!Ask(c) ELSE UNCHANGED approvalVars
      /\ proxy' = [proxy EXCEPT ![c].pc = x]
  BY <1>2
<1> HIDE DEF outcome
<1>5. Silent(Listings) /\ Silent(ProxyCalls \ {c}) /\ <<c, outcome>> \in journal'
  BY <1>4, CallsApart, ProxyJournalGrows
<1>6. /\ x \in {"allowed", "refused"}
      /\ x = "allowed" => <<c, "ALLOW">> \in journal' /\ outcome # "REQUIRE_APPROVAL"
      /\ x = "refused" => <<c, "DENY">> \in journal' \/ <<c, "REQUIRE_APPROVAL">> \in journal'
  BY <1>3, <1>5 DEF Forwards, Outcomes
<1> HIDE DEF x
<1>7. life \in [Calls -> {"none", "asked", "granted", "closed", "used"}]
  BY DEF ProxyInv, ProxyTypeOK
<1>8. /\ life' \in [Calls -> {"none", "asked", "granted", "closed", "used"}]
      /\ \A r \in Calls : life'[r] = life[r] \/ (r = c /\ x = "refused" /\ life[r] = "none")
  <2>1. CASE outcome = "REQUIRE_APPROVAL"
    BY <1>1, <1>4, <1>6, <1>7, <2>1 DEF Approvals!Ask
  <2>2. CASE outcome # "REQUIRE_APPROVAL"
    BY <1>4, <1>7, <2>2 DEF approvalVars
  <2>. QED
    BY <2>1, <2>2
<1>9. x \in ProxyPcs /\ Verified(c) /\ c \notin Redemptions
  BY <1>1, <1>6, ProxyAssumption DEF ProxyPcs, Verified
<1>10. \A r \in Calls : life[r] = "used" => life'[r] = "used"
  BY <1>8
<1>11. /\ ProxyTypeOK'
       /\ \A d \in ProxyCalls : CallKnows(d)'
       /\ \A l \in Listings : ListKnows(l)'
  BY <1>1, <1>4, <1>5, <1>6, <1>8, <1>9, <1>10, MoveKnows
<1>12. /\ proxy'[c].pc = x /\ proxy'[c].req = proxy[c].req
       /\ \A d \in ProxyCalls : d # c => proxy'[d] = proxy[d]
  BY <1>4 DEF ProxyInv, ProxyTypeOK
<1>13. AskersWait'
  <2>1. \A r \in Calls : life[r] # "none" =>
          proxy[r].pc = "refused" /\ Wanted(r) \in proxy[r].asks.chain.scope
    BY DEF ProxyInv, AskersWait
  <2>2. Wanted(c) \in proxy[c].asks.chain.scope /\ c \in ProxyCalls
    BY <1>9 DEF ProxyInv, CallKnows
  <2>3. \A r \in Calls : Wanted(r)' = Wanted(r) /\ proxy'[r].asks = proxy[r].asks
    BY <1>4 DEF ProxyInv, ProxyTypeOK, Wanted, ProxyCalls
  <2>. QED
    BY <1>1, <1>8, <1>12, <2>1, <2>2, <2>3 DEF AskersWait, ProxyCalls
<1>14. OneHolder'
  BY <1>9, <1>12, HoldersKept
<1>15. RanIsSent'
  <2>1. ASSUME NEW e \in ran
        PROVE  /\ e.call \in ProxyCalls
               /\ proxy'[e.call].pc = "sent"
               /\ Routable(proxy'[e.call].asks.name)
               /\ e = Sending(e.call)'
    BY <1>1, <1>12, RanKept
  <2>. QED
    BY <1>1, <2>1 DEF RanIsSent
<1>. QED
  BY <1>11, <1>13, <1>14, <1>15 DEF ProxyInv

(* A redemption takes a granted approval of the same call, which nobody    *)
(* else can hold: a held approval is used.                                 *)
LEMMA ClaimKeeps ==
  ASSUME ProxyInv, NEW c \in ProxyCalls, Claim(c)
  PROVE  ProxyInv'
<1>1. UNCHANGED <<revoked, listing, ran>> /\ proxy[c].pc = "gated" /\ c \in Redemptions
  BY DEF Claim
<1>2. life \in [Calls -> {"none", "asked", "granted", "closed", "used"}]
      /\ \A d \in ProxyCalls : proxy[d].req \in Calls
  BY DEF ProxyInv, ProxyTypeOK
<1>3. c \notin Calls /\ Verified(c)
  BY <1>1, ProxyAssumption DEF Verified
<1>4. CASE life[proxy[c].req] = "granted" /\ SameCall(c, proxy[c].req)
  <2> DEFINE r == proxy[c].req
  <2>1. /\ life[r] = "granted" /\ life' = [life EXCEPT ![r] = "used"] /\ r \in Calls
        /\ proxy' = [proxy EXCEPT ![c].pc = "claimed"] /\ journal' = journal
    BY <1>2, <1>4 DEF Claim, Approvals!Use
  <2>2. /\ life' \in [Calls -> {"none", "asked", "granted", "closed", "used"}]
        /\ life'[r] = "used" /\ \A s \in Calls : s # r => life'[s] = life[s]
    BY <1>2, <2>1
  <2>3. "claimed" \in ProxyPcs
    BY DEF ProxyPcs
  <2>4. \A s \in Calls : life[s] = "used" => life'[s] = "used"
    BY <2>1, <2>2
  <2>5. life'[proxy[c].req] = "used" /\ SameCall(c, proxy[c].req)
    BY <1>4, <2>2
  <2>6. /\ ProxyTypeOK'
        /\ \A d \in ProxyCalls : CallKnows(d)'
        /\ \A l \in Listings : ListKnows(l)'
    BY <1>1, <1>3, <2>1, <2>2, <2>3, <2>4, <2>5, NothingRecorded, MoveKnows
  <2>7. /\ proxy'[c].pc = "claimed" /\ proxy'[c].req = proxy[c].req
        /\ \A d \in ProxyCalls : d # c => proxy'[d] = proxy[d]
    BY <2>1 DEF ProxyInv, ProxyTypeOK
  <2>8. AskersWait'
    <3>1. \A s \in Calls : life[s] # "none" =>
            proxy[s].pc = "refused" /\ Wanted(s) \in proxy[s].asks.chain.scope
      BY DEF ProxyInv, AskersWait
    <3>2. \A s \in Calls : proxy'[s] = proxy[s] /\ (life'[s] # "none" => life[s] # "none")
      BY <1>3, <2>1, <2>2, <2>7 DEF ProxyCalls
    <3>. QED
      BY <3>1, <3>2 DEF AskersWait, Wanted
  <2>9. OneHolder'
    <3>1. \A d \in Redemptions : d # c => proxy'[d] = proxy[d]
      BY <2>7 DEF ProxyCalls
    <3>2. \A d \in Redemptions : d # c /\ Holds(d)' => Holds(d) /\ proxy[d].req # r
      BY <2>1, <3>1 DEF ProxyInv, CallKnows, Holds, ProxyCalls
    <3>3. \A d, e \in Redemptions : Holds(d) /\ Holds(e) /\ proxy[d].req = proxy[e].req => d = e
      BY DEF ProxyInv, OneHolder
    <3> SUFFICES ASSUME NEW d \in Redemptions, NEW e \in Redemptions,
                        Holds(d)', Holds(e)', proxy'[d].req = proxy'[e].req
                 PROVE  d = e
      BY DEF OneHolder
    <3>. QED
      BY <2>7, <3>1, <3>2, <3>3
  <2>10. RanIsSent'
    <3>1. ASSUME NEW e \in ran
          PROVE  /\ e.call \in ProxyCalls
                 /\ proxy'[e.call].pc = "sent"
                 /\ Routable(proxy'[e.call].asks.name)
                 /\ e = Sending(e.call)'
      BY <1>1, <2>7, RanKept
    <3>. QED
      BY <1>1, <3>1 DEF RanIsSent
  <2>. QED
    BY <2>6, <2>8, <2>9, <2>10 DEF ProxyInv
<1>5. CASE ~(life[proxy[c].req] = "granted" /\ SameCall(c, proxy[c].req))
  <2>1. /\ Record(c, "DENY") /\ proxy' = [proxy EXCEPT ![c].pc = "refused"]
        /\ UNCHANGED <<life, served>>
    BY <1>5 DEF Claim, approvalVars
  <2>2. Silent(Listings) /\ Silent(ProxyCalls \ {c}) /\ <<c, "DENY">> \in journal'
    BY <2>1, CallsApart, ProxyJournalGrows
  <2>3. "refused" \in ProxyPcs /\ life' \in [Calls -> {"none", "asked", "granted", "closed", "used"}]
    BY <1>2, <2>1 DEF ProxyPcs
  <2>4. /\ ProxyTypeOK'
        /\ \A d \in ProxyCalls : CallKnows(d)'
        /\ \A l \in Listings : ListKnows(l)'
    BY <1>1, <2>1, <2>2, <2>3, MoveKnows
  <2>5. /\ proxy'[c].pc = "refused" /\ proxy'[c].req = proxy[c].req
        /\ \A d \in ProxyCalls : d # c => proxy'[d] = proxy[d]
    BY <2>1 DEF ProxyInv, ProxyTypeOK
  <2>6. ~Holds(c)'
    BY <2>5 DEF Holds
  <2>7. AskersWait' /\ OneHolder' /\ RanIsSent'
    BY <1>1, <2>1, <2>5, <2>6, RestKept
  <2>. QED
    BY <2>4, <2>7 DEF ProxyInv
<1>. QED
  BY <1>4, <1>5

(* The second decision of a redemption is journaled too.                   *)
LEMMA ConfirmKeeps ==
  ASSUME ProxyInv, NEW c \in ProxyCalls, Confirm(c)
  PROVE  ProxyInv'
<1>1. UNCHANGED <<revoked, listing, ran>> /\ proxy[c].pc = "claimed" /\ Holds(c) /\ Verified(c)
  BY DEF Confirm, Holds, Verified
<1>2. PICK a \in Answers :
        LET outcome == Decided(c, a, TRUE) IN
        /\ Record(c, outcome)
        /\ IF Forwards(outcome)
           THEN /\ Approvals!Serve(proxy[c].req, c)
                /\ proxy' = [proxy EXCEPT ![c].pc = "allowed"]
           ELSE /\ UNCHANGED approvalVars
                /\ proxy' = [proxy EXCEPT ![c].pc = "refused"]
  BY DEF Confirm
<1> DEFINE outcome == Decided(c, a, TRUE)
<1>3. outcome \in Outcomes
  BY DecidedOutcome
<1>4. /\ Record(c, outcome)
      /\ IF Forwards(outcome)
         THEN /\ Approvals!Serve(proxy[c].req, c)
              /\ proxy' = [proxy EXCEPT ![c].pc = "allowed"]
         ELSE /\ UNCHANGED approvalVars
              /\ proxy' = [proxy EXCEPT ![c].pc = "refused"]
  BY <1>2
<1> HIDE DEF outcome
<1>5. Silent(Listings) /\ Silent(ProxyCalls \ {c}) /\ <<c, outcome>> \in journal'
  BY <1>4, CallsApart, ProxyJournalGrows
<1>6. life' = life
  BY <1>4 DEF approvalVars, Approvals!Serve
<1>7. PICK x \in {"allowed", "refused"} :
        /\ proxy' = [proxy EXCEPT ![c].pc = x]
        /\ x = "allowed" => <<c, "ALLOW">> \in journal'
        /\ x = "refused" => <<c, "DENY">> \in journal' \/ <<c, "REQUIRE_APPROVAL">> \in journal'
  BY <1>3, <1>4, <1>5 DEF Forwards, Outcomes
<1>8. x \in ProxyPcs /\ life' \in [Calls -> {"none", "asked", "granted", "closed", "used"}]
  BY <1>6 DEF ProxyPcs, ProxyInv, ProxyTypeOK
<1>9. /\ ProxyTypeOK'
      /\ \A d \in ProxyCalls : CallKnows(d)'
      /\ \A l \in Listings : ListKnows(l)'
  BY <1>1, <1>5, <1>6, <1>7, <1>8, MoveKnows
<1>10. /\ proxy'[c].pc = x /\ proxy'[c].req = proxy[c].req
       /\ \A d \in ProxyCalls : d # c => proxy'[d] = proxy[d]
  BY <1>7 DEF ProxyInv, ProxyTypeOK
<1>11. AskersWait' /\ OneHolder' /\ RanIsSent'
  BY <1>1, <1>6, <1>10, RestKept
<1>. QED
  BY <1>9, <1>11 DEF ProxyInv

(* An allowed call is sent once, as what it asked for.                     *)
LEMMA ForwardKeeps ==
  ASSUME ProxyInv, NEW c \in ProxyCalls, Forward(c)
  PROVE  ProxyInv'
<1>1. /\ UNCHANGED <<life, served, revoked, journal, listing>>
      /\ proxy[c].pc = "allowed" /\ Holds(c) /\ Verified(c)
  BY DEF Forward, approvalVars, Holds, Verified
<1>2. PICK x \in {"sent", "unroutable"} :
        /\ proxy' = [proxy EXCEPT ![c].pc = x]
        /\ IF x = "sent" THEN Routable(proxy[c].asks.name) /\ ran' = ran \cup {Sending(c)}
           ELSE ran' = ran
  BY DEF Forward, Sending
<1>3. x \in ProxyPcs /\ life' \in [Calls -> {"none", "asked", "granted", "closed", "used"}]
  BY <1>1 DEF ProxyPcs, ProxyInv, ProxyTypeOK
<1>4. <<c, "ALLOW">> \in journal'
  BY <1>1 DEF ProxyInv, CallKnows
<1>5. /\ ProxyTypeOK'
      /\ \A d \in ProxyCalls : CallKnows(d)'
      /\ \A l \in Listings : ListKnows(l)'
  BY <1>1, <1>2, <1>3, <1>4, NothingRecorded, MoveKnows
<1>6. /\ proxy'[c].pc = x /\ proxy'[c].req = proxy[c].req /\ proxy'[c].asks = proxy[c].asks
      /\ \A d \in ProxyCalls : d # c => proxy'[d] = proxy[d]
  BY <1>2 DEF ProxyInv, ProxyTypeOK
<1>7. AskersWait'
  BY <1>1, <1>6 DEF ProxyInv, AskersWait, ProxyCalls, Wanted
<1>8. OneHolder'
  BY <1>1, <1>6, HoldersKept
<1>9. RanIsSent'
  <2> SUFFICES ASSUME NEW e \in ran'
               PROVE  /\ e.call \in ProxyCalls
                      /\ proxy'[e.call].pc = "sent"
                      /\ Routable(proxy'[e.call].asks.name)
                      /\ e = Sending(e.call)'
    BY DEF RanIsSent
  <2>1. CASE e \in ran
    BY <1>1, <1>6, <2>1, RanKept
  <2>2. CASE e \notin ran
    <3>1. x = "sent" /\ Routable(proxy[c].asks.name) /\ e = Sending(c)
      BY <1>2, <2>2
    <3>2. e.call = c
      BY <3>1 DEF Sending
    <3>3. Sending(c)' = Sending(c)
      BY <1>6 DEF Sending
    <3>. QED
      BY <1>6, <3>1, <3>2, <3>3
  <2>. QED
    BY <2>1, <2>2
<1>. QED
  BY <1>5, <1>7, <1>8, <1>9 DEF ProxyInv

(* A call that fails sends nothing.                                        *)
LEMMA AbortKeeps ==
  ASSUME ProxyInv, NEW c \in ProxyCalls, Abort(c)
  PROVE  ProxyInv'
<1>1. /\ UNCHANGED <<life, served, revoked, journal, listing, ran>>
      /\ proxy[c].pc \in {"verify", "gated", "claimed", "allowed"}
      /\ proxy' = [proxy EXCEPT ![c].pc = "raised"]
  BY DEF Abort, approvalVars
<1>2. "raised" \in ProxyPcs /\ life' \in [Calls -> {"none", "asked", "granted", "closed", "used"}]
  BY <1>1 DEF ProxyPcs, ProxyInv, ProxyTypeOK
<1>3. /\ ProxyTypeOK'
      /\ \A d \in ProxyCalls : CallKnows(d)'
      /\ \A l \in Listings : ListKnows(l)'
  BY <1>1, <1>2, NothingRecorded, MoveKnows
<1>4. /\ proxy'[c].pc = "raised" /\ proxy'[c].req = proxy[c].req
      /\ \A d \in ProxyCalls : d # c => proxy'[d] = proxy[d]
  BY <1>1 DEF ProxyInv, ProxyTypeOK
<1>5. ~Holds(c)'
  BY <1>4 DEF Holds
<1>6. AskersWait' /\ OneHolder' /\ RanIsSent'
  BY <1>1, <1>4, <1>5, RestKept
<1>. QED
  BY <1>3, <1>6 DEF ProxyInv

(* Steps of the humans, of time, of the owner and of the listings leave    *)
(* the calls where they are.                                               *)
LEMMA CallsStand ==
  ASSUME ProxyInv, UNCHANGED <<proxy, ran>>, Silent(ProxyCalls), revoked => revoked',
         \A r \in Calls : life[r] = "used" => life'[r] = "used",
         \A r \in Calls : life'[r] # "none" => life[r] # "none"
  PROVE  (\A c \in ProxyCalls : CallKnows(c)') /\ AskersWait' /\ OneHolder' /\ RanIsSent'
<1>0. \A c \in ProxyCalls : Silent({c})
  BY DEF Silent
<1>1. \A c \in ProxyCalls : CallKnows(c)'
  BY <1>0, OthersKnow
<1>2. AskersWait'
  BY DEF ProxyInv, AskersWait, Wanted
<1>3. OneHolder'
  BY DEF ProxyInv, OneHolder, Holds
<1>4. RanIsSent'
  BY DEF ProxyInv, RanIsSent, Sending
<1>. QED
  BY <1>1, <1>2, <1>3, <1>4

(* An approval is granted or closed: it was asked for, and it is not used. *)
LEMMA SettleKeeps ==
  ASSUME ProxyInv, NEW r \in Calls, Settle(r)
  PROVE  ProxyInv'
<1>1. UNCHANGED <<revoked, journal, proxy, listing, ran>>
  BY DEF Settle
<1>2. life \in [Calls -> {"none", "asked", "granted", "closed", "used"}]
  BY DEF ProxyInv, ProxyTypeOK
<1>3. /\ life[r] \in {"asked", "granted"}
      /\ life' \in [Calls -> {"none", "asked", "granted", "closed", "used"}]
      /\ \A s \in Calls : s # r => life'[s] = life[s]
  <2>1. CASE Approvals!Approve(r)
    BY <1>2, <2>1 DEF Approvals!Approve
  <2>2. CASE Approvals!Close({r})
    BY <1>2, <2>2 DEF Approvals!Close
  <2>. QED
    BY <2>1, <2>2 DEF Settle
<1>4. (\A c \in ProxyCalls : CallKnows(c)') /\ AskersWait' /\ OneHolder' /\ RanIsSent'
  <2>1. \A s \in Calls : /\ life[s] = "used" => life'[s] = "used"
                         /\ life'[s] # "none" => life[s] # "none"
    BY <1>3
  <2>. QED
    BY <1>1, <2>1, NothingRecorded, CallsStand
<1>5. ProxyTypeOK'
  BY <1>1, <1>3 DEF ProxyInv, ProxyTypeOK
<1>6. \A l \in Listings : ListKnows(l)'
  BY <1>1, NothingRecorded, ListingsKept
<1>. QED
  BY <1>4, <1>5, <1>6 DEF ProxyInv

(* From now on no token is good; what was verified before stays so.        *)
LEMMA RevokeKeeps ==
  ASSUME ProxyInv, Revoke
  PROVE  ProxyInv'
<1>1. UNCHANGED <<life, served, journal, proxy, listing, ran>> /\ revoked' = TRUE
  BY DEF Revoke, approvalVars
<1>2. (\A c \in ProxyCalls : CallKnows(c)') /\ AskersWait' /\ OneHolder' /\ RanIsSent'
  BY <1>1, NothingRecorded, CallsStand
<1>3. ProxyTypeOK'
  BY <1>1 DEF ProxyInv, ProxyTypeOK
<1>4. \A l \in Listings : ListKnows(l)'
  BY <1>1, NothingRecorded, ListingsKept
<1>. QED
  BY <1>2, <1>3, <1>4 DEF ProxyInv

-----------------------------------------------------------------------------
(* The listings                                                            *)

(* A listing moves: what is left to show is what it knows itself.          *)
LEMMA ListMoves ==
  ASSUME ProxyInv, NEW l \in Listings, Silent(ProxyCalls), Silent(Listings \ {l}),
         NEW x \in [pc : {"decide", "record", "done"}, chain : {q.chain : q \in Requests},
                    offered : SUBSET Candidates, names : SUBSET Candidates],
         listing' = [listing EXCEPT ![l] = x],
         UNCHANGED <<life, revoked, proxy, ran>>,
         x.names \subseteq x.offered, \A n \in x.names : Resource(n) \in x.chain.scope,
         x.pc # "done" => x.offered # {},
         x.pc = "done" =>
           IF x.offered = {} THEN ~Journaled(l)'
           ELSE <<l, IF x.names = {} THEN "DENY" ELSE "ALLOW">> \in journal'
  PROVE  ProxyInv'
<1>1. /\ ProxyTypeOK /\ \A k \in Listings : ListKnows(k)
  BY DEF ProxyInv
<1>2. listing \in [Listings -> [pc : {"idle", "decide", "record", "done"},
                               chain : {q.chain : q \in Requests},
                               offered : SUBSET Candidates, names : SUBSET Candidates]]
  BY <1>1 DEF ProxyTypeOK
<1>3. /\ listing'[l] = x
      /\ \A k \in Listings : k # l => listing'[k] = listing[k]
  BY <1>2
<1>4. listing' \in [Listings -> [pc : {"idle", "decide", "record", "done"},
                                chain : {q.chain : q \in Requests},
                                offered : SUBSET Candidates, names : SUBSET Candidates]]
  BY <1>2
<1>5. ProxyTypeOK'
  BY <1>1, <1>4 DEF ProxyTypeOK
<1>6. ASSUME NEW k \in Listings
      PROVE  ListKnows(k)'
  <2>1. CASE k = l
    BY <1>3, <2>1 DEF ListKnows
  <2>2. CASE k # l
    <3>1. /\ listing'[k] = listing[k] /\ ListKnows(k)
          /\ journal \subseteq journal' /\ (Journaled(k)' <=> Journaled(k))
      BY <1>1, <1>3, <2>2 DEF Silent
    <3>. QED
      BY <3>1 DEF ListKnows
  <2>. QED
    BY <2>1, <2>2
<1>7. (\A c \in ProxyCalls : CallKnows(c)') /\ AskersWait' /\ OneHolder' /\ RanIsSent'
  BY CallsStand
<1>. QED
  BY <1>5, <1>6, <1>7 DEF ProxyInv

(* Only names the token is good for are looked at; with no names, nothing  *)
(* is looked at.                                                           *)
LEMMA ListToolsKeeps ==
  ASSUME ProxyInv, NEW l \in Listings, ListTools(l)
  PROVE  ProxyInv'
<1>1. UNCHANGED <<life, served, revoked, proxy, ran>> /\ listing[l].pc = "idle"
  BY DEF ListTools, approvalVars
<1> DEFINE At(pc, s, offered, names) ==
             [pc |-> pc, chain |-> s, offered |-> offered, names |-> names]
           Good(s, offered) ==
             {n \in offered : ValidResource(Resource(n)) /\ TokenPermits(s, Resource(n))}
<1>2. PICK s \in {q.chain : q \in Requests}, offered \in SUBSET Candidates :
        \/ /\ offered = {} /\ UNCHANGED journal
           /\ listing' = [listing EXCEPT ![l] = At("done", s, offered, {})]
        \/ /\ offered # {} /\ revoked /\ Record(l, "DENY")
           /\ listing' = [listing EXCEPT ![l] = At("done", s, offered, {})]
        \/ /\ offered # {} /\ ~revoked /\ UNCHANGED journal
           /\ listing' = [listing EXCEPT ![l] = At("decide", s, offered, Good(s, offered))]
  BY DEF ListTools
<1>3. Good(s, offered) \subseteq offered /\ \A n \in Good(s, offered) : Resource(n) \in s.scope
  BY DEF TokenPermits
<1> HIDE DEF Good
<1>4. ASSUME NEW pc \in {"decide", "record", "done"}, NEW names \in SUBSET offered
      PROVE  /\ At(pc, s, offered, names) \in
                  [pc : {"decide", "record", "done"}, chain : {q.chain : q \in Requests},
                   offered : SUBSET Candidates, names : SUBSET Candidates]
             /\ At(pc, s, offered, names).pc = pc /\ At(pc, s, offered, names).chain = s
             /\ At(pc, s, offered, names).offered = offered
             /\ At(pc, s, offered, names).names = names
  OBVIOUS
<1> HIDE DEF At
<1>5. CASE /\ offered = {} /\ UNCHANGED journal
           /\ listing' = [listing EXCEPT ![l] = At("done", s, offered, {})]
  <2>1. ~Journaled(l)'
    BY <1>1, <1>5 DEF ProxyInv, ListKnows, Journaled
  <2> DEFINE x == At("done", s, offered, {})
  <2>2. /\ x \in [pc : {"decide", "record", "done"}, chain : {q.chain : q \in Requests},
                  offered : SUBSET Candidates, names : SUBSET Candidates]
        /\ x.pc = "done" /\ x.offered = {} /\ x.names = {}
    BY <1>4, <1>5
  <2>3. listing' = [listing EXCEPT ![l] = x] /\ Silent(ProxyCalls) /\ Silent(Listings \ {l})
    BY <1>5, NothingRecorded
  <2> HIDE DEF x
  <2>. QED
    BY <1>1, <2>1, <2>2, <2>3, ListMoves
<1>6. CASE /\ offered # {} /\ revoked /\ Record(l, "DENY")
           /\ listing' = [listing EXCEPT ![l] = At("done", s, offered, {})]
  <2>1. Silent(ProxyCalls) /\ Silent(Listings \ {l}) /\ <<l, "DENY">> \in journal'
    BY <1>6, CallsApart, ProxyJournalGrows
  <2> DEFINE x == At("done", s, offered, {})
  <2>2. /\ x \in [pc : {"decide", "record", "done"}, chain : {q.chain : q \in Requests},
                  offered : SUBSET Candidates, names : SUBSET Candidates]
        /\ x.pc = "done" /\ x.offered = offered /\ x.names = {}
    BY <1>4
  <2>3. listing' = [listing EXCEPT ![l] = x]
    BY <1>6
  <2> HIDE DEF x
  <2>. QED
    BY <1>1, <1>6, <2>1, <2>2, <2>3, ListMoves
<1>7. CASE /\ offered # {} /\ ~revoked /\ UNCHANGED journal
           /\ listing' = [listing EXCEPT ![l] = At("decide", s, offered, Good(s, offered))]
  <2> DEFINE x == At("decide", s, offered, Good(s, offered))
  <2>1. /\ x \in [pc : {"decide", "record", "done"}, chain : {q.chain : q \in Requests},
                  offered : SUBSET Candidates, names : SUBSET Candidates]
        /\ x.pc = "decide" /\ x.offered = offered /\ x.names = Good(s, offered) /\ x.chain = s
    BY <1>3, <1>4
  <2>2. listing' = [listing EXCEPT ![l] = x] /\ Silent(ProxyCalls) /\ Silent(Listings \ {l})
    BY <1>7, NothingRecorded
  <2> HIDE DEF x
  <2>3. x.names \subseteq x.offered /\ \A n \in x.names : Resource(n) \in x.chain.scope
    BY <1>3, <2>1
  <2>4. x.pc # "done" /\ x.offered # {}
    BY <1>7, <2>1
  <2>. QED
    BY <1>1, <2>1, <2>2, <2>3, <2>4, ListMoves
<1>. QED
  BY <1>2, <1>5, <1>6, <1>7

(* The decision only takes names away.                                     *)
LEMMA ListDecideKeeps ==
  ASSUME ProxyInv, NEW l \in Listings, ListDecide(l)
  PROVE  ProxyInv'
<1>1. UNCHANGED <<life, served, revoked, journal, proxy, ran>> /\ listing[l].pc = "decide"
  BY DEF ListDecide, approvalVars
<1>2. listing \in [Listings -> [pc : {"idle", "decide", "record", "done"},
                               chain : {q.chain : q \in Requests},
                               offered : SUBSET Candidates, names : SUBSET Candidates]]
  BY DEF ProxyInv, ProxyTypeOK
<1> DEFINE s == listing[l].chain
<1>3. PICK related \in SUBSET {Resource(n) : n \in listing[l].names}, answered \in BOOLEAN :
        listing' = [listing EXCEPT ![l] = [@ EXCEPT !.pc = "record",
          !.names = {n \in listing[l].names : "DENY" #
            EvaluateEach(Resource(n) \in s.scope, Resource(n), related, answered,
              PolicyVerdict(ToolApprovals, ToolDenials, Resource(n), NoArguments, FALSE))}]]
  BY DEF ListDecide
<1> DEFINE names == {n \in listing[l].names : "DENY" #
             EvaluateEach(Resource(n) \in s.scope, Resource(n), related, answered,
               PolicyVerdict(ToolApprovals, ToolDenials, Resource(n), NoArguments, FALSE))}
<1>4. names \subseteq listing[l].names
  OBVIOUS
<1> DEFINE x == [listing[l] EXCEPT !.pc = "record", !.names = names]
<1>5. listing' = [listing EXCEPT ![l] = x]
  BY <1>3, Zenon
<1> HIDE DEF names
<1>6. /\ x \in [pc : {"decide", "record", "done"}, chain : {q.chain : q \in Requests},
                offered : SUBSET Candidates, names : SUBSET Candidates]
      /\ x.names = names /\ x.chain = s /\ x.pc = "record" /\ x.offered = listing[l].offered
  BY <1>2, <1>4
<1>7. /\ \A n \in names : Resource(n) \in s.scope
      /\ names \subseteq listing[l].offered /\ listing[l].offered # {}
  BY <1>1, <1>4 DEF ProxyInv, ListKnows
<1> HIDE DEF s, x
<1>. QED
  BY <1>1, <1>5, <1>6, <1>7, NothingRecorded, ListMoves

(* What is shown is journaled as it is shown.                              *)
LEMMA ListRecordKeeps ==
  ASSUME ProxyInv, NEW l \in Listings, ListRecord(l)
  PROVE  ProxyInv'
<1>1. UNCHANGED <<life, served, revoked, proxy, ran>> /\ listing[l].pc = "record"
  BY DEF ListRecord, approvalVars
<1>2. listing \in [Listings -> [pc : {"idle", "decide", "record", "done"},
                               chain : {q.chain : q \in Requests},
                               offered : SUBSET Candidates, names : SUBSET Candidates]]
  BY DEF ProxyInv, ProxyTypeOK
<1> DEFINE s == listing[l].chain
           names == listing[l].names
           x == [listing[l] EXCEPT !.pc = "done"]
<1>3. listing' = [listing EXCEPT ![l] = x]
  BY DEF ListRecord
<1>4. /\ Silent(ProxyCalls) /\ Silent(Listings \ {l})
      /\ <<l, IF names = {} THEN "DENY" ELSE "ALLOW">> \in journal'
  BY CallsApart, ProxyJournalGrows DEF ListRecord
<1>5. /\ x \in [pc : {"decide", "record", "done"}, chain : {q.chain : q \in Requests},
                offered : SUBSET Candidates, names : SUBSET Candidates]
      /\ x.names = names /\ x.chain = s /\ x.pc = "done" /\ x.offered = listing[l].offered
  BY <1>2
<1>6. /\ \A n \in names : Resource(n) \in s.scope
      /\ names \subseteq listing[l].offered /\ listing[l].offered # {}
  BY <1>1 DEF ProxyInv, ListKnows
<1> HIDE DEF s, names, x
<1>. QED
  BY <1>1, <1>3, <1>4, <1>5, <1>6, ListMoves

-----------------------------------------------------------------------------
(* The theorems                                                            *)

(* Every step of the proxy, of its listings and of the world keeps the     *)
(* invariant.                                                              *)
LEMMA ProxyStep ==
  ASSUME ProxyInv, [ProxyNext]_proxyVars
  PROVE  ProxyInv'
<1>1. CASE UNCHANGED proxyVars
  <2>1. UNCHANGED <<life, served, revoked, journal, proxy, listing, ran>>
    BY <1>1 DEF proxyVars
  <2>2. (\A c \in ProxyCalls : CallKnows(c)') /\ AskersWait' /\ OneHolder' /\ RanIsSent'
    BY <2>1, NothingRecorded, CallsStand
  <2>3. \A l \in Listings : ListKnows(l)'
    BY <2>1, NothingRecorded, ListingsKept
  <2>. QED
    BY <2>1, <2>2, <2>3 DEF ProxyInv, ProxyTypeOK
<1>2. ASSUME NEW c \in ProxyCalls,
             Start(c) \/ VerifyToken(c) \/ Authorize(c) \/ Claim(c)
               \/ Confirm(c) \/ Forward(c) \/ Abort(c)
      PROVE  ProxyInv'
  BY <1>2, StartKeeps, VerifyKeeps, AuthorizeKeeps, ClaimKeeps, ConfirmKeeps, ForwardKeeps,
     AbortKeeps
<1>3. ASSUME NEW l \in Listings, ListTools(l) \/ ListDecide(l) \/ ListRecord(l)
      PROVE  ProxyInv'
  BY <1>3, ListToolsKeeps, ListDecideKeeps, ListRecordKeeps
<1>. QED
  BY <1>1, <1>2, <1>3, SettleKeeps, RevokeKeeps DEF ProxyNext, CallStep, ListStep

(* The inductive invariant holds: at each point of its way a call knows    *)
(* what the point stands for (mcp.py, _call_tool, _redeem, _forward).      *)
THEOREM ProxyInvariant == ProxySpec => []ProxyInv
<1>1. ProxyInit => ProxyInv
  BY ProxyStarts
<1>2. ProxyInv /\ [ProxyNext]_proxyVars => ProxyInv'
  BY ProxyStep
<1>. QED
  BY <1>1, <1>2, PTL DEF ProxySpec

(* What a sent call was authorised as, for one call.                       *)
LEMMA SentWasAuthorized ==
  ASSUME ProxyInv, NEW e \in ran
  PROVE  LET r == proxy[e.call].req IN
         /\ e.call \in ProxyCalls
         /\ Resource(Asked(e.call).name) = Resource(Prefixed(e.server, e.tool))
         /\ Asked(e.call).args = e.args
         /\ Identity(Asked(e.call).chain) = Identity(proxy[e.call].asks.chain)
         /\ Resource(Asked(e.call).name) \in Asked(e.call).chain.scope
         /\ Resource(Asked(e.call).name) \in proxy[e.call].asks.chain.scope
         /\ life[r] = IF e.call \in Calls THEN "none" ELSE "used"
         /\ ~proxy[e.call].late
<1> DEFINE c == e.call
           q == proxy[c].asks
           r == proxy[c].req
           p == Partition(q.name)
<1>1. /\ c \in ProxyCalls /\ proxy[c].pc = "sent" /\ Routable(q.name)
      /\ e = [call |-> c, server |-> p.server, tool |-> p.tool, args |-> q.args]
  BY DEF ProxyInv, RanIsSent, Sending
<1>2. e.server = p.server /\ e.tool = p.tool /\ e.args = q.args
  BY <1>1
<1>3. /\ q \in Requests /\ r \in Calls
      /\ life \in [Calls -> {"none", "asked", "granted", "closed", "used"}]
  BY <1>1 DEF ProxyInv, ProxyTypeOK
<1>4. q.name \in Seq(Characters) /\ p.found
  BY <1>1, <1>3, ProxyAssumption DEF Routable
<1>5. Prefixed(e.server, e.tool) = q.name
  <2>1. Prefixed(p.server, p.tool) = q.name
    BY <1>4, PrefixedPartition
  <2>. QED
    BY <1>2, <2>1
<1>6. /\ ~proxy[c].late /\ Resource(q.name) \in q.chain.scope
      /\ c \in Calls => r = c
      /\ c \in Redemptions => life[r] = "used" /\ SameCall(c, r)
  BY <1>1 DEF ProxyInv, CallKnows, Verified, Holds, Wanted
<1>7. CASE c \in Calls
  <2>1. life[c] = "none"
    BY <1>1, <1>3, <1>7 DEF ProxyInv, AskersWait
  <2>2. Asked(c) = q
    BY <1>6, <1>7 DEF Asked
  <2>. QED
    BY <1>1, <1>2, <1>5, <1>6, <1>7, <2>1, <2>2
<1>8. CASE c \notin Calls
  <2>1. /\ Resource(q.name) = Resource(proxy[r].asks.name)
        /\ q.args = proxy[r].asks.args /\ Identity(q.chain) = Identity(proxy[r].asks.chain)
        /\ life[r] = "used"
    BY <1>1, <1>6, <1>8 DEF ProxyCalls, SameCall, Wanted
  <2>3. Resource(proxy[r].asks.name) \in proxy[r].asks.chain.scope
    BY <1>3, <2>1 DEF ProxyInv, AskersWait, Wanted
  <2>2. Asked(c) = proxy[r].asks
    BY DEF Asked
  <2>. QED
    BY <1>1, <1>2, <1>5, <1>6, <1>8, <2>1, <2>2, <2>3
<1>. QED
  BY <1>7, <1>8

(* What reaches an upstream was allowed as what it is and for whoever      *)
(* asked, within the scopes of the token that asked and of the one that    *)
(* redeems; one approval is good for one call (mcp.py, _call_tool,         *)
(* _redeem, _forward; gate.py, _mismatch).                                 *)
THEOREM SentCallsAuthorized == ProxySpec => []RanWasAuthorized
<1>1. ProxyInv => RanWasAuthorized
  <2> SUFFICES ASSUME ProxyInv
               PROVE  RanWasAuthorized
    OBVIOUS
  <2>1. ASSUME NEW e \in ran, NEW f \in ran, proxy[e.call].req = proxy[f.call].req
        PROVE  e = f
    <3>1. /\ e.call \in ProxyCalls /\ f.call \in ProxyCalls
          /\ proxy[e.call].pc = "sent" /\ proxy[f.call].pc = "sent"
          /\ e = Sending(e.call) /\ f = Sending(f.call)
      BY DEF ProxyInv, RanIsSent
    <3>2. \A g \in ran : life[proxy[g.call].req] = IF g.call \in Calls THEN "none" ELSE "used"
      BY SentWasAuthorized
    <3>3. e.call \in Calls <=> f.call \in Calls
      BY <2>1, <3>2
    <3>4. CASE e.call \in Calls
      BY <2>1, <3>1, <3>3, <3>4 DEF ProxyInv, CallKnows
    <3>5. CASE e.call \notin Calls
      BY <2>1, <3>1, <3>3, <3>5 DEF ProxyInv, OneHolder, Holds, ProxyCalls
    <3>6. e.call = f.call
      BY <3>3, <3>4, <3>5, <3>1, <2>1 DEF ProxyInv, CallKnows
    <3>. QED
      BY <3>1, <3>6
  <2>. QED
    BY <2>1, SentWasAuthorized DEF RanWasAuthorized
<1>. QED
  BY <1>1, ProxyInvariant, PTL

(* A call that starts after the token is revoked never reaches an upstream *)
(* (session.py, nothing is cached between calls).                          *)
THEOREM NothingSentAfterRevoke == ProxySpec => []RevokedReachesNothing
<1>1. ProxyInv => RevokedReachesNothing
  BY SentWasAuthorized DEF RevokedReachesNothing
<1>. QED
  BY <1>1, ProxyInvariant, PTL

(* A listed name leads to the upstream and the tool it stands for.         *)
LEMMA CandidateRoutes ==
  ASSUME NEW n \in Candidates, \A s \in DOMAIN Upstreams : s[Len(s)] # Underscore
  PROVE  LET p == Partition(n)
         IN  /\ p.server \in DOMAIN Upstreams /\ p.tool \in Upstreams[p.server]
             /\ Routable(n) \/ p.tool = << >>
<1>1. PICK s \in DOMAIN Upstreams : \E t \in Upstreams[s] : n = Prefixed(s, t)
  BY DEF Candidates
<1>2. PICK t \in Upstreams[s] : n = Prefixed(s, t)
  BY <1>1
<1>3. ValidUpstream(s) /\ s \in Seq(Characters) /\ t \in Seq(Characters)
  BY ProxyAssumption
<1>4. Partition(n) = [server |-> s, found |-> TRUE, tool |-> t]
  BY <1>2, <1>3, PartitionPrefixed
<1>. QED
  BY <1>4 DEF Routable

(* Every answer has its decision in the journal, but for two that leave    *)
(* none: the refusal of a name that cannot be a resource and the list of   *)
(* no tools.  A list shows nothing the token may not be used for           *)
(* (session.py, catalog.py, mcp.py).                                       *)
THEOREM AnswersInJournal == ProxySpec => []AnswersMatchJournal
<1>1. ProxyInv => AnswersMatchJournal
  <2> SUFFICES ASSUME ProxyInv
               PROVE  AnswersMatchJournal
    OBVIOUS
  <2>1. \A c \in ProxyCalls :
          /\ proxy[c].pc = "refused" =>
               <<c, "DENY">> \in journal \/ <<c, "REQUIRE_APPROVAL">> \in journal
          /\ proxy[c].pc \in {"refused", "invalid"} =>
               (Journaled(c) <=> ValidResource(Wanted(c)))
          /\ proxy[c].pc \in {"sent", "unroutable"} => <<c, "ALLOW">> \in journal
    BY DEF ProxyInv, CallKnows, Journaled
  <2>2. \A l \in Listings : ListKnows(l) /\ listing[l].names \subseteq Candidates
    BY DEF ProxyInv, ProxyTypeOK
  <2>3. \A l \in Listings : listing[l].pc = "done" =>
          /\ Journaled(l) <=> listing[l].offered # {}
          /\ Journaled(l) => <<l, IF listing[l].names = {} THEN "DENY" ELSE "ALLOW">> \in journal
          /\ \A n \in listing[l].names :
               n \in listing[l].offered /\ Resource(n) \in listing[l].chain.scope
    BY <2>2 DEF ListKnows, Journaled
  <2>. QED
    BY <2>1, <2>2, <2>3, CandidateRoutes DEF AnswersMatchJournal
<1>. QED
  BY <1>1, ProxyInvariant, PTL
=============================================================================
