----------------------------- MODULE ReadProofs -----------------------------
(***************************************************************************)
(* The read filter, for any documents, items, batch limit and threshold,   *)
(* and any number of changes of rights during the call; and the reads of   *)
(* the connectors, for any worlds of a source that are consistent, any     *)
(* size of a page, and any changes of the source during the read.          *)
(***************************************************************************)
EXTENDS ReadFilter, Connectors, FiniteSetTheorems, WellFoundedInduction, TLAPS

-----------------------------------------------------------------------------
(* Sorting                                                                 *)

(* s lists the numbers of S, each once, in increasing order.               *)
Lists(s, S) ==
  /\ s \in [1 .. Cardinality(S) -> S] /\ Range(s) = S
  /\ \A i, j \in DOMAIN s : i < j => s[i] < s[j]

(* A set of numbers that is not empty has a least one.                     *)
LEMMA HasLeast ==
  ASSUME NEW S \in SUBSET Nat, S # {}
  PROVE  \E x \in S : \A y \in S : x <= y
<1> DEFINE Less == OpToRel(<, Nat)
<1>1. \E x \in S : \A y \in S : ~(<<y, x>> \in Less)
  BY WFMin, NatLessThanWellFounded
<1>2. \A x, y \in Nat : y < x => <<y, x>> \in Less
  BY DEF OpToRel
<1> HIDE DEF Less
<1>3. PICK x \in S : \A y \in S : ~(<<y, x>> \in Less)
  BY <1>1
<1>4. ASSUME NEW y \in S PROVE x <= y
  <2>1. ~(y < x)
    BY <1>2, <1>3, Zenon
  <2> QED
    BY <2>1
<1> QED
  BY <1>4

(* The least number goes in front of the others.                           *)
LEMMA ListsOneMore ==
  ASSUME NEW S \in SUBSET Nat, IsFiniteSet(S), NEW x \in S, \A y \in S : x <= y,
         NEW t, Lists(t, S \ {x})
  PROVE  \E s : Lists(s, S)
<1> DEFINE n == Cardinality(S)
           s == [i \in 1 .. n |-> IF i = 1 THEN x ELSE t[i - 1]]
<1>1. n \in Nat /\ n # 0
  BY FS_CardinalityType, FS_EmptySet
<1>2. Cardinality(S \ {x}) = n - 1
  BY FS_RemoveElement
<1> HIDE DEF n
<1>3. t \in [1 .. n - 1 -> S \ {x}] /\ Range(t) = S \ {x} /\ DOMAIN t = 1 .. n - 1
  BY <1>2 DEF Lists
<1>4. s \in [1 .. n -> S]
  BY <1>1, <1>3
<1>5. s[1] = x /\ \A i \in 2 .. n : s[i] = t[i - 1] /\ i - 1 \in 1 .. n - 1
  BY <1>1
<1>6. \A i \in 1 .. n - 1 : s[i + 1] = t[i] /\ i + 1 \in 1 .. n
  BY <1>1
<1>7. DOMAIN s = 1 .. n
  OBVIOUS
<1> HIDE DEF s
<1>8. Range(s) = S
  <2>1. ASSUME NEW y \in S PROVE y \in Range(s)
    <3>1. CASE y = x
      BY <1>1, <1>5, <1>7, <3>1 DEF Range
    <3>2. CASE y # x
      <4>1. PICK i \in 1 .. n - 1 : y = t[i]
        BY <1>3, <3>2 DEF Range
      <4> QED
        BY <1>1, <1>6, <1>7, <4>1 DEF Range
    <3> QED
      BY <3>1, <3>2
  <2> QED
    BY <1>4, <1>7, <2>1 DEF Range
<1>9. ASSUME NEW i \in 1 .. n, NEW j \in 1 .. n, i < j PROVE s[i] < s[j]
  <2>1. j \in 2 .. n /\ s[j] = t[j - 1] /\ j - 1 \in 1 .. n - 1
    BY <1>1, <1>5, <1>9
  <2>2. CASE i = 1
    <3>1. t[j - 1] \in S /\ t[j - 1] # x
      BY <1>3, <2>1
    <3>2. x \in Nat /\ t[j - 1] \in Nat /\ x <= t[j - 1]
      BY <3>1
    <3>3. s[i] = x /\ s[j] = t[j - 1]
      BY <1>5, <2>1, <2>2
    <3> QED
      BY <3>1, <3>2, <3>3
  <2>3. CASE i # 1
    <3>1. s[i] = t[i - 1] /\ i - 1 \in 1 .. n - 1 /\ i - 1 < j - 1
      BY <1>1, <1>5, <1>9, <2>3
    <3>2. \A k, l \in 1 .. n - 1 : k < l => t[k] < t[l]
      BY <1>3 DEF Lists
    <3> QED
      BY <2>1, <3>1, <3>2
  <2> QED
    BY <2>2, <2>3
<1> QED
  BY <1>4, <1>8, <1>9, <1>7 DEF Lists, n

(* Every finite set of numbers can be sorted: a smallest set that could    *)
(* not be would have a least number, and the others could be.              *)
LEMMA CanBeSorted == \A S \in SUBSET Nat : IsFiniteSet(S) => \E s : Lists(s, S)
<1> DEFINE Bad == {n \in Nat : \E S \in SUBSET Nat :
                     IsFiniteSet(S) /\ Cardinality(S) = n /\ ~\E s : Lists(s, S)}
<1>1. ASSUME Bad # {} PROVE FALSE
  <2>1. PICK n \in Bad : \A k \in Bad : n <= k
    BY <1>1, HasLeast
  <2>2. PICK S \in SUBSET Nat : IsFiniteSet(S) /\ Cardinality(S) = n /\ ~\E s : Lists(s, S)
    BY <2>1
  <2>3. S # {}
    <3>1. ASSUME S = {} PROVE Lists(<< >>, S)
      <4>1. Cardinality(S) = 0
        BY <3>1, FS_EmptySet
      <4> QED
        BY <3>1, <4>1 DEF Lists, Range
    <3> QED
      BY <2>2, <3>1
  <2>4. PICK x \in S : \A y \in S : x <= y
    BY <2>3, HasLeast
  <2>5. IsFiniteSet(S \ {x}) /\ Cardinality(S \ {x}) = n - 1
    BY <2>2, FS_RemoveElement
  <2>6. n \in Nat /\ n - 1 \in Nat
    BY <2>1, <2>5, FS_CardinalityType
  <2>7. n - 1 \notin Bad
    BY <2>1, <2>6
  <2>8. PICK t : Lists(t, S \ {x})
    <3>1. S \ {x} \in SUBSET Nat
      OBVIOUS
    <3> HIDE DEF Lists
    <3> QED
      BY <2>5, <2>6, <2>7, <3>1
  <2>9. \E s : Lists(s, S)
    BY <2>2, <2>4, <2>8, ListsOneMore
  <2> QED
    BY <2>2, <2>9
<1> QED
  BY <1>1, FS_CardinalityType

LEMMA SortedLists ==
  ASSUME NEW S \in SUBSET Nat, IsFiniteSet(S)
  PROVE  Lists(Sorted(S), S)
<1>1. \E s \in [1 .. Cardinality(S) -> S] :
        /\ Range(s) = S
        /\ \A i, j \in DOMAIN s : i < j => s[i] < s[j]
  BY CanBeSorted DEF Lists
<1> QED
  BY <1>1 DEF Sorted, Lists

(* A sorted set is a sequence of its members, as long as there are any.    *)
LEMMA SortedType ==
  ASSUME NEW S \in SUBSET Nat, IsFiniteSet(S), NEW X, S \subseteq X
  PROVE  /\ Sorted(S) \in Seq(X) /\ Len(Sorted(S)) = Cardinality(S)
         /\ DOMAIN Sorted(S) = 1 .. Cardinality(S) /\ Range(Sorted(S)) = S
<1>1. Cardinality(S) \in Nat
  BY FS_CardinalityType
<1>2. Sorted(S) \in [1 .. Cardinality(S) -> S] /\ Range(Sorted(S)) = S
  BY SortedLists DEF Lists
<1>3. Sorted(S) \in [1 .. Cardinality(S) -> X]
  BY <1>2
<1> QED
  BY <1>1, <1>2, <1>3

-----------------------------------------------------------------------------
(* The loop over the items                                                 *)

Positions(items, chosen) == {i \in DOMAIN items : items[i] \in chosen}

(* There are finitely many of them, and they are numbers.                  *)
LEMMA PositionsFinite ==
  ASSUME NEW X, NEW items \in Seq(X), NEW chosen
  PROVE  /\ Positions(items, chosen) \in SUBSET Nat
         /\ IsFiniteSet(Positions(items, chosen))
         /\ Positions(items, chosen) \subseteq DOMAIN items
<1>1. DOMAIN items = 1 .. Len(items) /\ Len(items) \in Nat
  OBVIOUS
<1>2. IsFiniteSet(DOMAIN items)
  BY <1>1, FS_Interval
<1>3. Positions(items, chosen) \in SUBSET (DOMAIN items)
  BY DEF Positions
<1>4. IsFiniteSet(Positions(items, chosen))
  BY <1>2, <1>3, FS_Subset
<1> QED
  BY <1>1, <1>3, <1>4

(* What is selected: as many as there are positions, in their order.       *)
LEMMA SelectedInOrder ==
  ASSUME NEW X, NEW items \in Seq(X), NEW chosen
  PROVE  LET kept == Selected(items, chosen)
             P    == Positions(items, chosen)
             at   == Sorted(P)
         IN  /\ kept \in Seq(X) /\ Len(kept) = Cardinality(P) /\ DOMAIN kept = DOMAIN at
             /\ at \in [DOMAIN kept -> DOMAIN items] /\ Range(at) = P
             /\ \A i, j \in DOMAIN at : i < j => at[i] < at[j]
             /\ \A k \in DOMAIN at : kept[k] = items[at[k]] /\ at[k] \in P
<1> DEFINE P    == Positions(items, chosen)
           at   == Sorted(P)
           kept == [k \in DOMAIN at |-> items[at[k]]]
<1>1. P \in SUBSET Nat /\ IsFiniteSet(P) /\ P \subseteq DOMAIN items
  BY PositionsFinite
<1> HIDE DEF P
<1>2. Cardinality(P) \in Nat
  BY <1>1, FS_CardinalityType
<1>3. Lists(at, P)
  BY <1>1, SortedLists
<1> HIDE DEF at
<1>4. at \in [1 .. Cardinality(P) -> P] /\ Range(at) = P /\ DOMAIN at = 1 .. Cardinality(P)
  BY <1>3 DEF Lists
<1>5. \A i, j \in DOMAIN at : i < j => at[i] < at[j]
  BY <1>3 DEF Lists
<1>6. \A k \in 1 .. Cardinality(P) : at[k] \in P /\ at[k] \in DOMAIN items /\ items[at[k]] \in X
  <2>1. \A i \in DOMAIN items : items[i] \in X
    OBVIOUS
  <2>2. \A k \in 1 .. Cardinality(P) : at[k] \in P
    BY <1>4
  <2> QED
    BY <1>1, <2>1, <2>2, Zenon
<1>7. kept \in Seq(X) /\ Len(kept) = Cardinality(P) /\ DOMAIN kept = DOMAIN at
  BY <1>2, <1>4, <1>6
<1>8. at \in [DOMAIN kept -> DOMAIN items]
  BY <1>4, <1>6, <1>7
<1>9. \A k \in DOMAIN at : kept[k] = items[at[k]] /\ at[k] \in P
  BY <1>4, <1>6
<1>10. kept = Selected(items, chosen)
  BY DEF Selected, at, P, Positions
<1> HIDE DEF kept
<1> QED
  BY <1>4, <1>5, <1>7, <1>8, <1>9, <1>10 DEF at, P

(* Only items that are chosen are selected.                                *)
LEMMA SelectedAreChosen ==
  ASSUME NEW X, NEW items \in Seq(X), NEW chosen
  PROVE  Range(Selected(items, chosen)) \subseteq chosen
<1> DEFINE kept == Selected(items, chosen)
           P    == Positions(items, chosen)
           at   == Sorted(P)
<1>1. DOMAIN kept = DOMAIN at /\ \A k \in DOMAIN at : kept[k] = items[at[k]] /\ at[k] \in P
  BY SelectedInOrder
<1>2. \A i \in P : items[i] \in chosen
  BY DEF Positions
<1> HIDE DEF kept, P, at
<1>3. \A k \in DOMAIN kept : kept[k] \in chosen
  BY <1>1, <1>2
<1> QED
  BY <1>3 DEF Range, kept

(* A call without items.                                                   *)
LEMMA SelectedOfNone == ASSUME NEW chosen PROVE Selected(<< >>, chosen) = << >>
<1> DEFINE P == Positions(<< >>, chosen)
<1>1. << >> \in Seq({}) /\ P = {}
  BY DEF Positions
<1>2. Selected(<< >>, chosen) \in Seq({}) /\ Len(Selected(<< >>, chosen)) = Cardinality(P)
  BY <1>1, SelectedInOrder
<1>3. Cardinality(P) = 0
  BY <1>1, FS_EmptySet
<1> QED
  BY <1>2, <1>3

-----------------------------------------------------------------------------
(* Batches                                                                 *)

(* A chunk and what is left are all there was to ask.                      *)
LEMMA ChunkAndRest ==
  ASSUME NEW X, NEW todo \in Seq(X)
  PROVE  /\ Chunk(todo) \in Seq(X) /\ Rest(todo) \in Seq(X)
         /\ Range(todo) = Range(Chunk(todo)) \cup Range(Rest(todo))
<1> DEFINE n == IF Len(todo) < BatchLimit THEN Len(todo) ELSE BatchLimit
<1>1. n \in 0 .. Len(todo) /\ Len(todo) \in Nat
  BY FilterConstants
<1>2. Chunk(todo) = SubSeq(todo, 1, n)
  BY DEF Chunk
<1> HIDE DEF n
<1>3. Chunk(todo) \in Seq(X) /\ Len(Chunk(todo)) = n /\ DOMAIN Chunk(todo) = 1 .. n
  BY <1>1, <1>2
<1>4. Rest(todo) = SubSeq(todo, n + 1, Len(todo))
  BY <1>3 DEF Rest
<1>5. Rest(todo) \in Seq(X) /\ DOMAIN Rest(todo) = 1 .. Len(todo) - n
  BY <1>1, <1>4
<1>6. \A i \in 1 .. n : Chunk(todo)[i] = todo[i] /\ i \in DOMAIN todo
  BY <1>1, <1>2
<1>7. \A i \in 1 .. Len(todo) - n : Rest(todo)[i] = todo[n + i] /\ n + i \in DOMAIN todo
  BY <1>1, <1>4
<1>8. ASSUME NEW i \in DOMAIN todo PROVE todo[i] \in Range(Chunk(todo)) \cup Range(Rest(todo))
  <2>1. CASE i <= n
    <3>1. i \in 1 .. n
      BY <1>1, <2>1
    <3> QED
      BY <1>3, <1>6, <3>1 DEF Range
  <2>2. CASE ~(i <= n)
    <3>1. i - n \in 1 .. Len(todo) - n /\ n + (i - n) = i
      BY <1>1, <2>2
    <3>2. Rest(todo)[i - n] = todo[i]
      BY <1>7, <3>1
    <3> QED
      BY <1>5, <3>1, <3>2 DEF Range
  <2> QED
    BY <2>1, <2>2
<1>9. Range(Chunk(todo)) \subseteq Range(todo)
  BY <1>3, <1>6 DEF Range
<1>10. Range(Rest(todo)) \subseteq Range(todo)
  BY <1>5, <1>7 DEF Range
<1>11. Range(todo) \subseteq Range(Chunk(todo)) \cup Range(Rest(todo))
  BY <1>8 DEF Range
<1> QED
  BY <1>3, <1>5, <1>9, <1>10, <1>11

(* A reply is believed of the document it is about only.                   *)
LEMMA RelatedAreViewable ==
  ASSUME NEW chunk, NEW response \in Responses(chunk)
  PROVE  Related(chunk, response) \subseteq rights
<1> SUFFICES ASSUME NEW j \in DOMAIN chunk, NEW k \in DOMAIN response, response[k] = <<j, TRUE>>
             PROVE  chunk[j] \in rights
  BY DEF Related
<1>1. response[k][2] = (chunk[response[k][1]] \in rights)
  BY DEF Responses
<1>2. response[k][1] = j /\ response[k][2] = TRUE
  OBVIOUS
<1> QED
  BY <1>1, <1>2

(* In whatever order the replies came, a document that may be viewed is    *)
(* related unless no reply is about it.                                    *)
LEMMA RelatedOrMissing ==
  ASSUME NEW chunk, NEW response \in Responses(chunk)
  PROVE  Range(chunk) \cap rights \subseteq Related(chunk, response) \cup Missing(chunk, response)
<1>1. PICK m \in 0 .. Len(chunk) : response \in [1 .. m -> (DOMAIN chunk) \X BOOLEAN]
  BY DEF Responses, SeqOf
<1>2. \A k \in DOMAIN response : response[k] \in (DOMAIN chunk) \X BOOLEAN
  BY <1>1
<1>3. \A k \in DOMAIN response : response[k][2] = (chunk[response[k][1]] \in rights)
  BY DEF Responses
<1>4. ASSUME NEW j \in DOMAIN chunk, chunk[j] \in rights,
             NEW k \in DOMAIN response, response[k][1] = j
      PROVE  response[k] = <<j, TRUE>>
  <2>1. response[k][2] = TRUE
    BY <1>3, <1>4
  <2>2. response[k] = <<response[k][1], response[k][2]>>
    BY <1>2
  <2> QED
    BY <1>4, <2>1, <2>2
<1>5. ASSUME NEW j \in DOMAIN chunk, chunk[j] \in rights
      PROVE  chunk[j] \in Related(chunk, response) \cup Missing(chunk, response)
  <2>1. CASE \E k \in DOMAIN response : response[k][1] = j
    BY <1>4, <1>5, <2>1 DEF Related
  <2>2. CASE \A k \in DOMAIN response : response[k][1] # j
    BY <2>2 DEF Missing
  <2> QED
    BY <2>1, <2>2
<1> QED
  BY <1>5 DEF Range

(* Only documents of the chunk are missing.                                *)
LEMMA MissingOfChunk ==
  ASSUME NEW chunk, NEW response
  PROVE  Missing(chunk, response) \subseteq Range(chunk)
  BY DEF Missing, Range

-----------------------------------------------------------------------------
(* The invariant of a call                                                 *)

(* What was viewable all along is viewable now, and was counted.           *)
SeenHolds == call.pc # "idle" => always \subseteq rights /\ rights \subseteq viewable

(* Nothing is asked about what the token refuses.                          *)
AskedHolds ==
  /\ call.pc = "permits" => call.allowed = {}
  /\ call.pc \in {"list", "batch"} => Range(call.todo) \cap call.refused = {}

AllowedHolds ==
  \A d \in call.allowed :
    d \in viewable /\ d \in call.scope /\ d \notin call.refused /\ Policy[d] = "ALLOW"

(* What is sure to be kept is allowed already or has still to be asked     *)
(* about.                                                                  *)
NothingLost ==
  \A d \in Docs \cap Range(call.items) : Sure(d) =>
    /\ call.pc = "list" => d \in Range(call.todo)
    /\ call.pc = "batch" => d \in call.allowed \cup Range(call.todo)
    /\ call.pc \in {"finish", "record", "returned"} => d \in call.allowed

(* The result is what is allowed.                                          *)
ResultHolds ==
  IF call.pc \in {"record", "returned"} THEN call.kept = Selected(call.items, call.allowed)
                                        ELSE call.kept = << >>

FilterInv ==
  FilterTypeOK /\ SeenHolds /\ AskedHolds /\ AllowedHolds /\ NothingLost /\ ResultHolds

(* The documents of the items: finitely many.                              *)
LEMMA DocumentsFinite ==
  ASSUME NEW items \in ItemSeq
  PROVE  /\ DocumentRefs(items) \in SUBSET Docs /\ IsFiniteSet(DocumentRefs(items))
         /\ DocumentRefs(items) = Docs \cap Range(items)
<1>1. DOMAIN items = 1 .. Len(items) /\ Len(items) \in Nat
      /\ \A i \in DOMAIN items : items[i] \in Docs \cup {Invalid}
  BY DEF ItemSeq
<1>2. items \in Surjection(DOMAIN items, Range(items))
  <2>1. items \in [DOMAIN items -> Range(items)]
    BY DEF ItemSeq, Range
  <2> QED
    BY <2>1 DEF Surjection, Range
<1>3. IsFiniteSet(Range(items))
  BY <1>1, <1>2, FS_Interval, FS_Surjection
<1>4. DocumentRefs(items) \in SUBSET Range(items)
  BY DEF DocumentRefs, Range
<1>5. IsFiniteSet(DocumentRefs(items))
  BY <1>3, <1>4, FS_Subset
<1>6. DocumentRefs(items) = Docs \cap Range(items)
  BY <1>1, FilterConstants DEF DocumentRefs, Range
<1> QED
  BY <1>5, <1>6

(* Some of these documents, sorted.                                        *)
LEMMA SortedDocs ==
  ASSUME NEW items \in ItemSeq, NEW S \in SUBSET DocumentRefs(items)
  PROVE  Sorted(S) \in Seq(Docs) /\ Range(Sorted(S)) = S
<1>1. S \in SUBSET Nat /\ S \subseteq Docs
  BY DocumentsFinite, FilterConstants
<1>2. IsFiniteSet(S)
  BY DocumentsFinite, FS_Subset
<1> QED
  BY <1>1, <1>2, SortedType

LEMMA FilterStarts == FilterInit => FilterInv
<1> SUFFICES ASSUME FilterInit PROVE FilterInv
  OBVIOUS
<1>1. call = NoCall /\ rights \subseteq Docs /\ viewable = {} /\ always = {} /\ unanswered = {}
  BY DEF FilterInit
<1>2. /\ call.pc = "idle" /\ call.items = << >> /\ call.allowed = {} /\ call.kept = << >>
  BY <1>1 DEF NoCall
<1>3. FilterTypeOK
  BY <1>1 DEF FilterTypeOK, NoCall, CallPcs, ItemSeq, Strategies
<1> QED
  BY <1>1, <1>2, <1>3
     DEF FilterInv, SeenHolds, AskedHolds, AllowedHolds, NothingLost, ResultHolds

(* A change may give or take a right: no more is viewable all along.       *)
LEMMA ChangeKeeps == FilterInv /\ Change => FilterInv'
<1> SUFFICES ASSUME FilterInv, Change PROVE FilterInv'
  OBVIOUS
<1>1. call' = call /\ viewable' = viewable \cup rights' /\ always' = always \cap rights'
      /\ rights' \subseteq Docs /\ unanswered' = unanswered
  BY DEF Change, FilterInv, FilterTypeOK
<1>2. FilterTypeOK'
  BY <1>1 DEF FilterInv, FilterTypeOK
<1>3. SeenHolds'
  BY <1>1 DEF SeenHolds
<1>4. AskedHolds'
  BY <1>1 DEF FilterInv, AskedHolds
<1>5. AllowedHolds'
  BY <1>1 DEF FilterInv, AllowedHolds
<1>6. ResultHolds'
  BY <1>1 DEF FilterInv, ResultHolds
<1>7. NothingLost'
  <2>1. \A d : Sure(d)' => Sure(d)
    BY <1>1 DEF Sure
  <2> QED
    BY <1>1, <2>1, Zenon DEF FilterInv, NothingLost
<1> QED
  BY <1>2, <1>3, <1>4, <1>5, <1>6, <1>7 DEF FilterInv

LEMMA FilterItemsKeeps == FilterInv /\ FilterItems => FilterInv'
<1> SUFFICES ASSUME FilterInv, FilterItems PROVE FilterInv'
  OBVIOUS
<1>1. PICK items \in Items, scope \in SUBSET Docs, strategy \in Strategies :
        call' = [NoCall EXCEPT !.pc = IF items = << >> THEN "returned" ELSE "permits",
                               !.items = items, !.scope = scope, !.strategy = strategy]
  BY DEF FilterItems
<1>2. call.pc = "idle" /\ viewable' = rights /\ always' = rights /\ UNCHANGED <<rights, unanswered>>
  BY DEF FilterItems
<1>3. items \in ItemSeq
  BY FilterConstants DEF Items, SeqOf, ItemSeq
<1>4. /\ call'.pc = IF items = << >> THEN "returned" ELSE "permits"
      /\ call'.items = items /\ call'.allowed = {} /\ call'.kept = << >>
  BY <1>1 DEF NoCall
<1>5. FilterTypeOK'
  <2>1. /\ rights' \subseteq Docs /\ viewable' \subseteq Docs
        /\ always' \subseteq Docs /\ unanswered' \subseteq Docs
    BY <1>2 DEF FilterInv, FilterTypeOK
  <2>2. << >> \in Seq(Docs) /\ << >> \in ItemSeq
    BY DEF ItemSeq
  <2> QED
    BY <1>1, <1>3, <2>1, <2>2 DEF FilterTypeOK, NoCall, CallPcs
<1>6. SeenHolds'
  BY <1>2 DEF SeenHolds
<1>7. AskedHolds' /\ AllowedHolds'
  BY <1>4 DEF AskedHolds, AllowedHolds
<1>8. NothingLost'
  <2>1. CASE items = << >>
    BY <1>4, <2>1 DEF NothingLost, Range
  <2>2. CASE items # << >>
    BY <1>4, <2>2 DEF NothingLost
  <2> QED
    BY <2>1, <2>2
<1>9. ResultHolds'
  <2>1. items = << >> => call'.kept = Selected(call'.items, call'.allowed)
    BY <1>4, SelectedOfNone
  <2> QED
    BY <1>4, <2>1 DEF ResultHolds
<1> QED
  BY <1>5, <1>6, <1>7, <1>8, <1>9 DEF FilterInv

(* What ought to be kept is a candidate and in scope: both strategies ask  *)
(* about it.                                                               *)
LEMMA AskPermitsKeeps == FilterInv /\ AskPermits => FilterInv'
<1> SUFFICES ASSUME FilterInv, AskPermits PROVE FilterInv'
  OBVIOUS
<1>1. call.pc = "permits" /\ UNCHANGED <<rights, changes, events, viewable, always, unanswered>>
  BY DEF AskPermits
<1>2. PICK refused \in SUBSET DocumentRefs(call.items) :
        LET candidates == DocumentRefs(call.items) \ refused
            chosen     == Choose(call.strategy, Cardinality(candidates))
        IN  call' = [call EXCEPT
              !.refused = refused,
              !.todo    = Sorted(IF chosen = "batch" THEN ToCheck(candidates, call.scope)
                                                     ELSE candidates),
              !.pc      = IF candidates = {} THEN "finish"
                          ELSE IF chosen = "batch" THEN "batch" ELSE "list"]
  BY DEF AskPermits
<1> DEFINE candidates == DocumentRefs(call.items) \ refused
           chosen == Choose(call.strategy, Cardinality(candidates))
           ask == IF chosen = "batch" THEN ToCheck(candidates, call.scope) ELSE candidates
           todo == Sorted(ask)
           pc == IF candidates = {} THEN "finish" ELSE IF chosen = "batch" THEN "batch" ELSE "list"
<1>3. call' = [call EXCEPT !.refused = refused, !.todo = todo, !.pc = pc]
  BY <1>2
<1>4. call.items \in ItemSeq
  BY DEF FilterInv, FilterTypeOK
<1>5. /\ DocumentRefs(call.items) \in SUBSET Docs
      /\ DocumentRefs(call.items) = Docs \cap Range(call.items)
  BY <1>4, DocumentsFinite
<1>6. ask \in SUBSET DocumentRefs(call.items) /\ ask \cap refused = {}
      /\ \A d \in candidates : d \in call.scope => d \in ask
  BY DEF ToCheck
<1>7. pc = "list" => ask = candidates
  OBVIOUS
<1>8. pc \in {"finish", "batch", "list"} /\ (pc = "finish" => candidates = {})
  OBVIOUS
<1>9. todo \in Seq(Docs) /\ Range(todo) = ask
  BY <1>4, <1>6, SortedDocs
<1>10. \A d \in Docs \cap Range(call.items) : d \notin refused => d \in candidates
  BY <1>5
<1> HIDE DEF ask, todo, pc, chosen, candidates
<1>11. /\ call'.pc = pc /\ call'.refused = refused /\ call'.todo = todo
       /\ call'.items = call.items /\ call'.scope = call.scope
       /\ call'.allowed = call.allowed /\ call'.kept = call.kept
  BY <1>3 DEF FilterInv, FilterTypeOK
<1>12. call.allowed = {}
  BY <1>1 DEF FilterInv, AskedHolds
<1>13. FilterTypeOK'
  <2>1. refused \in SUBSET Docs /\ pc \in CallPcs
    BY <1>5, <1>8 DEF CallPcs
  <2> QED
    BY <1>1, <1>3, <1>9, <2>1 DEF FilterInv, FilterTypeOK
<1>14. SeenHolds'
  BY <1>1 DEF FilterInv, SeenHolds
<1>15. AskedHolds'
  BY <1>6, <1>8, <1>9, <1>11 DEF AskedHolds
<1>16. AllowedHolds'
  BY <1>11, <1>12 DEF AllowedHolds
<1>17. NothingLost'
  <2> SUFFICES ASSUME NEW d \in Docs \cap Range(call.items), Sure(d)'
               PROVE  /\ pc = "list" => d \in ask
                      /\ pc = "batch" => d \in ask
                      /\ pc \notin {"finish", "record", "returned"}
    BY <1>9, <1>11, Zenon DEF NothingLost
  <2>1. d \in call.scope /\ d \notin refused
    BY <1>11 DEF Sure
  <2>2. d \in candidates
    BY <1>10, <2>1
  <2> QED
    BY <1>6, <1>7, <1>8, <2>1, <2>2
<1>18. ResultHolds'
  BY <1>1, <1>8, <1>11 DEF FilterInv, ResultHolds
<1> QED
  BY <1>13, <1>14, <1>15, <1>16, <1>17, <1>18 DEF FilterInv

(* What is listed is what may be viewed; a failure leaves every candidate  *)
(* without an answer.                                                      *)
LEMMA ListObjectsKeeps == FilterInv /\ ListObjects => FilterInv'
<1> SUFFICES ASSUME FilterInv, ListObjects PROVE FilterInv'
  OBVIOUS
<1> DEFINE ask == ToCheck(Range(call.todo) \cap rights, call.scope)
           todo == Sorted(ask)
<1>1. call.pc = "list" /\ UNCHANGED <<rights, changes, events, viewable, always>>
  BY DEF ListObjects
<1>2. CASE call' = [call EXCEPT !.pc = "batch", !.todo = todo] /\ unanswered' = unanswered
  <2>1. ask \subseteq Range(call.todo)
        /\ \A d \in Range(call.todo) : d \in rights /\ d \in call.scope => d \in ask
    BY DEF ToCheck
  <2>2. todo \in Seq(Docs) /\ Range(todo) = ask
    <3>1. call.todo \in Seq(Docs) /\ Len(call.todo) \in Nat /\ DOMAIN call.todo = 1 .. Len(call.todo)
      BY DEF FilterInv, FilterTypeOK
    <3>2. call.todo \in Surjection(DOMAIN call.todo, Range(call.todo))
      <4>1. call.todo \in [DOMAIN call.todo -> Range(call.todo)]
        BY <3>1 DEF Range
      <4> QED
        BY <4>1 DEF Surjection, Range
    <3>3. IsFiniteSet(Range(call.todo))
      BY <3>1, <3>2, FS_Interval, FS_Surjection
    <3>4. ask \in SUBSET Nat /\ ask \subseteq Docs
      <4>1. \A i \in DOMAIN call.todo : call.todo[i] \in Docs
        BY <3>1
      <4>2. Range(call.todo) \subseteq Docs
        BY <4>1 DEF Range
      <4> HIDE DEF ask
      <4> QED
        BY <2>1, <4>2, FilterConstants
    <3>5. IsFiniteSet(ask)
      BY <2>1, <3>3, FS_Subset
    <3> HIDE DEF ask
    <3> QED
      BY <3>4, <3>5, SortedType
  <2> HIDE DEF ask, todo
  <2>3. /\ call'.pc = "batch" /\ call'.todo = todo /\ call'.refused = call.refused
        /\ call'.items = call.items /\ call'.scope = call.scope
        /\ call'.allowed = call.allowed /\ call'.kept = call.kept
    BY <1>2 DEF FilterInv, FilterTypeOK
  <2>4. FilterTypeOK'
    BY <1>1, <1>2, <2>2 DEF FilterInv, FilterTypeOK, CallPcs
  <2>5. SeenHolds'
    BY <1>1, <1>2 DEF FilterInv, SeenHolds
  <2>6. AskedHolds'
    BY <1>1, <2>1, <2>2, <2>3 DEF FilterInv, AskedHolds
  <2>7. AllowedHolds'
    BY <1>1, <2>3 DEF FilterInv, AllowedHolds
  <2>8. NothingLost'
    <3> SUFFICES ASSUME NEW d \in Docs \cap Range(call.items), Sure(d)'
                 PROVE  d \in ask
      BY <2>2, <2>3 DEF NothingLost
    <3>1. Sure(d)
      BY <1>1, <1>2, <2>3 DEF Sure
    <3>2. d \in Range(call.todo)
      BY <1>1, <3>1 DEF FilterInv, NothingLost
    <3>3. d \in rights /\ d \in call.scope
      BY <1>1, <3>1 DEF FilterInv, SeenHolds, Sure
    <3> QED
      BY <2>1, <3>2, <3>3
  <2>9. ResultHolds'
    BY <1>1, <2>3 DEF FilterInv, ResultHolds
  <2> QED
    BY <2>4, <2>5, <2>6, <2>7, <2>8, <2>9 DEF FilterInv
<1>3. CASE /\ call' = [call EXCEPT !.pc = "finish"]
           /\ unanswered' = unanswered \cup Range(call.todo)
  <2>1. /\ call'.pc = "finish" /\ call'.refused = call.refused /\ call'.scope = call.scope
        /\ call'.items = call.items /\ call'.allowed = call.allowed /\ call'.kept = call.kept
    BY <1>3 DEF FilterInv, FilterTypeOK
  <2>2. FilterTypeOK'
    <3>1. call.todo \in Seq(Docs)
      BY DEF FilterInv, FilterTypeOK
    <3>2. Range(call.todo) \subseteq Docs
      BY <3>1 DEF Range
    <3> QED
      BY <1>1, <1>3, <3>2 DEF FilterInv, FilterTypeOK, CallPcs
  <2>3. SeenHolds'
    BY <1>1, <1>3 DEF FilterInv, SeenHolds
  <2>4. AskedHolds'
    BY <2>1 DEF AskedHolds
  <2>5. AllowedHolds'
    BY <1>1, <2>1 DEF FilterInv, AllowedHolds
  <2>6. ResultHolds'
    BY <1>1, <2>1 DEF FilterInv, ResultHolds
  <2>7. NothingLost'
    <3> SUFFICES ASSUME NEW d \in Docs \cap Range(call.items), Sure(d)' PROVE FALSE
      BY <2>1 DEF NothingLost
    <3>1. Sure(d) /\ d \notin Range(call.todo)
      BY <1>1, <1>3, <2>1 DEF Sure
    <3> QED
      BY <1>1, <3>1 DEF FilterInv, NothingLost
  <2> QED
    BY <2>2, <2>3, <2>4, <2>5, <2>6, <2>7 DEF FilterInv
<1> QED
  BY <1>2, <1>3 DEF ListObjects, Go

(* A batch: what it allows may be viewed at this moment, and nothing that  *)
(* was answered is lost.                                                   *)
LEMMA CheckChunkKeeps == FilterInv /\ CheckChunk => FilterInv'
<1> SUFFICES ASSUME FilterInv, CheckChunk PROVE FilterInv'
  OBVIOUS
<1> DEFINE chunk == Chunk(call.todo)
           rest  == Rest(call.todo)
<1>1. call.pc = "batch" /\ UNCHANGED <<rights, changes, events, viewable, always>>
  BY DEF CheckChunk
<1>2. PICK answered \in BOOLEAN, response \in Responses(chunk) :
        /\ call' = [call EXCEPT
             !.todo = rest,
             !.allowed = @ \cup {d \in Range(chunk) :
               EvaluateEach(d \in call.scope, d, Related(chunk, response), answered, Policy[d])
                 = "ALLOW"}]
        /\ unanswered' = unanswered \cup
             IF answered THEN Missing(chunk, response) ELSE Range(chunk)
  BY DEF CheckChunk
<1> DEFINE related == Related(chunk, response)
           new == {d \in Range(chunk) :
                     EvaluateEach(d \in call.scope, d, related, answered, Policy[d]) = "ALLOW"}
<1>3. call' = [call EXCEPT !.todo = rest, !.allowed = call.allowed \cup new]
  BY <1>2
<1>4. call.todo \in Seq(Docs) /\ call.allowed \in SUBSET Docs /\ call.scope \in SUBSET Docs
  BY DEF FilterInv, FilterTypeOK
<1>5. /\ chunk \in Seq(Docs) /\ rest \in Seq(Docs)
      /\ Range(call.todo) = Range(chunk) \cup Range(rest)
  BY <1>4, ChunkAndRest
<1>6. related \subseteq rights
  BY RelatedAreViewable
<1> DEFINE missing == Missing(chunk, response)
<1>7. Range(chunk) \cap rights \subseteq related \cup missing /\ missing \subseteq Range(chunk)
  BY RelatedOrMissing, MissingOfChunk
<1>7a. unanswered' = unanswered \cup IF answered THEN missing ELSE Range(chunk)
  BY <1>2
<1> HIDE DEF chunk, rest, related, missing
<1>8. \A d \in new : d \in Range(chunk) /\ d \in related /\ d \in call.scope /\ Policy[d] = "ALLOW"
  BY DEF EvaluateEach
<1>9. answered => \A d \in Range(chunk) \cap related :
        d \in call.scope /\ Policy[d] = "ALLOW" => d \in new
  BY DEF EvaluateEach
<1>10. Range(chunk) \subseteq Docs
  BY <1>5 DEF Range
<1> HIDE DEF new
<1>11. /\ call'.pc = "batch" /\ call'.todo = rest /\ call'.refused = call.refused
       /\ call'.items = call.items /\ call'.scope = call.scope
       /\ call'.allowed = call.allowed \cup new /\ call'.kept = call.kept
  BY <1>1, <1>3 DEF FilterInv, FilterTypeOK
<1>12. unanswered' \subseteq Docs /\ unanswered \subseteq unanswered'
  BY <1>7, <1>10, <1>7a DEF FilterInv, FilterTypeOK
<1>13. FilterTypeOK'
  <2>1. call.allowed \cup new \in SUBSET Docs
    BY <1>4, <1>8, <1>10
  <2> QED
    BY <1>1, <1>3, <1>5, <1>12, <2>1 DEF FilterInv, FilterTypeOK
<1>14. SeenHolds'
  BY <1>1, <1>11, <1>12 DEF FilterInv, SeenHolds
<1>15. Range(chunk) \cap call.refused = {} /\ Range(rest) \cap call.refused = {}
  BY <1>1, <1>5 DEF FilterInv, AskedHolds
<1>16. AskedHolds'
  BY <1>11, <1>15 DEF AskedHolds
<1>17. AllowedHolds'
  <2>1. \A d \in new :
          d \in viewable /\ d \in call.scope /\ d \notin call.refused /\ Policy[d] = "ALLOW"
    BY <1>1, <1>6, <1>8, <1>15 DEF FilterInv, SeenHolds
  <2> QED
    BY <1>1, <1>11, <2>1 DEF FilterInv, AllowedHolds
<1>18. NothingLost'
  <2> SUFFICES ASSUME NEW d \in Docs \cap Range(call.items), Sure(d)'
               PROVE  d \in call.allowed \cup new \cup Range(rest)
    BY <1>11 DEF NothingLost
  <2>1. Sure(d)
    BY <1>1, <1>11, <1>12 DEF Sure
  <2>2. d \in call.allowed \cup Range(chunk) \cup Range(rest)
    BY <1>1, <1>5, <2>1 DEF FilterInv, NothingLost
  <2>3. ASSUME d \in Range(chunk) PROVE d \in new
    <3>1. d \notin unanswered'
      BY DEF Sure
    <3>2. answered /\ d \notin missing
      BY <1>7a, <2>3, <3>1
    <3>3. d \in rights /\ d \in call.scope /\ Policy[d] = "ALLOW"
      BY <1>1, <2>1 DEF FilterInv, SeenHolds, Sure
    <3> QED
      BY <1>7, <1>9, <2>3, <3>2, <3>3
  <2> QED
    BY <2>2, <2>3
<1>19. ResultHolds'
  BY <1>1, <1>11 DEF FilterInv, ResultHolds
<1> QED
  BY <1>13, <1>14, <1>16, <1>17, <1>18, <1>19 DEF FilterInv

LEMMA EndBatchKeeps == FilterInv /\ EndBatch => FilterInv'
<1> SUFFICES ASSUME FilterInv, EndBatch PROVE FilterInv'
  OBVIOUS
<1>1. call' = [call EXCEPT !.pc = "finish"] /\ call.pc = "batch" /\ call.todo = << >>
      /\ UNCHANGED <<rights, changes, events, viewable, always, unanswered>>
  BY DEF EndBatch, Go
<1>2. /\ call'.pc = "finish" /\ call'.refused = call.refused /\ call'.scope = call.scope
      /\ call'.items = call.items /\ call'.allowed = call.allowed /\ call'.kept = call.kept
  BY <1>1 DEF FilterInv, FilterTypeOK
<1>3. FilterTypeOK'
  BY <1>1 DEF FilterInv, FilterTypeOK, CallPcs
<1>4. SeenHolds' /\ AskedHolds'
  BY <1>1, <1>2 DEF FilterInv, SeenHolds, AskedHolds
<1>5. AllowedHolds'
  BY <1>1, <1>2 DEF FilterInv, AllowedHolds
<1>6. NothingLost'
  <2>1. Range(call.todo) = {}
    BY <1>1 DEF Range
  <2> SUFFICES ASSUME NEW d \in Docs \cap Range(call.items), Sure(d)'
               PROVE  d \in call.allowed
    BY <1>1, <1>2 DEF NothingLost
  <2>2. Sure(d)
    BY <1>1, <1>2 DEF Sure
  <2> QED
    BY <1>1, <2>1, <2>2 DEF FilterInv, NothingLost
<1>7. ResultHolds'
  BY <1>1, <1>2 DEF FilterInv, ResultHolds
<1> QED
  BY <1>3, <1>4, <1>5, <1>6, <1>7 DEF FilterInv

LEMMA SelectKeeps == FilterInv /\ Select => FilterInv'
<1> SUFFICES ASSUME FilterInv, Select PROVE FilterInv'
  OBVIOUS
<1> DEFINE kept    == Selected(call.items, call.allowed)
           dropped == Selected(call.items, Range(call.items) \ call.allowed)
<1>1. /\ call.pc = "finish" /\ UNCHANGED <<rights, changes, events, viewable, always, unanswered>>
      /\ call' = [call EXCEPT !.pc = "record", !.kept = kept, !.dropped = dropped]
  BY DEF Select
<1>2. call.items \in ItemSeq
  BY DEF FilterInv, FilterTypeOK
<1>3. kept \in ItemSeq /\ dropped \in ItemSeq
  BY <1>2, SelectedInOrder DEF ItemSeq
<1> HIDE DEF kept, dropped
<1>4. /\ call'.pc = "record" /\ call'.refused = call.refused /\ call'.scope = call.scope
      /\ call'.items = call.items /\ call'.allowed = call.allowed /\ call'.kept = kept
  BY <1>1 DEF FilterInv, FilterTypeOK
<1>5. FilterTypeOK'
  BY <1>1, <1>3 DEF FilterInv, FilterTypeOK, CallPcs
<1>6. SeenHolds' /\ AskedHolds'
  BY <1>1, <1>4 DEF FilterInv, SeenHolds, AskedHolds
<1>7. AllowedHolds'
  BY <1>1, <1>4 DEF FilterInv, AllowedHolds
<1>8. NothingLost'
  <2> SUFFICES ASSUME NEW d \in Docs \cap Range(call.items), Sure(d)'
               PROVE  d \in call.allowed
    BY <1>4 DEF NothingLost
  <2>1. Sure(d)
    BY <1>1, <1>4 DEF Sure
  <2> QED
    BY <1>1, <2>1 DEF FilterInv, NothingLost
<1>9. ResultHolds'
  BY <1>4 DEF ResultHolds, kept
<1> QED
  BY <1>5, <1>6, <1>7, <1>8, <1>9 DEF FilterInv

LEMMA FinishKeeps == FilterInv /\ Finish => FilterInv'
<1> SUFFICES ASSUME FilterInv, Finish PROVE FilterInv'
  OBVIOUS
<1>1. /\ call.pc = "record" /\ UNCHANGED <<rights, changes, viewable, always, unanswered>>
      /\ call' = [call EXCEPT !.pc = "returned"]
  BY DEF Finish, Go
<1>2. /\ call'.pc = "returned" /\ call'.refused = call.refused /\ call'.scope = call.scope
      /\ call'.items = call.items /\ call'.allowed = call.allowed /\ call'.kept = call.kept
  BY <1>1 DEF FilterInv, FilterTypeOK
<1>3. FilterTypeOK'
  BY <1>1 DEF FilterInv, FilterTypeOK, CallPcs
<1>4. SeenHolds' /\ AskedHolds'
  BY <1>1, <1>2 DEF FilterInv, SeenHolds, AskedHolds
<1>5. AllowedHolds'
  BY <1>1, <1>2 DEF FilterInv, AllowedHolds
<1>6. NothingLost'
  <2> SUFFICES ASSUME NEW d \in Docs \cap Range(call.items), Sure(d)'
               PROVE  d \in call.allowed
    BY <1>2 DEF NothingLost
  <2>1. Sure(d)
    BY <1>1, <1>2 DEF Sure
  <2> QED
    BY <1>1, <2>1 DEF FilterInv, NothingLost
<1>7. ResultHolds'
  BY <1>1, <1>2 DEF FilterInv, ResultHolds
<1> QED
  BY <1>3, <1>4, <1>5, <1>6, <1>7 DEF FilterInv

LEMMA RaiseKeeps == FilterInv /\ Raise => FilterInv'
<1> SUFFICES ASSUME FilterInv, Raise PROVE FilterInv'
  OBVIOUS
<1>1. call' = [NoCall EXCEPT !.pc = "raised"] /\ call.pc \in {"permits", "batch", "record"}
      /\ UNCHANGED <<rights, changes, events, viewable, always, unanswered>>
  BY DEF Raise
<1>2. call'.pc = "raised" /\ call'.items = << >> /\ call'.allowed = {} /\ call'.kept = << >>
  BY <1>1 DEF NoCall
<1>3. FilterTypeOK'
  <2>1. << >> \in Seq(Docs) /\ << >> \in ItemSeq
    BY DEF ItemSeq
  <2> QED
    BY <1>1, <2>1 DEF FilterInv, FilterTypeOK, NoCall, CallPcs, Strategies
<1>4. SeenHolds'
  BY <1>1 DEF FilterInv, SeenHolds
<1>5. AskedHolds' /\ AllowedHolds' /\ NothingLost'
  BY <1>2 DEF AskedHolds, AllowedHolds, NothingLost
<1>6. ResultHolds'
  BY <1>1, <1>2 DEF FilterInv, ResultHolds
<1> QED
  BY <1>3, <1>4, <1>5, <1>6 DEF FilterInv

(* Stuttering keeps it.                                                    *)
LEMMA FilterStutters == FilterInv /\ UNCHANGED filterVars => FilterInv'
  BY DEF FilterInv, filterVars, FilterTypeOK, SeenHolds, AskedHolds, AllowedHolds, NothingLost,
         Sure, ResultHolds

LEMMA FilterSteps == FilterInv /\ [FilterNext]_filterVars => FilterInv'
  BY ChangeKeeps, FilterItemsKeeps, AskPermitsKeeps, ListObjectsKeeps, CheckChunkKeeps,
     EndBatchKeeps, SelectKeeps, FinishKeeps, RaiseKeeps, FilterStutters DEF FilterNext

(* In every call of the read filter, the invariant.                        *)
THEOREM FilterInvariant == FilterSpec => []FilterInv
  BY FilterStarts, FilterSteps, PTL DEF FilterSpec

(* What the invariant says of a result: only what is allowed is kept.      *)
LEMMA KeptFollows == FilterInv => KeptWasAllowed
<1> SUFFICES ASSUME FilterInv, NEW d \in Range(call.kept)
             PROVE  d \in viewable /\ d \in call.scope /\ d \notin call.refused /\ Policy[d] = "ALLOW"
  BY DEF KeptWasAllowed
<1>1. call.pc \in {"record", "returned"}
  <2>1. CASE call.pc \notin {"record", "returned"}
    BY <2>1 DEF FilterInv, ResultHolds, Range
  <2> QED
    BY <2>1
<1>2. call.kept = Selected(call.items, call.allowed) /\ call.items \in ItemSeq
  BY <1>1 DEF FilterInv, ResultHolds, FilterTypeOK
<1>3. d \in call.allowed
  BY <1>2, SelectedAreChosen DEF ItemSeq
<1> QED
  BY <1>3 DEF FilterInv, AllowedHolds

LEMMA AgreementFollows == FilterInv => StrategiesAgree
<1> SUFFICES ASSUME FilterInv, Undisturbed, call.pc = "returned"
             PROVE  \E at \in [DOMAIN call.kept -> DOMAIN call.items] :
      /\ \A i, j \in DOMAIN at : i < j => at[i] < at[j]
      /\ Range(at) = {i \in DOMAIN call.items : call.items[i] \in Docs /\ Ought(call.items[i])}
      /\ \A k \in DOMAIN at : call.kept[k] = call.items[at[k]]
  BY DEF StrategiesAgree
<1> DEFINE P  == Positions(call.items, call.allowed)
           at == Sorted(P)
<1>1. call.kept = Selected(call.items, call.allowed) /\ call.items \in ItemSeq
      /\ call.allowed \subseteq Docs
  BY DEF FilterInv, ResultHolds, FilterTypeOK
<1>2. /\ at \in [DOMAIN call.kept -> DOMAIN call.items] /\ Range(at) = P
      /\ \A i, j \in DOMAIN at : i < j => at[i] < at[j]
      /\ \A k \in DOMAIN at : call.kept[k] = call.items[at[k]]
  BY <1>1, SelectedInOrder DEF ItemSeq
<1>3. ASSUME NEW d \in Docs \cap Range(call.items) PROVE d \in call.allowed <=> Ought(d)
  <2>1. always = rights /\ viewable = rights /\ unanswered = {}
    BY DEF FilterInv, SeenHolds, Undisturbed
  <2>2. Ought(d) <=> Sure(d)
    BY <2>1 DEF Ought, Sure
  <2>3. Sure(d) => d \in call.allowed
    BY DEF FilterInv, NothingLost
  <2>4. d \in call.allowed => Ought(d)
    BY <2>1 DEF FilterInv, AllowedHolds, Ought
  <2> QED
    BY <2>2, <2>3, <2>4
<1>4. P = {i \in DOMAIN call.items : call.items[i] \in Docs /\ Ought(call.items[i])}
  <2>1. \A i \in DOMAIN call.items : call.items[i] \in Range(call.items)
    BY DEF Range
  <2> QED
    BY <1>1, <1>3, <2>1 DEF Positions
<1> HIDE DEF P, at
<1> QED
  BY <1>2, <1>4

(* What is allowed and asked for is among what is selected.                *)
LEMMA ChosenAreSelected ==
  ASSUME NEW X, NEW items \in Seq(X), NEW chosen
  PROVE  Range(items) \cap chosen \subseteq Range(Selected(items, chosen))
<1> DEFINE kept == Selected(items, chosen)
           P    == Positions(items, chosen)
           at   == Sorted(P)
<1>1. /\ DOMAIN kept = DOMAIN at /\ Range(at) = P
      /\ \A k \in DOMAIN at : kept[k] = items[at[k]]
  BY SelectedInOrder
<1>2. ASSUME NEW i \in DOMAIN items, items[i] \in chosen PROVE items[i] \in Range(kept)
  <2>1. i \in P
    BY <1>2 DEF Positions
  <2> HIDE DEF kept, P, at
  <2>2. PICK k \in DOMAIN at : at[k] = i
    BY <1>1, <2>1 DEF Range
  <2> QED
    BY <1>1, <2>2 DEF Range
<1> QED
  BY <1>2 DEF Range

LEMMA AnswersFollow == FilterInv => AnsweredAreKept
<1> SUFFICES ASSUME FilterInv, call.pc = "returned",
                    NEW d \in Docs \cap Range(call.items), Sure(d)
             PROVE  d \in Range(call.kept)
  BY DEF AnsweredAreKept
<1>1. d \in call.allowed
  BY DEF FilterInv, NothingLost
<1>2. call.kept = Selected(call.items, call.allowed) /\ call.items \in ItemSeq
  BY DEF FilterInv, ResultHolds, FilterTypeOK
<1> QED
  BY <1>1, <1>2, ChosenAreSelected DEF ItemSeq

(* Every document kept was viewable at some moment of the call, in scope,  *)
(* not refused and allowed by the policies, for either strategy, any       *)
(* number of batches and replies in any order (filter.py:72-138,           *)
(* decider.py:144-211).                                                    *)
THEOREM KeptAreAllowed == FilterSpec => []KeptWasAllowed
  BY FilterInvariant, KeptFollows, PTL

(* A call that nothing disturbs keeps exactly the items the definition     *)
(* asks for, in their order, whichever strategy it takes                   *)
(* (filter.py:106-124).                                                    *)
THEOREM BothStrategiesAgree == FilterSpec => []StrategiesAgree
  BY FilterInvariant, AgreementFollows, PTL

(* A failure costs only what it is about: a call that returns keeps every  *)
(* item of which the engine answered and which was allowed all along,      *)
(* whatever else failed or changed (decider.py:176-192, engine.py:82-102). *)
THEOREM AnswersAreKept == FilterSpec => []AnsweredAreKept
  BY FilterInvariant, AnswersFollow, PTL

-----------------------------------------------------------------------------
(* What tuples give                                                        *)

(* Directly, or by a parent.                                               *)
LEMMA GrantsCases ==
  ASSUME NEW T, NEW x \in Grants(T)
  PROVE  \/ x \in T /\ x[2] # "parent" /\ x[3][1] # "source"
         \/ \E t, u \in T : /\ t[2] # "parent" /\ u[2] = "parent" /\ u[1] = t[3]
                            /\ x = <<t[1], t[2], u[3]>>
  BY DEF Grants

LEMMA GrantsDirect ==
  ASSUME NEW T, NEW t \in T, t[2] # "parent", t[3][1] # "source"
  PROVE  t \in Grants(T)
  BY DEF Grants

LEMMA GrantsByParent ==
  ASSUME NEW T, NEW t \in T, NEW u \in T, t[2] # "parent", u[2] = "parent", u[1] = t[3]
  PROVE  <<t[1], t[2], u[3]>> \in Grants(T)
  BY DEF Grants

(* More tuples give no less.                                               *)
LEMMA GrantsGrow == ASSUME NEW T, NEW U, T \subseteq U PROVE Grants(T) \subseteq Grants(U)
<1> SUFFICES ASSUME NEW x \in Grants(T) PROVE x \in Grants(U)
  OBVIOUS
<1>1. CASE x \in T /\ x[2] # "parent" /\ x[3][1] # "source"
  BY <1>1, GrantsDirect
<1>2. CASE \E t, u \in T : /\ t[2] # "parent" /\ u[2] = "parent" /\ u[1] = t[3]
                           /\ x = <<t[1], t[2], u[3]>>
  BY <1>2, GrantsByParent
<1> QED
  BY <1>1, <1>2, GrantsCases

(* Without a parent among what is given by, what is given is direct.       *)
LEMMA GrantsOfDirect ==
  ASSUME NEW T, \A t \in T : t[2] = "parent" => t[1][1] = "source",
         \A t \in T : t[2] # "parent" => t[3][1] # "source"
  PROVE  Grants(T) = {t \in T : t[2] # "parent"}
<1>1. ASSUME NEW x \in Grants(T) PROVE x \in T /\ x[2] # "parent"
  <2>1. \A t, u \in T : t[2] # "parent" /\ u[2] = "parent" => u[1] # t[3]
    OBVIOUS
  <2> QED
    BY <2>1, GrantsCases
<1>2. ASSUME NEW x \in T, x[2] # "parent" PROVE x \in Grants(T)
  BY <1>2, GrantsDirect
<1> QED
  BY <1>1, <1>2

-----------------------------------------------------------------------------
(* Nextcloud                                                               *)

LEMMA ShareIsNoParent ==
  ASSUME NEW s PROVE ShareRelation(s) \in {"editor", "viewer"} /\ ShareRelation(s) # "parent"
  BY DEF ShareRelation

(* The tuples: who is the parent of a file, and whom a share is for.       *)
LEMMA NextcloudCases ==
  ASSUME NEW entries, NEW shares, NEW t \in NextcloudTuples(entries, shares)
  PROVE  \/ \E e \in Files(entries) : t = <<Source(e.path[1]), "parent", Document(e.doc)>>
         \/ \E s \in shares : \E p \in Principals(s) : \E o \in SharedObjects(entries, s.path) :
              t = <<p, ShareRelation(s), o>>
  BY DEF NextcloudTuples

LEMMA NextcloudHas ==
  ASSUME NEW entries, NEW shares
  PROVE  LET T == NextcloudTuples(entries, shares) IN
         /\ \A e \in Files(entries) : <<Source(e.path[1]), "parent", Document(e.doc)>> \in T
         /\ \A s \in shares : \A p \in Principals(s) : \A o \in SharedObjects(entries, s.path) :
              <<p, ShareRelation(s), o>> \in T
  BY DEF NextcloudTuples

LEMMA NextcloudSound ==
  ASSUME NEW w, \A e \in w.entries \cup w.shares : e.path \in Seq(STRING)
  PROVE  Grants(NextcloudTuples(w.entries, w.shares)) \subseteq Covered(w, w.shares)
<1> DEFINE T == NextcloudTuples(w.entries, w.shares)
<1> SUFFICES ASSUME NEW x \in Grants(T) PROVE x \in Covered(w, w.shares)
  OBVIOUS
<1>1. \A e \in Files(w.entries) : e \in w.entries /\ e.path # << >> /\ e.path \in Seq(STRING)
  BY DEF Files
<1>2. CASE x \in T /\ x[2] # "parent" /\ x[3][1] # "source"
  <2>1. PICK s \in w.shares : \E p \in Principals(s) : \E o \in SharedObjects(w.entries, s.path) :
              x = <<p, ShareRelation(s), o>>
    BY <1>2, NextcloudCases
  <2>2. PICK p \in Principals(s), o \in SharedObjects(w.entries, s.path) :
          x = <<p, ShareRelation(s), o>>
    BY <2>1
  <2>3. o[1] # "source"
    BY <1>2, <2>2
  <2>4. PICK e \in Files(w.entries) : e.path = s.path /\ o = Document(e.doc)
    BY <2>2, <2>3 DEF SharedObjects, Source
  <2>5. IsPrefix(s.path, e.path)
    BY <1>1, <2>4 DEF IsPrefix
  <2> QED
    BY <2>2, <2>4, <2>5 DEF Covered
<1>3. CASE \E t, u \in T : /\ t[2] # "parent" /\ u[2] = "parent" /\ u[1] = t[3]
                           /\ x = <<t[1], t[2], u[3]>>
  <2>1. PICK t \in T, u \in T : /\ t[2] # "parent" /\ u[2] = "parent" /\ u[1] = t[3]
                                /\ x = <<t[1], t[2], u[3]>>
    BY <1>3
  <2>2. PICK s \in w.shares : \E p \in Principals(s) : \E o \in SharedObjects(w.entries, s.path) :
              t = <<p, ShareRelation(s), o>>
    BY <2>1, NextcloudCases
  <2>3. PICK p \in Principals(s), o \in SharedObjects(w.entries, s.path) :
          t = <<p, ShareRelation(s), o>>
    BY <2>2
  <2>4. PICK e \in Files(w.entries) : u = <<Source(e.path[1]), "parent", Document(e.doc)>>
    <3>1. \A r : ShareRelation(r) # "parent"
      BY ShareIsNoParent
    <3> QED
      BY <2>1, <3>1, NextcloudCases
  <2>5. o = Source(e.path[1])
    BY <2>1, <2>3, <2>4
  <2>6. PICK d \in w.entries : Len(d.path) = 1 /\ d.path = s.path /\ o = Source(d.path[1])
    BY <2>5 DEF SharedObjects, Source, Document
  <2>7. d.path[1] = e.path[1]
    BY <2>5, <2>6 DEF Source
  <2>8. IsPrefix(s.path, e.path)
    <3>1. s.path \in Seq(STRING) /\ e.path \in Seq(STRING) /\ Len(s.path) = 1 /\ e.path # << >>
      BY <1>1, <2>6
    <3>2. s.path[1] = e.path[1]
      BY <2>6, <2>7
    <3> QED
      BY <3>1, <3>2 DEF IsPrefix
  <2>9. x = <<p, ShareRelation(s), Document(e.doc)>>
    BY <2>1, <2>3, <2>4
  <2> QED
    BY <2>8, <2>9 DEF Covered
<1> QED
  BY <1>2, <1>3, GrantsCases

LEMMA NextcloudComplete ==
  ASSUME NEW w,
         \A e \in w.entries \cup w.shares : e.path \in Seq(STRING),
         \A e, f \in w.entries : e.path = f.path => e = f,
         \A e \in w.entries : \A n \in 1 .. Len(e.path) - 1 :
            \E d \in w.entries : d.dir /\ d.path = SubSeq(e.path, 1, n)
  PROVE  Covered(w, w.shares) \ OnDeeperFolders(w) \subseteq Grants(NextcloudTuples(w.entries, w.shares))
<1> DEFINE T == NextcloudTuples(w.entries, w.shares)
<1> SUFFICES ASSUME NEW x \in Covered(w, w.shares), x \notin OnDeeperFolders(w)
             PROVE  x \in Grants(T)
  OBVIOUS
<1>1. PICK s \in w.shares : \E p \in Principals(s) : \E e \in Files(w.entries) :
        IsPrefix(s.path, e.path) /\ x = <<p, ShareRelation(s), Document(e.doc)>>
  BY DEF Covered
<1>2. PICK p \in Principals(s), e \in Files(w.entries) :
        IsPrefix(s.path, e.path) /\ x = <<p, ShareRelation(s), Document(e.doc)>>
  BY <1>1
<1>3. /\ e \in w.entries /\ ~e.dir /\ e.path # << >> /\ e.path \in Seq(STRING)
      /\ s.path \in Seq(STRING)
  BY DEF Files
<1>4. Len(s.path) = 1 \/ \E f \in Files(w.entries) : f.path = s.path
  <2>1. SUFFICES ASSUME Len(s.path) # 1, \A f \in Files(w.entries) : f.path # s.path
                 PROVE  FALSE
    OBVIOUS
  <2>2. s \in {r \in w.shares : Len(r.path) # 1 /\ \A f \in Files(w.entries) : f.path # r.path}
    BY <2>1
  <2> QED
    BY <1>2, <2>2 DEF OnDeeperFolders, Covered
<1>5. CASE s.path = e.path
  <2>1. Document(e.doc) \in SharedObjects(w.entries, s.path)
    BY <1>5 DEF SharedObjects
  <2>2. x \in T
    BY <1>2, <2>1 DEF NextcloudTuples
  <2>3. x[2] # "parent" /\ x[3][1] # "source"
    BY <1>2, ShareIsNoParent DEF Document
  <2> QED
    BY <2>2, <2>3, GrantsDirect
<1>6. CASE s.path # e.path
  <2>1. /\ Len(s.path) <= Len(e.path) /\ Len(s.path) \in Nat /\ Len(e.path) \in Nat
        /\ SubSeq(s.path, 1, Len(s.path)) = SubSeq(e.path, 1, Len(s.path))
    BY <1>2, <1>3 DEF IsPrefix
  <2>2. SubSeq(s.path, 1, Len(s.path)) = s.path
    BY <1>3
  <2>3. Len(s.path) # Len(e.path)
    <3>1. SubSeq(e.path, 1, Len(e.path)) = e.path
      BY <1>3
    <3> QED
      BY <1>6, <2>1, <2>2, <3>1
  <2>4. Len(s.path) >= 1
    <3>1. ASSUME Len(s.path) = 0, NEW f \in Files(w.entries), f.path = s.path PROVE FALSE
      BY <1>3, <3>1 DEF Files
    <3> QED
      BY <1>4, <2>1, <3>1
  <2>5. PICK d \in w.entries : d.dir /\ d.path = s.path
    <3>1. Len(s.path) \in 1 .. Len(e.path) - 1
      BY <2>1, <2>3, <2>4
    <3>2. PICK d \in w.entries : d.dir /\ d.path = SubSeq(e.path, 1, Len(s.path))
      BY <1>3, <3>1
    <3> QED
      BY <2>1, <2>2, <3>2
  <2>6. Len(s.path) = 1
    BY <1>4, <2>5 DEF Files
  <2>7. s.path[1] = e.path[1]
    BY <1>3, <2>1, <2>2, <2>6
  <2>8. Source(e.path[1]) \in SharedObjects(w.entries, s.path)
    BY <2>5, <2>6, <2>7 DEF SharedObjects
  <2> DEFINE t == <<p, ShareRelation(s), Source(e.path[1])>>
             u == <<Source(e.path[1]), "parent", Document(e.doc)>>
  <2>9. t \in T /\ u \in T
    BY <2>8, NextcloudHas
  <2>10. t[2] # "parent" /\ u[2] = "parent" /\ u[1] = t[3]
    BY ShareIsNoParent
  <2>11. x = <<t[1], t[2], u[3]>>
    BY <1>2
  <2> HIDE DEF t, u, T
  <2> QED
    BY <2>9, <2>10, <2>11, GrantsByParent
<1> QED
  BY <1>5, <1>6

-----------------------------------------------------------------------------
(* Files: the nearest folder                                               *)

IsFolder(path, folders, n) == SubSeq(path, 1, n) \in DOMAIN folders

(* The loop of _nearest_folder, down from n parts.                         *)
PopTo(path, folders, n, f) ==
  [k \in 0 .. n |-> IF k = 0 THEN << >>
                    ELSE IF SubSeq(path, 1, k) \in DOMAIN folders THEN SubSeq(path, 1, k)
                    ELSE f[k - 1]]

Pop(path, folders) == CHOOSE f : f = PopTo(path, folders, Len(path), f)

LEMMA NearestIsPop ==
  ASSUME NEW path, NEW folders
  PROVE  NearestFolder(path, folders) = Pop(path, folders)[Len(path) - 1]
  BY DEF NearestFolder, Pop, PopTo

(* The loop ends, from however many parts: a least number from which it    *)
(* did not would be one more than one from which it does.                  *)
LEMMA PopEnds ==
  ASSUME NEW path, NEW folders
  PROVE  \A n \in Nat : \E f : f = PopTo(path, folders, n, f)
<1> DEFINE Bad == {n \in Nat : ~\E f : f = PopTo(path, folders, n, f)}
<1>1. ASSUME Bad # {} PROVE FALSE
  <2>1. PICK n \in Bad : \A k \in Bad : n <= k
    BY <1>1, HasLeast
  <2>2. CASE n = 0
    <3> DEFINE h == [k \in 0 .. 0 |-> << >>]
    <3>1. h = PopTo(path, folders, 0, h)
      BY DEF PopTo
    <3> QED
      BY <2>1, <2>2, <3>1
  <2>3. CASE n # 0
    <3>1. n - 1 \in Nat /\ n - 1 \notin Bad /\ n \in Nat
      BY <2>1, <2>3
    <3>2. PICK f : f = PopTo(path, folders, n - 1, f)
      BY <3>1
    <3> DEFINE last == IF SubSeq(path, 1, n) \in DOMAIN folders THEN SubSeq(path, 1, n) ELSE f[n - 1]
               h == [k \in 0 .. n |-> IF k = n THEN last ELSE f[k]]
               g == PopTo(path, folders, n, h)
    <3>3. \A k \in 0 .. n - 1 : h[k] = f[k]
      BY <3>1
    <3>4. \A k \in 0 .. n - 1 : f[k] = IF k = 0 THEN << >>
             ELSE IF SubSeq(path, 1, k) \in DOMAIN folders THEN SubSeq(path, 1, k) ELSE f[k - 1]
      BY <3>2 DEF PopTo
    <3>5. \A k \in 0 .. n : g[k] = IF k = 0 THEN << >>
             ELSE IF SubSeq(path, 1, k) \in DOMAIN folders THEN SubSeq(path, 1, k) ELSE h[k - 1]
      BY DEF PopTo
    <3>6. h[n] = last
      BY <3>1
    <3>7. DOMAIN h = 0 .. n /\ DOMAIN g = 0 .. n /\ h = [k \in 0 .. n |-> h[k]] /\ g = [k \in 0 .. n |-> g[k]]
      BY DEF PopTo
    <3> HIDE DEF h, g
    <3>8. g[n] = last
      <4>1. n - 1 \in 0 .. n - 1 /\ n \in 0 .. n
        BY <3>1
      <4> QED
        BY <2>3, <3>3, <3>5, <4>1
    <3>9. ASSUME NEW k \in 0 .. n - 1 PROVE g[k] = h[k]
      <4>1. k \in 0 .. n /\ (k # 0 => k - 1 \in 0 .. n - 1)
        BY <3>1
      <4>2. k # 0 => h[k - 1] = f[k - 1]
        BY <3>3, <4>1
      <4> QED
        BY <3>3, <3>4, <3>5, <4>1, <4>2
    <3>10. \A k \in 0 .. n : g[k] = h[k]
      <4>1. \A k \in 0 .. n : k \in 0 .. n - 1 \/ k = n
        BY <3>1
      <4> QED
        BY <3>6, <3>8, <3>9, <4>1
    <3>11. h = g
      BY <3>7, <3>10
    <3> QED
      BY <2>1, <3>11 DEF g
  <2> QED
    BY <2>2, <2>3
<1> QED
  BY <1>1

(* It finds the deepest folder above a file, if there is one.              *)
LEMMA NearestIsDeepest ==
  ASSUME NEW path \in Seq(STRING) \ {<< >>}, NEW folders
  PROVE  \/ /\ NearestFolder(path, folders) = << >>
            /\ \A n \in 1 .. Len(path) - 1 : ~IsFolder(path, folders, n)
         \/ \E m \in 1 .. Len(path) - 1 :
              /\ NearestFolder(path, folders) = SubSeq(path, 1, m) /\ IsFolder(path, folders, m)
              /\ \A n \in 1 .. Len(path) - 1 : IsFolder(path, folders, n) => n <= m
<1> DEFINE pop == Pop(path, folders)
           L == Len(path)
           Found(n) == \/ pop[n] = << >> /\ \A k \in 1 .. n : ~IsFolder(path, folders, k)
                       \/ \E m \in 1 .. n : /\ pop[n] = SubSeq(path, 1, m) /\ IsFolder(path, folders, m)
                                            /\ \A k \in 1 .. n : IsFolder(path, folders, k) => k <= m
           Bad == {n \in 0 .. L : ~Found(n)}
<1>1. L \in Nat /\ L # 0
  OBVIOUS
<1>2. pop = PopTo(path, folders, L, pop)
  <2>1. \E f : f = PopTo(path, folders, L, f)
    BY <1>1, PopEnds
  <2> QED
    BY <2>1 DEF Pop
<1> HIDE DEF pop, L
<1>3. \A k \in 0 .. L : pop[k] = IF k = 0 THEN << >>
        ELSE IF IsFolder(path, folders, k) THEN SubSeq(path, 1, k) ELSE pop[k - 1]
  BY <1>2 DEF PopTo, IsFolder
<1>4. ASSUME Bad # {} PROVE FALSE
  <2>1. Bad \in SUBSET Nat
    BY <1>1
  <2>2. PICK n \in Bad : \A k \in Bad : n <= k
    BY <1>4, <2>1, HasLeast
  <2>3. n \in 0 .. L /\ ~Found(n)
    BY <2>2
  <2>4. CASE n = 0
    <3>1. pop[0] = << >>
      BY <1>1, <1>3
    <3> QED
      BY <2>3, <2>4, <3>1
  <2>5. CASE n # 0 /\ IsFolder(path, folders, n)
    <3>1. pop[n] = SubSeq(path, 1, n)
      BY <1>3, <2>3, <2>5
    <3>2. n \in 1 .. n /\ \A k \in 1 .. n : k <= n
      BY <1>1, <2>3, <2>5
    <3>3. \E m \in 1 .. n : /\ pop[n] = SubSeq(path, 1, m) /\ IsFolder(path, folders, m)
                            /\ \A k \in 1 .. n : IsFolder(path, folders, k) => k <= m
      BY <2>5, <3>1, <3>2
    <3> QED
      BY <2>3, <3>3
  <2>6. CASE n # 0 /\ ~IsFolder(path, folders, n)
    <3>1. pop[n] = pop[n - 1] /\ n - 1 \in 0 .. L
      BY <1>1, <1>3, <2>3, <2>6
    <3>2. Found(n - 1)
      <4>1. n - 1 \notin Bad
        BY <1>1, <2>2, <2>3, <3>1
      <4> QED
        BY <3>1, <4>1
    <3>3. \A k \in 1 .. n : k \in 1 .. n - 1 \/ k = n
      BY <1>1, <2>3
    <3>4. \A k \in 1 .. n - 1 : k \in 1 .. n
      BY <1>1, <2>3
    <3>5. CASE pop[n - 1] = << >> /\ \A k \in 1 .. n - 1 : ~IsFolder(path, folders, k)
      BY <2>3, <2>6, <3>1, <3>3, <3>5
    <3>6. CASE \E m \in 1 .. n - 1 : /\ pop[n - 1] = SubSeq(path, 1, m) /\ IsFolder(path, folders, m)
                                     /\ \A k \in 1 .. n - 1 : IsFolder(path, folders, k) => k <= m
      BY <2>3, <2>6, <3>1, <3>3, <3>4, <3>6
    <3> QED
      BY <3>2, <3>5, <3>6
  <2> QED
    BY <2>4, <2>5, <2>6
<1>5. L - 1 \in 0 .. L
  BY <1>1
<1>6. Found(L - 1)
  BY <1>4, <1>5
<1>7. NearestFolder(path, folders) = pop[L - 1]
  BY NearestIsPop DEF pop, L
<1> QED
  BY <1>6, <1>7 DEF L

-----------------------------------------------------------------------------
(* Files: what the tuples of a manifest give                               *)

(* The folders above a file are the ones the loop looks at.                *)
LEMMA AboveArePopped ==
  ASSUME NEW folders, DOMAIN folders \subseteq Seq(STRING) \ {<< >>},
         NEW file, file.path \in Seq(STRING) \ {<< >>}
  PROVE  /\ \A f \in Above(folders, file) : \E n \in 1 .. Len(file.path) - 1 :
              f = SubSeq(file.path, 1, n) /\ IsFolder(file.path, folders, n) /\ Len(f) = n
         /\ \A n \in 1 .. Len(file.path) - 1 : IsFolder(file.path, folders, n) =>
              SubSeq(file.path, 1, n) \in Above(folders, file) /\ Len(SubSeq(file.path, 1, n)) = n
<1> DEFINE p == file.path
<1>1. p \in Seq(STRING) /\ Len(p) \in Nat /\ p = SubSeq(p, 1, Len(p))
  OBVIOUS
<1>2. ASSUME NEW f \in Above(folders, file)
      PROVE  \E n \in 1 .. Len(p) - 1 :
               f = SubSeq(p, 1, n) /\ IsFolder(p, folders, n) /\ Len(f) = n
  <2>1. f \in DOMAIN folders /\ f \in Seq(STRING) /\ f # << >> /\ f # p
        /\ Len(f) <= Len(p) /\ SubSeq(f, 1, Len(f)) = SubSeq(p, 1, Len(f))
    BY DEF Above, IsStrictPrefix, IsPrefix
  <2>2. f = SubSeq(f, 1, Len(f)) /\ Len(f) \in Nat /\ Len(f) # 0
    BY <2>1
  <2>3. Len(f) # Len(p)
    BY <1>1, <2>1, <2>2
  <2>4. Len(f) \in 1 .. Len(p) - 1
    BY <1>1, <2>1, <2>2, <2>3
  <2>5. f = SubSeq(p, 1, Len(f))
    BY <2>1, <2>2
  <2> QED
    BY <2>1, <2>4, <2>5 DEF IsFolder
<1>3. ASSUME NEW n \in 1 .. Len(p) - 1, IsFolder(p, folders, n)
      PROVE  SubSeq(p, 1, n) \in Above(folders, file) /\ Len(SubSeq(p, 1, n)) = n
  <2> DEFINE f == SubSeq(p, 1, n)
  <2>1. f \in Seq(STRING) /\ Len(f) = n /\ n < Len(p)
    BY <1>1
  <2>2. f \in DOMAIN folders
    BY <1>3 DEF IsFolder
  <2>3. SubSeq(f, 1, n) = f
    BY <2>1
  <2>4. f # p
    BY <1>1, <2>1
  <2> HIDE DEF f
  <2>5. IsStrictPrefix(f, p)
    BY <1>1, <2>1, <2>3, <2>4 DEF IsStrictPrefix, IsPrefix, f
  <2> QED
    BY <2>1, <2>2, <2>5 DEF Above, f
<1> QED
  BY <1>2, <1>3

(* The source of the deepest of them is the one the loop finds.            *)
LEMMA DeepestSource ==
  ASSUME NEW folders, DOMAIN folders \subseteq Seq(STRING) \ {<< >>},
         NEW file, file.path \in Seq(STRING) \ {<< >>}
  PROVE  LET f == NearestFolder(file.path, folders) IN
         SourcesOf(folders, file) =
           IF f = << >> \/ folders[f].source = "" THEN {} ELSE {folders[f].source}
<1> DEFINE p == file.path
           near == NearestFolder(p, folders)
           A == Above(folders, file)
           D == {f \in A : \A g \in A : Len(g) <= Len(f)}
<1>1. /\ \A f \in A : \E n \in 1 .. Len(p) - 1 :
              f = SubSeq(p, 1, n) /\ IsFolder(p, folders, n) /\ Len(f) = n
      /\ \A n \in 1 .. Len(p) - 1 : IsFolder(p, folders, n) =>
              SubSeq(p, 1, n) \in A /\ Len(SubSeq(p, 1, n)) = n
  BY AboveArePopped
<1>2. SourcesOf(folders, file) = {folders[f].source : f \in D} \ {""}
  BY DEF SourcesOf
<1>3. CASE near = << >> /\ \A n \in 1 .. Len(p) - 1 : ~IsFolder(p, folders, n)
  <2>1. D = {}
    BY <1>1, <1>3
  <2> QED
    BY <1>2, <1>3, <2>1
<1>4. CASE \E m \in 1 .. Len(p) - 1 :
              /\ near = SubSeq(p, 1, m) /\ IsFolder(p, folders, m)
              /\ \A n \in 1 .. Len(p) - 1 : IsFolder(p, folders, n) => n <= m
  <2>1. PICK m \in 1 .. Len(p) - 1 :
              /\ near = SubSeq(p, 1, m) /\ IsFolder(p, folders, m)
              /\ \A n \in 1 .. Len(p) - 1 : IsFolder(p, folders, n) => n <= m
    BY <1>4
  <2>2. near \in A /\ Len(near) = m
    BY <1>1, <2>1
  <2>3. \A g \in A : Len(g) <= m /\ (Len(g) = m => g = near)
    BY <1>1, <2>1
  <2>4. Len(p) \in Nat /\ m \in Nat /\ m # 0
    <3>1. p \in Seq(STRING)
      OBVIOUS
    <3> QED
      BY <3>1
  <2>5. \A g \in A : Len(g) \in Nat
    BY <1>1, <2>4
  <2> HIDE DEF A, near, p
  <2>6. near \in D
    BY <2>2, <2>3
  <2>7. ASSUME NEW g \in D PROVE g = near
    <3>1. m <= Len(g) /\ Len(g) <= m
      BY <2>2, <2>3
    <3> QED
      BY <2>3, <2>4, <2>5, <3>1
  <2>8. D = {near}
    BY <2>6, <2>7
  <2>9. near # << >>
    BY <2>2, <2>4
  <2> HIDE DEF D
  <2>10. {folders[f].source : f \in D} \ {""} =
           IF near = << >> \/ folders[near].source = "" THEN {} ELSE {folders[near].source}
    BY <2>8, <2>9
  <2> QED
    BY <1>2, <2>10 DEF near, p
<1> QED
  BY <1>3, <1>4, NearestIsDeepest

(* A list says the same of any object.                                     *)
LEMMA ListedOf ==
  ASSUME NEW spec, NEW o, NEW t \in Listed(spec, o)
  PROVE  /\ t[2] # "parent" /\ t[3] = o /\ t = <<t[1], t[2], o>>
         /\ \A q : <<t[1], t[2], q>> \in Listed(spec, q)
  BY DEF Listed

FilesCases(manifest, tree, t) ==
  \/ \E f \in DOMAIN manifest.folders :
       /\ manifest.folders[f].source # ""
       /\ t \in Listed(manifest.folders[f], Source(manifest.folders[f].source))
  \/ \E file \in tree : t \in FileParent(file, manifest.folders)
  \/ \E file \in tree : /\ file.path \in DOMAIN manifest.documents
                        /\ t \in Listed(manifest.documents[file.path], Document(file.doc))

LEMMA FilesTuplesAre ==
  ASSUME NEW manifest, NEW tree, NEW t
  PROVE  t \in FilesTuples(manifest, tree) <=> FilesCases(manifest, tree, t)
<1> DEFINE OfFolder(f) == Listed(manifest.folders[f], Source(manifest.folders[f].source))
           Folders == {f \in DOMAIN manifest.folders : manifest.folders[f].source # ""}
           OfDocument(file) == IF file.path \in DOMAIN manifest.documents
                               THEN Listed(manifest.documents[file.path], Document(file.doc)) ELSE {}
           OfFile(file) == FileParent(file, manifest.folders) \cup OfDocument(file)
           ofFolders == UNION {OfFolder(f) : f \in Folders}
           ofFiles == UNION {OfFile(file) : file \in tree}
<1>1. FilesTuples(manifest, tree) = ofFolders \cup ofFiles
  BY Zenon DEF FilesTuples
<1>2. t \in ofFolders <=> \E f \in DOMAIN manifest.folders :
        /\ manifest.folders[f].source # ""
        /\ t \in Listed(manifest.folders[f], Source(manifest.folders[f].source))
  OBVIOUS
<1>3. \A file : t \in OfDocument(file) <=>
        /\ file.path \in DOMAIN manifest.documents
        /\ t \in Listed(manifest.documents[file.path], Document(file.doc))
  OBVIOUS
<1> HIDE DEF OfDocument
<1>4. t \in ofFiles <=> \/ \E file \in tree : t \in FileParent(file, manifest.folders)
                       \/ \E file \in tree : t \in OfDocument(file)
  OBVIOUS
<1> HIDE DEF ofFolders, ofFiles
<1>5. (\E file \in tree : t \in OfDocument(file)) <=>
        \E file \in tree : /\ file.path \in DOMAIN manifest.documents
                           /\ t \in Listed(manifest.documents[file.path], Document(file.doc))
  BY <1>3
<1>6. t \in FilesTuples(manifest, tree) <=> t \in ofFolders \/ t \in ofFiles
  BY <1>1
<1> QED
  BY <1>2, <1>4, <1>5, <1>6 DEF FilesCases

(* The parent of a file is the source of its deepest folder.               *)
LEMMA ParentIsSource ==
  ASSUME NEW folders, DOMAIN folders \subseteq Seq(STRING) \ {<< >>},
         NEW file, file.path \in Seq(STRING) \ {<< >>}
  PROVE  FileParent(file, folders) =
           {<<Source(s), "parent", Document(file.doc)>> : s \in SourcesOf(folders, file)}
<1> DEFINE f == NearestFolder(file.path, folders)
<1>1. SourcesOf(folders, file) = IF f = << >> \/ folders[f].source = "" THEN {} ELSE {folders[f].source}
  BY DeepestSource
<1>2. FileParent(file, folders) = IF f = << >> \/ folders[f].source = "" THEN {}
                                  ELSE {<<Source(folders[f].source), "parent", Document(file.doc)>>}
  BY DEF FileParent
<1> HIDE DEF f
<1> QED
  BY <1>1, <1>2

GivenByManifest(w, x) ==
  \/ \E file \in w.tree : /\ file.path \in DOMAIN w.manifest.documents
                          /\ x \in Listed(w.manifest.documents[file.path], Document(file.doc))
  \/ \E file \in w.tree : \E f \in DOMAIN w.manifest.folders :
       /\ w.manifest.folders[f].source \in SourcesOf(w.manifest.folders, file)
       /\ x \in Listed(w.manifest.folders[f], Document(file.doc))

LEMMA ManifestGrantsAre ==
  ASSUME NEW w, NEW x
  PROVE  x \in ManifestGrants(w) <=> GivenByManifest(w, x)
<1> DEFINE folders == w.manifest.folders
           Direct == UNION {Listed(w.manifest.documents[file.path], Document(file.doc)) :
                              file \in {file \in w.tree : file.path \in DOMAIN w.manifest.documents}}
           Through(file) == UNION {Listed(folders[f], Document(file.doc)) :
                              f \in {f \in DOMAIN folders :
                                       folders[f].source \in SourcesOf(folders, file)}}
<1>1. ManifestGrants(w) = Direct \cup UNION {Through(file) : file \in w.tree}
  BY Zenon DEF ManifestGrants
<1>2. x \in Direct <=> \E file \in w.tree :
        /\ file.path \in DOMAIN w.manifest.documents
        /\ x \in Listed(w.manifest.documents[file.path], Document(file.doc))
  OBVIOUS
<1>3. \A file : x \in Through(file) <=> \E f \in DOMAIN folders :
        /\ folders[f].source \in SourcesOf(folders, file)
        /\ x \in Listed(folders[f], Document(file.doc))
  OBVIOUS
<1> HIDE DEF Direct, Through
<1>4. (x \in UNION {Through(file) : file \in w.tree}) <=> \E file \in w.tree : x \in Through(file)
  OBVIOUS
<1> QED
  BY <1>1, <1>2, <1>3, <1>4 DEF GivenByManifest

LEMMA FilesExact ==
  ASSUME NEW w, DOMAIN w.manifest.folders \subseteq Seq(STRING) \ {<< >>},
         \A file \in w.tree : file.path \in Seq(STRING) \ {<< >>}
  PROVE  Grants(FilesTuples(w.manifest, w.tree)) = ManifestGrants(w)
<1> DEFINE T == FilesTuples(w.manifest, w.tree)
           folders == w.manifest.folders
<1>1. ASSUME NEW file \in w.tree
      PROVE  FileParent(file, folders) =
               {<<Source(s), "parent", Document(file.doc)>> : s \in SourcesOf(folders, file)}
  BY ParentIsSource
<1>2. \A file \in w.tree : "" \notin SourcesOf(folders, file)
  BY DEF SourcesOf
<1>3. ASSUME NEW x \in Grants(T) PROVE GivenByManifest(w, x)
  <2>1. CASE x \in T /\ x[2] # "parent" /\ x[3][1] # "source"
    <3>1. FilesCases(w.manifest, w.tree, x)
      BY <2>1, FilesTuplesAre
    <3>2. ~\E f \in DOMAIN folders : x \in Listed(folders[f], Source(folders[f].source))
      <4> SUFFICES ASSUME NEW f, x \in Listed(folders[f], Source(folders[f].source)) PROVE FALSE
        OBVIOUS
      <4>1. x[3] = Source(folders[f].source)
        BY ListedOf
      <4> QED
        BY <2>1, <4>1 DEF Source
    <3>3. ~\E file \in w.tree : x \in FileParent(file, folders)
      BY <1>1, <2>1
    <3> QED
      BY <3>1, <3>2, <3>3 DEF FilesCases, GivenByManifest
  <2>2. CASE \E t, u \in T : /\ t[2] # "parent" /\ u[2] = "parent" /\ u[1] = t[3]
                             /\ x = <<t[1], t[2], u[3]>>
    <3>1. PICK t \in T, u \in T : /\ t[2] # "parent" /\ u[2] = "parent" /\ u[1] = t[3]
                                  /\ x = <<t[1], t[2], u[3]>>
      BY <2>2
    <3>2. FilesCases(w.manifest, w.tree, t) /\ FilesCases(w.manifest, w.tree, u)
      BY FilesTuplesAre
    <3>3. PICK file \in w.tree : u \in FileParent(file, folders)
      <4>1. \A spec, o : u \notin Listed(spec, o)
        BY <3>1, ListedOf
      <4> QED
        BY <3>2, <4>1 DEF FilesCases
    <3>4. PICK s \in SourcesOf(folders, file) : u = <<Source(s), "parent", Document(file.doc)>>
      BY <1>1, <3>3
    <3>5. t[3] = Source(s)
      BY <3>1, <3>4
    <3>6. ~\E y \in w.tree : t \in FileParent(y, folders)
      BY <1>1, <3>1
    <3>7. ~\E y \in w.tree : t \in Listed(w.manifest.documents[y.path], Document(y.doc))
      <4> SUFFICES ASSUME NEW y, t \in Listed(w.manifest.documents[y.path], Document(y.doc)) PROVE FALSE
        OBVIOUS
      <4>1. t[3] = Document(y.doc)
        BY ListedOf
      <4> QED
        BY <3>5, <4>1 DEF Source, Document
    <3>8. PICK f \in DOMAIN folders : t \in Listed(folders[f], Source(folders[f].source))
      BY <3>2, <3>6, <3>7 DEF FilesCases
    <3>9. folders[f].source = s
      BY <3>5, <3>8, ListedOf DEF Source
    <3>10. x \in Listed(folders[f], Document(file.doc))
      BY <3>1, <3>4, <3>8, ListedOf
    <3> QED
      BY <3>9, <3>10 DEF GivenByManifest
  <2> QED
    BY <2>1, <2>2, GrantsCases
<1>4. ASSUME NEW x, GivenByManifest(w, x) PROVE x \in Grants(T)
  <2>1. CASE \E file \in w.tree : /\ file.path \in DOMAIN w.manifest.documents
                          /\ x \in Listed(w.manifest.documents[file.path], Document(file.doc))
    <3>1. x \in T
      BY <2>1, FilesTuplesAre DEF FilesCases
    <3>2. x[2] # "parent" /\ x[3][1] # "source"
      BY <2>1, ListedOf DEF Document
    <3> QED
      BY <3>1, <3>2, GrantsDirect
  <2>2. ASSUME NEW file \in w.tree, NEW f \in DOMAIN folders,
               folders[f].source \in SourcesOf(folders, file),
               x \in Listed(folders[f], Document(file.doc))
        PROVE  x \in Grants(T)
    <3> DEFINE s == folders[f].source
               t == <<x[1], x[2], Source(s)>>
               u == <<Source(s), "parent", Document(file.doc)>>
    <3>1. s # ""
      BY <1>2, <2>2
    <3>2. t \in Listed(folders[f], Source(s)) /\ x[2] # "parent" /\ x = <<x[1], x[2], Document(file.doc)>>
      BY <2>2, ListedOf
    <3>3. u \in FileParent(file, folders)
      BY <1>1, <2>2
    <3>4. t \in T
      BY <3>1, <3>2, FilesTuplesAre DEF FilesCases
    <3>5. u \in T
      BY <3>3, FilesTuplesAre DEF FilesCases
    <3>6. t[2] # "parent" /\ u[2] = "parent" /\ u[1] = t[3] /\ x = <<t[1], t[2], u[3]>>
      BY <3>2
    <3> HIDE DEF t, u, T
    <3> QED
      BY <3>4, <3>5, <3>6, GrantsByParent
  <2> QED
    BY <1>4, <2>1, <2>2 DEF GivenByManifest
<1> QED
  BY <1>3, <1>4, ManifestGrantsAre

-----------------------------------------------------------------------------
(* The invariant of a connector's read                                     *)

ReadPcs == {"start", "shares", "tree", "page", "records", "groups", "children", "members",
            "returned", "raised"}

(* The reads of a kind of connector, and what they keep.                   *)
ReadShape ==
  /\ connector \in DOMAIN Worlds /\ source \in Worlds[connector]
  /\ changed \in BOOLEAN /\ moved \in BOOLEAN /\ (moved => changed)
  /\ read.pc \in ReadPcs
  /\ read.pc = "shares" => connector = "nextcloud"
  /\ read.pc = "tree" => connector = "files"
  /\ read.pc \in {"page", "records"} => connector = "pipeshub"
  /\ read.pc \in {"groups", "children", "members"} => connector = "keycloak"
  /\ read.pc \in {"page", "groups", "members"} => read.first \in Nat
  /\ read.pc = "records" => DOMAIN read = {"pc", "ids", "got"}
  /\ read.pc = "children" => DOMAIN read = {"pc", "flat", "todo"}
  /\ read.pc = "members" => DOMAIN read = {"pc", "todo", "first", "got"}

(* What is granted now was granted at some instant.                        *)
EverHolds == Granted(connector, source) \subseteq ever

NextcloudHolds == read.pc = "shares" /\ ~moved => read.entries = source.entries

(* The manifest is one the source had, with the files it still has.        *)
FilesHolds ==
  read.pc = "tree" =>
    /\ ~changed => read.manifest = source.manifest
    /\ ~moved => \E w \in Worlds["files"] :
         w.manifest = read.manifest /\ w.tree = source.tree /\ ManifestGrants(w) \subseteq ever

(* What a record gives was given, and no record gives by a parent.         *)
WasGiven(got, given) ==
  \A t \in got : IF t[2] = "parent" THEN t[1][1] = "source" ELSE t[3][1] = "document" /\ t \in given

(* The pages before the next one are read; then every record is to be      *)
(* read, or was.                                                           *)
PipesHubHolds ==
  /\ read.pc = "page" /\ ~changed =>
       \A i \in DOMAIN source.list : i <= read.first => source.list[i] \in read.ids
  /\ read.pc = "records" =>
       /\ WasGiven(read.got, ever)
       /\ ~changed => \A id \in DOMAIN source.record :
            id \in read.ids \/ RecordTuples(id, source.record[id]) \subseteq read.got

(* Groups that are where they were when they were listed.                  *)
InPlace(w, G) == \A g \in G : <<g.id, g.path>> \in {<<h, w.group[h].path>> : h \in DOMAIN w.group}

Recorded(m, path, got) ==
  m.enabled /\ m.name \in Names => <<Person(m.name), "member", Group(path)>> \in got

AllRecorded(w, g, got) ==
  \A i \in DOMAIN w.members[g.id] : Recorded(w.members[g.id][i], g.path, got)

(* The entries of the groups that come with a page of the list, and of     *)
(* those that have to be asked for.                                        *)
TopGroups(w)   == ListedGroups(w, ToSet(w.top))
ChildGroups(w) ==
  UNION {ListedGroups(w, w.group[e.id].lazy) :
           e \in {e \in TopGroups(w) : w.group[e.id].inline = {}}}

GroupsSoFar(w, first, flat) ==
  \A i \in DOMAIN w.top : i <= first => ListedGroups(w, {w.top[i]}) \subseteq flat

ChildrenSoFar(w, flat, todo) ==
  /\ TopGroups(w) \subseteq flat
  /\ \A e \in TopGroups(w) : w.group[e.id].inline = {} =>
       e \in todo \/ ListedGroups(w, w.group[e.id].lazy) \subseteq flat

(* Every group is to be read, or was; one is read in part.                 *)
MembersSoFar(w, todo, first, got) ==
  /\ \A e \in TopGroups(w) \cup ChildGroups(w) : e \in todo \/ AllRecorded(w, e, got)
  /\ todo # {} =>
       LET g == CHOOSE g \in todo : TRUE
       IN  \A i \in DOMAIN w.members[g.id] : i <= first => Recorded(w.members[g.id][i], g.path, got)

WereMembers(got, given) == \A t \in got : t \in given /\ t[2] = "member" /\ t[3][1] = "group"

KeycloakHolds ==
  /\ read.pc \in {"groups", "children"} /\ ~moved => InPlace(source, read.flat)
  /\ read.pc = "members" /\ ~moved => InPlace(source, read.todo) /\ WereMembers(read.got, ever)
  /\ read.pc = "groups" /\ ~changed => GroupsSoFar(source, read.first, read.flat)
  /\ read.pc = "children" /\ ~changed => ChildrenSoFar(source, read.flat, read.todo)
  /\ read.pc = "members" /\ ~changed => MembersSoFar(source, read.todo, read.first, read.got)

ConnectorsInv ==
  ReadShape /\ EverHolds /\ NextcloudHolds /\ FilesHolds /\ PipesHubHolds /\ KeycloakHolds
    /\ SnapshotFaithful

-----------------------------------------------------------------------------
(* Pages                                                                   *)

LEMMA MinOfTwo ==
  ASSUME NEW a \in Nat, NEW b \in Nat
  PROVE  (a <= b => Min({a, b}) = a) /\ (~(a <= b) => Min({a, b}) = b)
<1>1. \E x \in {a, b} : \A y \in {a, b} : x <= y
  OBVIOUS
<1>2. Min({a, b}) \in {a, b} /\ \A y \in {a, b} : Min({a, b}) <= y
  BY <1>1 DEF Min
<1> DEFINE m == Min({a, b})
<1>3. (m = a \/ m = b) /\ m <= a /\ m <= b
  BY <1>2
<1> HIDE DEF m
<1>4. (a <= b => m = a) /\ (~(a <= b) => m = b)
  BY <1>3
<1> QED
  BY <1>4 DEF m

(* A page is the next part of the list; one that is not full is the last,  *)
(* and after an empty one there was nothing left.                          *)
LEMMA PageIsNext ==
  ASSUME NEW X, NEW list \in Seq(X), NEW first \in Nat
  PROVE  LET page == Page(list, first) IN
         /\ page \in Seq(X)
         /\ \A j \in DOMAIN page : \E i \in DOMAIN list : page[j] = list[i]
         /\ \A i \in DOMAIN list : i <= NextPage(first) => i <= first \/ \E j \in DOMAIN page : page[j] = list[i]
         /\ Len(page) < PageSize => \A i \in DOMAIN list : i <= NextPage(first)
         /\ page = << >> => \A i \in DOMAIN list : i <= first
         /\ NextPage(first) \in Nat
<1> DEFINE end  == first + PageSize
           n    == Len(list)
           last == Min({end, n})
           page == SubSeq(list, first + 1, last)
<1>1. n \in Nat /\ DOMAIN list = 1 .. n
  OBVIOUS
<1>2. end \in Nat /\ first < end /\ end = first + PageSize /\ PageSize \in Nat
  BY ConnectorsAssumption
<1>3. NextPage(first) = end
  BY DEF NextPage
<1>4. (end <= n => last = end) /\ (~(end <= n) => last = n)
  BY <1>1, <1>2, MinOfTwo
<1>5. page = Page(list, first)
  BY DEF Page
<1> HIDE DEF last, end
<1>6. last \in Nat /\ last <= n /\ last <= end
  BY <1>1, <1>2, <1>4
<1>7. CASE last < first + 1
  <2>1. page = << >>
    BY <1>1, <1>6, <1>7
  <2>2. page \in Seq(X) /\ DOMAIN page = {}
    <3> HIDE DEF page
    <3>1. << >> \in Seq(X) /\ DOMAIN << >> = {}
      OBVIOUS
    <3> QED
      BY <2>1, <3>1
  <2> HIDE DEF page, n
  <2>3. n <= first
    BY <1>1, <1>2, <1>4, <1>6, <1>7
  <2>4. \A i \in DOMAIN list : i <= first /\ i <= end
    BY <1>1, <1>2, <2>3
  <2> QED
    BY <1>2, <1>3, <1>5, <2>2, <2>4
<1>8. CASE ~(last < first + 1)
  <2>1. /\ page \in Seq(X) /\ Len(page) = last - first /\ DOMAIN page = 1 .. last - first
        /\ \A j \in 1 .. last - first : page[j] = list[first + j] /\ first + j \in DOMAIN list
    BY <1>1, <1>6, <1>8
  <2>2. last - first \in Nat /\ last - first # 0
    BY <1>6, <1>8
  <2>3. page # << >>
    BY <2>1, <2>2
  <2> HIDE DEF page, n
  <2>4. ASSUME NEW i \in DOMAIN list, i <= end, ~(i <= first)
        PROVE  \E j \in DOMAIN page : page[j] = list[i]
    <3>1. i \in Nat /\ i <= n
      BY <1>1
    <3>2. i <= last
      BY <1>1, <1>2, <1>4, <2>4, <3>1
    <3>3. i - first \in 1 .. last - first /\ first + (i - first) = i
      BY <1>6, <2>4, <3>1, <3>2
    <3> QED
      BY <2>1, <3>3
  <2>5. ASSUME Len(page) < PageSize, NEW i \in DOMAIN list PROVE i <= end
    <3>1. last # end
      BY <1>2, <1>6, <2>1, <2>5
    <3>2. last = n /\ ~(end <= n)
      BY <1>4, <3>1
    <3> QED
      BY <1>1, <1>2, <3>2
  <2> QED
    BY <1>2, <1>3, <1>5, <2>1, <2>3, <2>4, <2>5
<1> QED
  BY <1>7, <1>8

-----------------------------------------------------------------------------
(* PipesHub: records                                                       *)

LEMMA RecordIs ==
  ASSUME NEW id, NEW record, NEW t \in RecordTuples(id, record)
  PROVE  IF t[2] = "parent" THEN t[1][1] = "source" ELSE t[3][1] = "document"
<1> DEFINE parent == {<<Source(kb), "parent", Document(id)>> : kb \in {record.kb} \ {""}}
           all == UNION {EntryTuples(id, entry) : entry \in record.permissions}
<1>0. RecordTuples(id, record) = parent \cup all
  BY Zenon DEF RecordTuples
<1>1. CASE t \in parent
  <2>1. t = <<Source(record.kb), "parent", Document(id)>>
    BY <1>1
  <2> QED
    BY <2>1 DEF Source
<1>2. ASSUME NEW entry \in record.permissions, NEW p \in EntryPrincipals(entry),
             NEW r \in PermissionRelations(entry), t = <<p, r, Document(id)>>
      PROVE  t[2] # "parent" /\ t[3][1] = "document"
  <2>1. r # "parent"
    BY DEF PermissionRelations
  <2> QED
    BY <1>2, <2>1 DEF Document
<1>3. CASE t \in all
  <2>1. PICK entry \in record.permissions : t \in EntryTuples(id, entry)
    BY <1>3
  <2>2. PICK p \in EntryPrincipals(entry), r \in PermissionRelations(entry) : t = <<p, r, Document(id)>>
    BY <2>1 DEF EntryTuples
  <2> QED
    BY <1>2, <2>2
<1> HIDE DEF parent, all
<1> QED
  BY <1>0, <1>1, <1>3

(* What a record gives, its source gives.                                  *)
LEMMA RecordWasGiven ==
  ASSUME NEW w, NEW id \in DOMAIN w.record, NEW given, Granted("pipeshub", w) \subseteq given
  PROVE  WasGiven(RecordTuples(id, w.record[id]), given)
<1> DEFINE all == UNION {RecordTuples(i, w.record[i]) : i \in DOMAIN w.record}
<1> SUFFICES ASSUME NEW t \in RecordTuples(id, w.record[id]), t[2] # "parent"
             PROVE  t \in given
  BY RecordIs DEF WasGiven
<1>1. t[3][1] = "document" /\ t \in all
  BY RecordIs
<1>2. Granted("pipeshub", w) = Grants(all)
  BY DEF Granted
<1> HIDE DEF all
<1>3. t \in Grants(all)
  BY <1>1, GrantsDirect
<1> QED
  BY <1>2, <1>3

LEMMA RecordsGrant ==
  ASSUME NEW got, NEW given, WasGiven(got, given)
  PROVE  Grants(got) \subseteq given
<1>1. \A t \in got : t[2] = "parent" => t[1][1] = "source"
  BY DEF WasGiven
<1>2. \A t \in got : t[2] # "parent" => t[3][1] = "document" /\ t \in given
  BY DEF WasGiven
<1> SUFFICES ASSUME NEW x \in Grants(got) PROVE x \in given
  OBVIOUS
<1>3. CASE x \in got /\ x[2] # "parent" /\ x[3][1] # "source"
  BY <1>2, <1>3
<1>4. ASSUME NEW t \in got, NEW u \in got, t[2] # "parent", u[2] = "parent", u[1] = t[3]
      PROVE  FALSE
  <2>1. u[1][1] = "source" /\ t[3][1] = "document"
    BY <1>1, <1>2, <1>4
  <2> QED
    BY <1>4, <2>1
<1> QED
  BY <1>3, <1>4, GrantsCases

-----------------------------------------------------------------------------
(* Keycloak: groups and their members                                      *)

LEMMA FlattenedAreThere ==
  ASSUME NEW w, NEW g PROVE Flatten(w, g) \subseteq DOMAIN w.group
  BY DEF Flatten

(* An entry of the list is about a group that is there.                    *)
LEMMA EntryIs ==
  ASSUME NEW w, NEW ids, NEW e \in ListedGroups(w, ids)
  PROVE  /\ e.id \in DOMAIN w.group /\ e.path = w.group[e.id].path
         /\ e.lazy <=> w.group[e.id].inline = {} /\ w.group[e.id].lazy # {}
<1>1. PICK h \in UNION {Flatten(w, g) : g \in ids} :
        e = [id |-> h, path |-> w.group[h].path,
             lazy |-> w.group[h].inline = {} /\ w.group[h].lazy # {}]
  BY Zenon DEF ListedGroups
<1>2. h \in DOMAIN w.group
  <2>1. PICK g \in ids : h \in Flatten(w, g)
    OBVIOUS
  <2> QED
    BY <2>1, FlattenedAreThere, Zenon
<1>3. /\ e.id = h /\ e.path = w.group[h].path
      /\ e.lazy = (w.group[h].inline = {} /\ w.group[h].lazy # {})
  BY <1>1
<1> QED
  BY <1>2, <1>3

LEMMA ListedInPlace ==
  ASSUME NEW w, NEW ids PROVE InPlace(w, ListedGroups(w, ids))
  BY EntryIs DEF InPlace

(* A list has the entries of its parts.                                    *)
LEMMA ListedByParts ==
  ASSUME NEW w, NEW ids, NEW e
  PROVE  e \in ListedGroups(w, ids) <=> \E i \in ids : e \in ListedGroups(w, {i})
  BY DEF ListedGroups

LEMMA MemberTuplesAre ==
  ASSUME NEW members, NEW path, NEW got
  PROVE  MemberTuples(members, path) \subseteq got <=>
           \A i \in DOMAIN members : Recorded(members[i], path, got)
  BY DEF MemberTuples, Recorded, ToSet

PartOf(page, list) == \A j \in DOMAIN page : \E i \in DOMAIN list : page[j] = list[i]

(* A group that is in place has the members its source says.               *)
LEMMA PageWasGiven ==
  ASSUME NEW w, NEW g, NEW page, NEW given, Granted("keycloak", w) \subseteq given,
         g.id \in DOMAIN w.group, g.path = w.group[g.id].path, PartOf(page, w.members[g.id])
  PROVE  WereMembers(MemberTuples(page, g.path), given)
<1>1. g.id \in DOMAIN w.group /\ g.path = w.group[g.id].path
  OBVIOUS
<1>2. Granted("keycloak", w) = Memberships(w, DOMAIN w.group)
  BY DEF Granted
<1> SUFFICES ASSUME NEW t \in MemberTuples(page, g.path)
             PROVE  t \in given /\ t[2] = "member" /\ t[3][1] = "group"
  BY DEF WereMembers
<1>3. PICK j \in DOMAIN page : /\ page[j].enabled /\ page[j].name \in Names
                               /\ t = <<Person(page[j].name), "member", Group(g.path)>>
  BY DEF MemberTuples, ToSet
<1>4. t[2] = "member" /\ t[3][1] = "group"
  BY <1>3 DEF Group
<1>5. PICK i \in DOMAIN w.members[g.id] : page[j] = w.members[g.id][i]
  BY DEF PartOf
<1>6. t \in MemberTuples(w.members[g.id], g.path)
  BY <1>3, <1>5 DEF MemberTuples, ToSet
<1>7. t \in Memberships(w, DOMAIN w.group)
  BY <1>1, <1>6 DEF Memberships
<1> QED
  BY <1>2, <1>4, <1>7

LEMMA MembersGrant ==
  ASSUME NEW got, \A t \in got : t[2] = "member" /\ t[3][1] = "group"
  PROVE  Grants(got) = got
<1>1. ASSUME NEW x \in Grants(got) PROVE x \in got
  BY GrantsCases
<1>2. ASSUME NEW x \in got PROVE x \in Grants(got)
  BY GrantsDirect
<1> QED
  BY <1>1, <1>2

(* When every group listed or asked for is read in full, only what is      *)
(* below a child is missing.                                               *)
LEMMA MembersComplete ==
  ASSUME NEW w, NEW got, \A e \in TopGroups(w) \cup ChildGroups(w) : AllRecorded(w, e, got)
  PROVE  Memberships(w, DOMAIN w.group) \ Memberships(w, BelowChildren(w)) \subseteq got
<1> DEFINE listed == UNION {Flatten(w, g) : g \in ToSet(w.top)}
           parents == {g \in listed : w.group[g].inline = {}}
           asked == UNION {Flatten(w, c) : c \in UNION {w.group[g].lazy : g \in parents}}
           Entry(h) == [id |-> h, path |-> w.group[h].path,
                        lazy |-> w.group[h].inline = {} /\ w.group[h].lazy # {}]
<1>1. BelowChildren(w) = DOMAIN w.group \ (listed \cup asked)
  BY Zenon DEF BelowChildren
<1>2. \A h : Entry(h).id = h /\ Entry(h).path = w.group[h].path
  OBVIOUS
<1>3. \A h \in listed : Entry(h) \in TopGroups(w)
  BY Zenon DEF TopGroups, ListedGroups
<1>4. ASSUME NEW h \in asked PROVE Entry(h) \in ChildGroups(w)
  <2>1. PICK g \in parents : \E c \in w.group[g].lazy : h \in Flatten(w, c)
    OBVIOUS
  <2>2. Entry(h) \in ListedGroups(w, w.group[g].lazy)
    <3>1. h \in UNION {Flatten(w, c) : c \in w.group[g].lazy}
      BY <2>1
    <3> QED
      BY <3>1, Zenon DEF ListedGroups
  <2>3. Entry(g) \in TopGroups(w) /\ w.group[Entry(g).id].inline = {}
    BY <1>2, <1>3
  <2>4. Entry(g).id = g
    BY <1>2
  <2> HIDE DEF Entry, parents
  <2> QED
    BY <2>2, <2>3, <2>4 DEF ChildGroups
<1> HIDE DEF Entry, listed, asked
<1> SUFFICES ASSUME NEW t \in Memberships(w, DOMAIN w.group), t \notin Memberships(w, BelowChildren(w))
             PROVE  t \in got
  OBVIOUS
<1>5. PICK g \in DOMAIN w.group : t \in MemberTuples(w.members[g], w.group[g].path)
  BY DEF Memberships
<1>6. g \in listed \cup asked
  <2>1. g \notin BelowChildren(w)
    BY <1>5 DEF Memberships
  <2> QED
    BY <1>1, <2>1
<1>7. AllRecorded(w, Entry(g), got)
  BY <1>3, <1>4, <1>6
<1>8. MemberTuples(w.members[g], w.group[g].path) \subseteq got
  BY <1>2, <1>7, MemberTuplesAre DEF AllRecorded
<1> QED
  BY <1>5, <1>8
-----------------------------------------------------------------------------
(* Every step keeps the invariant                                          *)

(* A source is as the assumption says of its kind.                         *)
LEMMA SourceIs ==
  ASSUME ReadShape
  PROVE  /\ connector \in {"nextcloud", "files", "pipeshub", "keycloak"}
         /\ connector = "nextcloud" =>
              /\ \A e \in source.entries \cup source.shares : e.path \in Seq(STRING)
              /\ \A e, f \in source.entries : e.path = f.path => e = f
              /\ \A e \in source.entries : \A n \in 1 .. Len(e.path) - 1 :
                   \E d \in source.entries : d.dir /\ d.path = SubSeq(e.path, 1, n)
         /\ connector = "files" => \A w \in Worlds["files"] :
              /\ DOMAIN w.manifest.folders \subseteq Seq(STRING) \ {<< >>}
              /\ \A file \in w.tree : file.path \in Seq(STRING) \ {<< >>}
         /\ connector = "pipeshub" =>
              source.list \in Seq(STRING) /\ DOMAIN source.record \subseteq ToSet(source.list)
         /\ connector = "keycloak" =>
              /\ source.top \in Seq(STRING)
              /\ DOMAIN source.members = DOMAIN source.group
              /\ \A g \in DOMAIN source.group :
                   source.members[g] \in Seq([name : STRING, enabled : BOOLEAN])
  BY WorldsAssumption DEF ReadShape

(* What a step does that only reads, whatever comes of what it read.       *)
LEMMA ReadsOnly ==
  ASSUME ConnectorsInv, NEW r, Reads(r)
  PROVE  /\ read' = r /\ EverHolds' /\ (r.pc # "returned" => SnapshotFaithful')
         /\ connector' = connector /\ source' = source /\ ever' = ever
         /\ changed' = changed /\ moved' = moved
<1>1. UNCHANGED <<tuples, connector, source, ever, changed, moved>> /\ read' = r
  BY DEF Reads
<1>2. EverHolds'
  BY <1>1 DEF ConnectorsInv, EverHolds
<1>3. r.pc # "returned" => SnapshotFaithful'
  BY <1>1 DEF SnapshotFaithful
<1> QED
  BY <1>1, <1>2, <1>3

(* A snapshot is what the invariant asks for when no one gets more than    *)
(* was given and nothing is missing from a source that stayed as it was.   *)
LEMMA ReturnsFaithful ==
  ASSUME ConnectorsInv, NEW T, Returns(T),
         ~moved => Grants(T) \subseteq ever,
         ~changed => Granted(connector, source) \ LeftOut(connector, source) \subseteq Grants(T)
  PROVE  ConnectorsInv'
<1>1. /\ read' = [pc |-> "returned"] /\ tuples' = T
      /\ UNCHANGED <<connector, source, ever, changed, moved>>
  BY DEF Returns
<1>2. read'.pc = "returned"
  BY <1>1
<1>3. ReadShape'
  BY <1>1, <1>2 DEF ConnectorsInv, ReadShape, ReadPcs
<1>4. EverHolds'
  BY <1>1 DEF ConnectorsInv, EverHolds
<1>5. NextcloudHolds' /\ FilesHolds' /\ PipesHubHolds' /\ KeycloakHolds'
  BY <1>2 DEF NextcloudHolds, FilesHolds, PipesHubHolds, KeycloakHolds
<1>6. SnapshotFaithful'
  BY <1>1 DEF SnapshotFaithful
<1> QED
  BY <1>3, <1>4, <1>5, <1>6 DEF ConnectorsInv

LEMMA ListFilesKeeps == ASSUME ConnectorsInv, ListFiles PROVE ConnectorsInv'
<1> DEFINE r == [pc |-> "shares", entries |-> source.entries]
<1>1. Reads(r) /\ connector = "nextcloud"
  BY DEF ListFiles
<1>2. r.pc = "shares" /\ r.entries = source.entries
  OBVIOUS
<1> HIDE DEF r
<1>3. /\ read' = r /\ EverHolds' /\ SnapshotFaithful'
      /\ connector' = connector /\ source' = source /\ ever' = ever
      /\ changed' = changed /\ moved' = moved
  BY <1>1, <1>2, ReadsOnly
<1>4. read'.pc = "shares" /\ read'.entries = source'.entries
  BY <1>2, <1>3
<1>5. ReadShape'
  BY <1>1, <1>3, <1>4 DEF ConnectorsInv, ReadShape, ReadPcs
<1>6. NextcloudHolds' /\ FilesHolds' /\ PipesHubHolds' /\ KeycloakHolds'
  BY <1>4 DEF NextcloudHolds, FilesHolds, PipesHubHolds, KeycloakHolds
<1> QED
  BY <1>3, <1>5, <1>6 DEF ConnectorsInv

LEMMA ListSharesKeeps == ASSUME ConnectorsInv, ListShares PROVE ConnectorsInv'
<1> DEFINE T == NextcloudTuples(read.entries, source.shares)
<1>1. Returns(T) /\ read.pc = "shares"
  BY DEF ListShares
<1>2. connector = "nextcloud" /\ ReadShape /\ (~changed => ~moved)
  BY <1>1 DEF ConnectorsInv, ReadShape
<1>3. Granted(connector, source) = Covered(source, source.shares)
  BY <1>2 DEF Granted
<1>4. LeftOut(connector, source) = OnDeeperFolders(source)
  BY <1>2 DEF LeftOut
<1>5. ~moved => T = NextcloudTuples(source.entries, source.shares)
  BY <1>1 DEF ConnectorsInv, NextcloudHolds
<1> HIDE DEF T
<1>6. Grants(NextcloudTuples(source.entries, source.shares)) \subseteq Covered(source, source.shares)
  BY <1>2, SourceIs, NextcloudSound
<1>7. Covered(source, source.shares) \ OnDeeperFolders(source)
        \subseteq Grants(NextcloudTuples(source.entries, source.shares))
  BY <1>2, SourceIs, NextcloudComplete
<1>8. ~moved => Grants(T) \subseteq ever
  BY <1>3, <1>5, <1>6 DEF ConnectorsInv, EverHolds
<1>9. ~changed => Granted(connector, source) \ LeftOut(connector, source) \subseteq Grants(T)
  BY <1>2, <1>3, <1>4, <1>5, <1>7
<1> QED
  BY <1>1, <1>8, <1>9, ReturnsFaithful

LEMMA LoadManifestKeeps == ASSUME ConnectorsInv, LoadManifest PROVE ConnectorsInv'
<1> DEFINE r == [pc |-> "tree", manifest |-> source.manifest]
<1>1. Reads(r) /\ connector = "files"
  BY DEF LoadManifest
<1>2. r.pc = "tree" /\ r.manifest = source.manifest
  OBVIOUS
<1> HIDE DEF r
<1>3. /\ read' = r /\ EverHolds' /\ SnapshotFaithful'
      /\ connector' = connector /\ source' = source /\ ever' = ever
      /\ changed' = changed /\ moved' = moved
  BY <1>1, <1>2, ReadsOnly
<1>4. read'.pc = "tree" /\ read'.manifest = source'.manifest
  BY <1>2, <1>3
<1>5. ReadShape'
  BY <1>1, <1>3, <1>4 DEF ConnectorsInv, ReadShape, ReadPcs
<1>6. FilesHolds'
  <2>1. Granted(connector, source) = ManifestGrants(source)
    BY <1>1 DEF Granted
  <2>2. ManifestGrants(source) \subseteq ever /\ source \in Worlds["files"]
    BY <1>1, <2>1 DEF ConnectorsInv, EverHolds, ReadShape
  <2> QED
    BY <1>3, <1>4, <2>2 DEF FilesHolds
<1>7. NextcloudHolds' /\ PipesHubHolds' /\ KeycloakHolds'
  BY <1>4 DEF NextcloudHolds, PipesHubHolds, KeycloakHolds
<1> QED
  BY <1>3, <1>5, <1>6, <1>7 DEF ConnectorsInv

LEMMA WalkTreeKeeps == ASSUME ConnectorsInv, WalkTree PROVE ConnectorsInv'
<1> DEFINE T == FilesTuples(read.manifest, source.tree)
<1>1. Returns(T) /\ read.pc = "tree"
  BY DEF WalkTree
<1>2. connector = "files" /\ ReadShape /\ source \in Worlds["files"]
  BY <1>1 DEF ConnectorsInv, ReadShape
<1>3. \A w \in Worlds["files"] : Grants(FilesTuples(w.manifest, w.tree)) = ManifestGrants(w)
  BY <1>2, SourceIs, FilesExact
<1>4. Granted(connector, source) = ManifestGrants(source)
  BY <1>2 DEF Granted
<1>5. /\ ~changed => T = FilesTuples(source.manifest, source.tree)
      /\ ~moved => \E w \in Worlds["files"] :
            T = FilesTuples(w.manifest, w.tree) /\ ManifestGrants(w) \subseteq ever
  BY <1>1 DEF ConnectorsInv, FilesHolds
<1> HIDE DEF T
<1>6. ~moved => Grants(T) \subseteq ever
  BY <1>3, <1>5
<1>7. ~changed => Granted(connector, source) \ LeftOut(connector, source) \subseteq Grants(T)
  BY <1>2, <1>3, <1>4, <1>5
<1> QED
  BY <1>1, <1>6, <1>7, ReturnsFaithful

(* The records of the page, and those of the pages before it.              *)
LEMMA ListRecordsKeeps == ASSUME ConnectorsInv, ListRecords PROVE ConnectorsInv'
<1> DEFINE first == IF read.pc = "start" THEN 0 ELSE read.first
           page  == Page(source.list, first)
           ids   == ToSet(page) \cup IF read.pc = "start" THEN {} ELSE read.ids
           last  == [pc |-> "records", ids |-> ids, got |-> {}]
           next  == [pc |-> "page", first |-> NextPage(first), ids |-> ids]
           r     == IF Len(page) < PageSize THEN last ELSE next
<1>1. connector = "pipeshub" /\ read.pc \in {"start", "page"} /\ Reads(r)
  BY DEF ListRecords
<1>2. ReadShape /\ first \in Nat
  BY <1>1 DEF ConnectorsInv, ReadShape
<1>3. source.list \in Seq(STRING) /\ DOMAIN source.record \subseteq ToSet(source.list)
  BY <1>1, <1>2, SourceIs
<1>4. ToSet(page) \subseteq ids /\ (read.pc = "page" => read.ids \subseteq ids)
  OBVIOUS
<1>5. ~changed => \A i \in DOMAIN source.list : i <= first => source.list[i] \in ids
  <2> SUFFICES ASSUME ~changed, NEW i \in DOMAIN source.list, i <= first PROVE source.list[i] \in ids
    OBVIOUS
  <2>1. CASE read.pc = "start"
    <3>1. i \in Nat /\ i # 0 /\ first = 0
      BY <1>3, <2>1
    <3> QED
      BY <3>1
  <2>2. CASE read.pc = "page"
    BY <1>4, <2>2 DEF ConnectorsInv, PipesHubHolds
  <2> QED
    BY <1>1, <2>1, <2>2
<1>6. last.pc = "records" /\ last.ids = ids /\ last.got = {}
      /\ DOMAIN last = {"pc", "ids", "got"}
  OBVIOUS
<1>7. next.pc = "page" /\ next.first = NextPage(first) /\ next.ids = ids
  OBVIOUS
<1> HIDE DEF first, ids, last, next
<1>8. /\ \A i \in DOMAIN source.list :
           i <= NextPage(first) => i <= first \/ \E j \in DOMAIN page : page[j] = source.list[i]
      /\ Len(page) < PageSize => \A i \in DOMAIN source.list : i <= NextPage(first)
      /\ NextPage(first) \in Nat
  BY <1>2, <1>3, PageIsNext
<1> HIDE DEF page
<1>9. ~changed => \A i \in DOMAIN source.list : i <= NextPage(first) => source.list[i] \in ids
  BY <1>4, <1>5, <1>8 DEF ToSet
<1>10. CASE Len(page) < PageSize
  <2>1. Reads(last)
    BY <1>1, <1>10
  <2>2. /\ read' = last /\ EverHolds' /\ SnapshotFaithful'
        /\ connector' = connector /\ source' = source /\ ever' = ever
        /\ changed' = changed /\ moved' = moved
    BY <1>6, <2>1, ReadsOnly
  <2>3. read'.pc = "records" /\ read'.ids = ids /\ read'.got = {}
        /\ DOMAIN read' = {"pc", "ids", "got"}
    BY <1>6, <2>2
  <2>4. ReadShape'
    BY <1>1, <1>2, <2>2, <2>3 DEF ReadShape, ReadPcs
  <2>5. PipesHubHolds'
    <3>1. WasGiven({}, ever)
      BY DEF WasGiven
    <3>2. ~changed => \A id \in DOMAIN source.record : id \in ids
      BY <1>3, <1>8, <1>9, <1>10 DEF ToSet
    <3> QED
      BY <2>2, <2>3, <3>1, <3>2 DEF PipesHubHolds
  <2>6. NextcloudHolds' /\ FilesHolds' /\ KeycloakHolds'
    BY <2>3 DEF NextcloudHolds, FilesHolds, KeycloakHolds
  <2> QED
    BY <2>2, <2>4, <2>5, <2>6 DEF ConnectorsInv
<1>11. CASE ~(Len(page) < PageSize)
  <2>1. Reads(next)
    BY <1>1, <1>11
  <2>2. /\ read' = next /\ EverHolds' /\ SnapshotFaithful'
        /\ connector' = connector /\ source' = source /\ ever' = ever
        /\ changed' = changed /\ moved' = moved
    BY <1>7, <2>1, ReadsOnly
  <2>3. read'.pc = "page" /\ read'.first = NextPage(first) /\ read'.ids = ids
    BY <1>7, <2>2
  <2>4. ReadShape'
    BY <1>1, <1>2, <1>8, <2>2, <2>3 DEF ReadShape, ReadPcs
  <2>5. PipesHubHolds'
    BY <1>9, <2>2, <2>3 DEF PipesHubHolds
  <2>6. NextcloudHolds' /\ FilesHolds' /\ KeycloakHolds'
    BY <2>3 DEF NextcloudHolds, FilesHolds, KeycloakHolds
  <2> QED
    BY <2>2, <2>4, <2>5, <2>6 DEF ConnectorsInv
<1> QED
  BY <1>10, <1>11

(* A record gives what its source gives then; one that is gone, nothing.   *)
LEMMA ReadRecordKeeps ==
  ASSUME ConnectorsInv, read.pc = "records", NEW id \in read.ids, ReadRecord(id) PROVE ConnectorsInv'
<1> DEFINE given == IF id \in DOMAIN source.record THEN RecordTuples(id, source.record[id]) ELSE {}
           r == [read EXCEPT !.ids = @ \ {id}, !.got = @ \cup given]
<1>1. Reads(r)
  BY DEF ReadRecord
<1>2. ReadShape /\ connector = "pipeshub"
      /\ DOMAIN read = {"pc", "ids", "got"}
  BY DEF ConnectorsInv, ReadShape
<1>3. WasGiven(given, ever)
  <2>1. Granted("pipeshub", source) \subseteq ever
    BY <1>2 DEF ConnectorsInv, EverHolds
  <2>2. WasGiven({}, ever)
    BY DEF WasGiven
  <2> QED
    BY <2>1, <2>2, RecordWasGiven
<1>4. id \in DOMAIN source.record => given = RecordTuples(id, source.record[id])
  OBVIOUS
<1> HIDE DEF given
<1>5. r.pc = "records" /\ r.ids = read.ids \ {id} /\ r.got = read.got \cup given
      /\ DOMAIN r = {"pc", "ids", "got"}
  BY <1>2
<1> HIDE DEF r
<1>6. /\ read' = r /\ EverHolds' /\ SnapshotFaithful'
      /\ connector' = connector /\ source' = source /\ ever' = ever
      /\ changed' = changed /\ moved' = moved
  BY <1>1, <1>5, ReadsOnly
<1>7. read'.pc = "records" /\ read'.ids = read.ids \ {id} /\ read'.got = read.got \cup given
      /\ DOMAIN read' = {"pc", "ids", "got"}
  BY <1>5, <1>6
<1>8. ReadShape'
  BY <1>2, <1>6, <1>7 DEF ReadShape, ReadPcs
<1>9. PipesHubHolds'
  <2>1. WasGiven(read.got, ever)
    BY DEF ConnectorsInv, PipesHubHolds
  <2>2. WasGiven(read.got \cup given, ever)
    BY <1>3, <2>1 DEF WasGiven
  <2>3. ~changed => \A i \in DOMAIN source.record :
          i \in read.ids \/ RecordTuples(i, source.record[i]) \subseteq read.got
    BY DEF ConnectorsInv, PipesHubHolds
  <2>4. ~changed => \A i \in DOMAIN source.record :
          i \in read.ids \ {id} \/ RecordTuples(i, source.record[i]) \subseteq read.got \cup given
    BY <1>4, <2>3
  <2> QED
    BY <1>6, <1>7, <2>2, <2>4 DEF PipesHubHolds
<1>10. NextcloudHolds' /\ FilesHolds' /\ KeycloakHolds'
  BY <1>7 DEF NextcloudHolds, FilesHolds, KeycloakHolds
<1> QED
  BY <1>6, <1>8, <1>9, <1>10 DEF ConnectorsInv

LEMMA RecordsReadKeeps == ASSUME ConnectorsInv, RecordsRead PROVE ConnectorsInv'
<1> DEFINE all == UNION {RecordTuples(id, source.record[id]) : id \in DOMAIN source.record}
<1>1. Returns(read.got) /\ read.pc = "records" /\ read.ids = {}
  BY DEF RecordsRead
<1>2. connector = "pipeshub"
  BY <1>1 DEF ConnectorsInv, ReadShape
<1>3. Granted(connector, source) = Grants(all)
  BY <1>2 DEF Granted
<1>4. Grants(read.got) \subseteq ever
  <2>1. WasGiven(read.got, ever)
    BY <1>1 DEF ConnectorsInv, PipesHubHolds
  <2> QED
    BY <2>1, RecordsGrant
<1>5. ~changed => all \subseteq read.got
  <2>1. ~changed => \A id \in DOMAIN source.record : RecordTuples(id, source.record[id]) \subseteq read.got
    BY <1>1 DEF ConnectorsInv, PipesHubHolds
  <2> QED
    BY <2>1
<1> HIDE DEF all
<1>6. ~changed => Grants(all) \subseteq Grants(read.got)
  BY <1>5, GrantsGrow
<1> QED
  BY <1>1, <1>3, <1>4, <1>6, ReturnsFaithful

(* Nothing is listed of no groups, and what was listed in parts stays in   *)
(* place.                                                                  *)
LEMMA ListedOfNone == ASSUME NEW w, NEW S PROVE ListedGroups(w, {}) \subseteq S
<1>1. UNION {Flatten(w, g) : g \in {}} = {}
  OBVIOUS
<1> QED
  BY <1>1, Zenon DEF ListedGroups

LEMMA InPlaceTogether ==
  ASSUME NEW w, NEW G, NEW H, InPlace(w, G), InPlace(w, H) PROVE InPlace(w, G \cup H)
  BY DEF InPlace

(* A group that is in place is there, with a list of members.              *)
LEMMA InPlaceIsThere ==
  ASSUME ReadShape, connector = "keycloak", NEW g, InPlace(source, {g})
  PROVE  /\ g.id \in DOMAIN source.group
         /\ source.members[g.id] \in Seq([name : STRING, enabled : BOOLEAN])
<1>1. g.id \in DOMAIN source.group
  BY DEF InPlace
<1> QED
  BY <1>1, SourceIs

(* The groups of the page, and those of the pages before it; after the     *)
(* last page, those whose children are still to be asked for.              *)
LEMMA ListGroupsKeeps == ASSUME ConnectorsInv, ListGroups PROVE ConnectorsInv'
<1> DEFINE first == IF read.pc = "start" THEN 0 ELSE read.first
           flat  == IF read.pc = "start" THEN {} ELSE read.flat
           page  == Page(source.top, first)
           todo  == {g \in flat : g.lazy}
           more  == flat \cup ListedGroups(source, ToSet(page))
           last  == [pc |-> "children", flat |-> flat, todo |-> todo]
           next  == [pc |-> "groups", first |-> NextPage(first), flat |-> more]
           r     == IF page = << >> THEN last ELSE next
<1>1. connector = "keycloak" /\ read.pc \in {"start", "groups"} /\ Reads(r)
  BY DEF ListGroups
<1>2. ReadShape /\ first \in Nat
  BY <1>1 DEF ConnectorsInv, ReadShape
<1>3. source.top \in Seq(STRING)
  BY <1>1, <1>2, SourceIs
<1>4. ~moved => InPlace(source, flat)
  BY <1>1 DEF ConnectorsInv, KeycloakHolds, InPlace
<1>5. ~changed => GroupsSoFar(source, first, flat)
  <2>1. CASE read.pc = "start"
    <3>1. \A i \in DOMAIN source.top : i \in Nat /\ i # 0
      BY <1>3
    <3>2. first = 0
      BY <2>1
    <3> QED
      BY <3>1, <3>2 DEF GroupsSoFar
  <2>2. CASE read.pc = "groups"
    BY <2>2 DEF ConnectorsInv, KeycloakHolds
  <2> QED
    BY <1>1, <2>1, <2>2
<1>6. last.pc = "children" /\ last.flat = flat /\ last.todo = todo
      /\ DOMAIN last = {"pc", "flat", "todo"}
  OBVIOUS
<1>7. next.pc = "groups" /\ next.first = NextPage(first) /\ next.flat = more
  OBVIOUS
<1> HIDE DEF first, flat, last, next
<1>8. /\ \A i \in DOMAIN source.top :
           i <= NextPage(first) => i <= first \/ \E j \in DOMAIN page : page[j] = source.top[i]
      /\ page = << >> => \A i \in DOMAIN source.top : i <= first
      /\ NextPage(first) \in Nat
  BY <1>2, <1>3, PageIsNext
<1> HIDE DEF page
<1>9. CASE page = << >>
  <2>1. Reads(last)
    BY <1>1, <1>9
  <2>2. /\ read' = last /\ EverHolds' /\ SnapshotFaithful'
        /\ connector' = connector /\ source' = source /\ ever' = ever
        /\ changed' = changed /\ moved' = moved
    BY <1>6, <2>1, ReadsOnly
  <2>3. /\ read'.pc = "children" /\ read'.flat = flat /\ read'.todo = todo
        /\ DOMAIN read' = {"pc", "flat", "todo"}
    BY <1>6, <2>2
  <2>4. ReadShape'
    BY <1>1, <1>2, <2>2, <2>3 DEF ReadShape, ReadPcs
  <2>5. ~changed => ChildrenSoFar(source, flat, todo)
    <3> SUFFICES ASSUME ~changed PROVE ChildrenSoFar(source, flat, todo)
      OBVIOUS
    <3>1. ASSUME NEW e \in TopGroups(source) PROVE e \in flat
      <4>1. PICK t \in ToSet(source.top) : e \in ListedGroups(source, {t})
        BY ListedByParts DEF TopGroups
      <4>2. PICK i \in DOMAIN source.top : t = source.top[i]
        BY DEF ToSet
      <4> QED
        BY <1>5, <1>8, <1>9, <4>1, <4>2 DEF GroupsSoFar
    <3>2. ASSUME NEW e \in TopGroups(source), source.group[e.id].inline = {}, e \notin todo
          PROVE  ListedGroups(source, source.group[e.id].lazy) \subseteq flat
      <4>1. e.lazy <=> source.group[e.id].lazy # {}
        BY <3>2, EntryIs DEF TopGroups
      <4>2. source.group[e.id].lazy = {}
        BY <3>1, <3>2, <4>1
      <4> QED
        BY <4>2, ListedOfNone
    <3> QED
      BY <3>1, <3>2 DEF ChildrenSoFar
  <2>6. KeycloakHolds'
    BY <1>4, <2>2, <2>3, <2>5 DEF KeycloakHolds
  <2>7. NextcloudHolds' /\ FilesHolds' /\ PipesHubHolds'
    BY <2>3 DEF NextcloudHolds, FilesHolds, PipesHubHolds
  <2> QED
    BY <2>2, <2>4, <2>6, <2>7 DEF ConnectorsInv
<1>10. CASE page # << >>
  <2>1. Reads(next)
    BY <1>1, <1>10
  <2>2. /\ read' = next /\ EverHolds' /\ SnapshotFaithful'
        /\ connector' = connector /\ source' = source /\ ever' = ever
        /\ changed' = changed /\ moved' = moved
    BY <1>7, <2>1, ReadsOnly
  <2>3. read'.pc = "groups" /\ read'.first = NextPage(first) /\ read'.flat = more
    BY <1>7, <2>2
  <2>4. ReadShape'
    BY <1>1, <1>2, <1>8, <2>2, <2>3 DEF ReadShape, ReadPcs
  <2>5. ~moved => InPlace(source, more)
    BY <1>4, ListedInPlace, InPlaceTogether
  <2>6. ~changed => GroupsSoFar(source, NextPage(first), more)
    <3> SUFFICES ASSUME ~changed, NEW i \in DOMAIN source.top, i <= NextPage(first),
                        NEW e \in ListedGroups(source, {source.top[i]})
                 PROVE  e \in more
      BY DEF GroupsSoFar
    <3>1. CASE i <= first
      BY <1>5, <3>1 DEF GroupsSoFar
    <3>2. CASE \E j \in DOMAIN page : page[j] = source.top[i]
      <4>1. source.top[i] \in ToSet(page)
        BY <3>2 DEF ToSet
      <4> QED
        BY <4>1, ListedByParts
    <3> QED
      BY <1>8, <3>1, <3>2
  <2> HIDE DEF more
  <2>7. KeycloakHolds'
    BY <2>2, <2>3, <2>5, <2>6 DEF KeycloakHolds
  <2>8. NextcloudHolds' /\ FilesHolds' /\ PipesHubHolds'
    BY <2>3 DEF NextcloudHolds, FilesHolds, PipesHubHolds
  <2> QED
    BY <2>2, <2>4, <2>7, <2>8 DEF ConnectorsInv
<1> QED
  BY <1>9, <1>10

(* The children that a group did not come with; when all are asked for,    *)
(* the members of every group are to be read.                              *)
LEMMA ListChildrenKeeps == ASSUME ConnectorsInv, ListChildren PROVE ConnectorsInv'
<1>1. read.pc = "children"
  BY DEF ListChildren
<1>2. ReadShape /\ connector = "keycloak" /\ DOMAIN read = {"pc", "flat", "todo"}
      /\ (~changed => ~moved)
  BY <1>1 DEF ConnectorsInv, ReadShape
<1>3. /\ ~moved => InPlace(source, read.flat)
      /\ ~changed => ChildrenSoFar(source, read.flat, read.todo)
  BY <1>1 DEF ConnectorsInv, KeycloakHolds
<1>4. CASE read.todo = {}
  <2> DEFINE r == [pc |-> "members", todo |-> read.flat, first |-> 0, got |-> {}]
  <2>1. Reads(r)
    BY <1>4 DEF ListChildren
  <2>2. /\ r.pc = "members" /\ r.todo = read.flat /\ r.first = 0 /\ r.got = {}
        /\ DOMAIN r = {"pc", "todo", "first", "got"}
    OBVIOUS
  <2> HIDE DEF r
  <2>3. /\ read' = r /\ EverHolds' /\ SnapshotFaithful'
        /\ connector' = connector /\ source' = source /\ ever' = ever
        /\ changed' = changed /\ moved' = moved
    BY <2>1, <2>2, ReadsOnly
  <2>4. /\ read'.pc = "members" /\ read'.todo = read.flat /\ read'.first = 0 /\ read'.got = {}
        /\ DOMAIN read' = {"pc", "todo", "first", "got"}
    BY <2>2, <2>3
  <2>5. ReadShape'
    BY <1>2, <2>3, <2>4 DEF ReadShape, ReadPcs
  <2>6. ~changed => MembersSoFar(source, read.flat, 0, {})
    <3> SUFFICES ASSUME ~changed PROVE MembersSoFar(source, read.flat, 0, {})
      OBVIOUS
    <3>1. TopGroups(source) \subseteq read.flat
      BY <1>3 DEF ChildrenSoFar
    <3>2. ChildGroups(source) \subseteq read.flat
      BY <1>3, <1>4 DEF ChildrenSoFar, ChildGroups
    <3>3. ASSUME NEW g \in read.flat, NEW i \in DOMAIN source.members[g.id], i <= 0 PROVE FALSE
      <4>1. InPlace(source, {g})
        BY <1>2, <1>3 DEF InPlace
      <4>2. source.members[g.id] \in Seq([name : STRING, enabled : BOOLEAN])
        BY <1>2, <4>1, InPlaceIsThere
      <4>3. i \in Nat /\ i # 0
        BY <4>2
      <4> QED
        BY <3>3, <4>3
    <3> QED
      BY <3>1, <3>2, <3>3 DEF MembersSoFar
  <2>7. WereMembers({}, ever)
    BY DEF WereMembers
  <2>8. KeycloakHolds'
    BY <1>3, <2>3, <2>4, <2>6, <2>7 DEF KeycloakHolds
  <2>9. NextcloudHolds' /\ FilesHolds' /\ PipesHubHolds'
    BY <2>4 DEF NextcloudHolds, FilesHolds, PipesHubHolds
  <2> QED
    BY <2>3, <2>5, <2>8, <2>9 DEF ConnectorsInv
<1>5. CASE read.todo # {}
  <2> DEFINE R(g) == [read EXCEPT !.todo = @ \ {g},
                        !.flat = @ \cup ListedGroups(source, source.group[g.id].lazy)]
  <2>1. PICK g \in read.todo : Reads(R(g))
    BY <1>5 DEF ListChildren
  <2> DEFINE children == ListedGroups(source, source.group[g.id].lazy)
             r == R(g)
  <2>2. /\ r.pc = "children" /\ r.todo = read.todo \ {g} /\ r.flat = read.flat \cup children
        /\ DOMAIN r = {"pc", "flat", "todo"}
    BY <1>1, <1>2
  <2> HIDE DEF R
  <2>3. /\ read' = r /\ EverHolds' /\ SnapshotFaithful'
        /\ connector' = connector /\ source' = source /\ ever' = ever
        /\ changed' = changed /\ moved' = moved
    BY <2>1, <2>2, ReadsOnly
  <2> HIDE DEF r
  <2>4. /\ read'.pc = "children" /\ read'.todo = read.todo \ {g} /\ read'.flat = read.flat \cup children
        /\ DOMAIN read' = {"pc", "flat", "todo"}
    BY <2>2, <2>3
  <2>5. ReadShape'
    BY <1>2, <2>3, <2>4 DEF ReadShape, ReadPcs
  <2>6. ~moved => InPlace(source, read.flat \cup children)
    BY <1>3, ListedInPlace, InPlaceTogether
  <2>7. ~changed => ChildrenSoFar(source, read.flat \cup children, read.todo \ {g})
    BY <1>3 DEF ChildrenSoFar
  <2> HIDE DEF children
  <2>8. KeycloakHolds'
    BY <2>3, <2>4, <2>6, <2>7 DEF KeycloakHolds
  <2>9. NextcloudHolds' /\ FilesHolds' /\ PipesHubHolds'
    BY <2>4 DEF NextcloudHolds, FilesHolds, PipesHubHolds
  <2> QED
    BY <2>3, <2>5, <2>8, <2>9 DEF ConnectorsInv
<1> QED
  BY <1>4, <1>5

(* What is recorded stays recorded.                                        *)
LEMMA RecordedStays ==
  ASSUME NEW w, NEW g, NEW got, AllRecorded(w, g, got), NEW more, got \subseteq more
  PROVE  AllRecorded(w, g, more)
  BY DEF AllRecorded, Recorded

(* The next page of the members of the group that is read.                 *)
LEMMA ReadMembersKeeps == ASSUME ConnectorsInv, ReadMembers PROVE ConnectorsInv'
<1> DEFINE g    == CHOOSE g \in read.todo : TRUE
           page == Page(source.members[g.id], read.first)
           more == read.got \cup MemberTuples(page, g.path)
           last == [read EXCEPT !.todo = @ \ {g}, !.first = 0]
           next == [read EXCEPT !.first = NextPage(@), !.got = @ \cup MemberTuples(page, g.path)]
           r    == IF page = << >> THEN last ELSE next
<1>1. read.pc = "members" /\ read.todo # {} /\ g.id \in DOMAIN source.members /\ Reads(r)
  BY DEF ReadMembers
<1>2. /\ ReadShape /\ connector = "keycloak" /\ DOMAIN read = {"pc", "todo", "first", "got"}
      /\ read.first \in Nat /\ (~changed => ~moved)
  BY <1>1 DEF ConnectorsInv, ReadShape
<1>3. g \in read.todo
  BY <1>1
<1>4. /\ ~moved => InPlace(source, read.todo) /\ WereMembers(read.got, ever)
      /\ ~changed => MembersSoFar(source, read.todo, read.first, read.got)
  BY <1>1 DEF ConnectorsInv, KeycloakHolds
<1>5. ~changed =>
        /\ \A e \in TopGroups(source) \cup ChildGroups(source) :
             e \in read.todo \/ AllRecorded(source, e, read.got)
        /\ \A i \in DOMAIN source.members[g.id] :
             i <= read.first => Recorded(source.members[g.id][i], g.path, read.got)
  BY <1>1, <1>4 DEF MembersSoFar
<1>6. /\ last.pc = "members" /\ last.todo = read.todo \ {g} /\ last.first = 0 /\ last.got = read.got
      /\ DOMAIN last = {"pc", "todo", "first", "got"}
  BY <1>1, <1>2
<1>7. /\ next.pc = "members" /\ next.todo = read.todo /\ next.first = NextPage(read.first)
      /\ next.got = more /\ DOMAIN next = {"pc", "todo", "first", "got"}
  BY <1>1, <1>2
<1>8. source.members[g.id] \in Seq([name : STRING, enabled : BOOLEAN])
  BY <1>1, <1>2, SourceIs
<1> HIDE DEF last, next
<1>9. /\ \A j \in DOMAIN page : \E i \in DOMAIN source.members[g.id] : page[j] = source.members[g.id][i]
      /\ \A i \in DOMAIN source.members[g.id] : i <= NextPage(read.first) =>
           i <= read.first \/ \E j \in DOMAIN page : page[j] = source.members[g.id][i]
      /\ page = << >> => \A i \in DOMAIN source.members[g.id] : i <= read.first
      /\ NextPage(read.first) \in Nat
  <2> DEFINE list == source.members[g.id]
             Members == [name : STRING, enabled : BOOLEAN]
  <2> HIDE DEF g
  <2>1. list \in Seq(Members) /\ read.first \in Nat
    BY <1>2, <1>8
  <2> HIDE DEF list, Members
  <2>2. LET p == Page(list, read.first) IN
        /\ \A j \in DOMAIN p : \E i \in DOMAIN list : p[j] = list[i]
        /\ \A i \in DOMAIN list : i <= NextPage(read.first) =>
             i <= read.first \/ \E j \in DOMAIN p : p[j] = list[i]
        /\ p = << >> => \A i \in DOMAIN list : i <= read.first
        /\ NextPage(read.first) \in Nat
    BY <2>1, PageIsNext
  <2> QED
    BY <2>2 DEF list
<1> HIDE DEF page
<1>10. CASE page = << >>
  <2>1. Reads(last)
    BY <1>1, <1>10
  <2>2. /\ read' = last /\ EverHolds' /\ SnapshotFaithful'
        /\ connector' = connector /\ source' = source /\ ever' = ever
        /\ changed' = changed /\ moved' = moved
    BY <1>6, <2>1, ReadsOnly
  <2> HIDE DEF g
  <2>3. /\ read'.pc = "members" /\ read'.todo = read.todo \ {g} /\ read'.first = 0
        /\ read'.got = read.got /\ DOMAIN read' = {"pc", "todo", "first", "got"}
    BY <1>6, <2>2
  <2>4. ReadShape'
    BY <1>2, <2>2, <2>3 DEF ReadShape, ReadPcs
  <2>5. ~moved => InPlace(source, read.todo \ {g}) /\ WereMembers(read.got, ever)
    BY <1>4 DEF InPlace
  <2>6. ~changed => MembersSoFar(source, read.todo \ {g}, 0, read.got)
    <3> SUFFICES ASSUME ~changed PROVE MembersSoFar(source, read.todo \ {g}, 0, read.got)
      OBVIOUS
    <3>1. AllRecorded(source, g, read.got)
      BY <1>5, <1>9, <1>10 DEF AllRecorded
    <3>2. \A e \in TopGroups(source) \cup ChildGroups(source) :
            e \in read.todo \ {g} \/ AllRecorded(source, e, read.got)
      BY <1>5, <3>1
    <3>3. ASSUME NEW h \in read.todo \ {g}, NEW i \in DOMAIN source.members[h.id], i <= 0 PROVE FALSE
      <4>1. InPlace(source, {h})
        BY <1>2, <1>4 DEF InPlace
      <4>2. source.members[h.id] \in Seq([name : STRING, enabled : BOOLEAN])
        BY <1>2, <4>1, InPlaceIsThere
      <4>3. i \in Nat /\ i # 0
        BY <4>2
      <4> QED
        BY <3>3, <4>3
    <3> QED
      BY <3>2, <3>3 DEF MembersSoFar
  <2>7. KeycloakHolds'
    BY <2>2, <2>3, <2>5, <2>6 DEF KeycloakHolds
  <2>8. NextcloudHolds' /\ FilesHolds' /\ PipesHubHolds'
    BY <2>3 DEF NextcloudHolds, FilesHolds, PipesHubHolds
  <2> QED
    BY <2>2, <2>4, <2>7, <2>8 DEF ConnectorsInv
<1>11. CASE page # << >>
  <2>1. Reads(next)
    BY <1>1, <1>11
  <2>2. /\ read' = next /\ EverHolds' /\ SnapshotFaithful'
        /\ connector' = connector /\ source' = source /\ ever' = ever
        /\ changed' = changed /\ moved' = moved
    BY <1>7, <2>1, ReadsOnly
  <2>3. /\ read'.pc = "members" /\ read'.todo = read.todo /\ read'.first = NextPage(read.first)
        /\ read'.got = more /\ DOMAIN read' = {"pc", "todo", "first", "got"}
    BY <1>7, <2>2
  <2>4. ReadShape'
    BY <1>2, <1>9, <2>2, <2>3 DEF ReadShape, ReadPcs
  <2>5. ~moved => InPlace(source, read.todo) /\ WereMembers(more, ever)
    <3> SUFFICES ASSUME ~moved PROVE InPlace(source, read.todo) /\ WereMembers(more, ever)
      OBVIOUS
    <3>1. InPlace(source, read.todo) /\ WereMembers(read.got, ever)
      BY <1>4
    <3>2. g.id \in DOMAIN source.group /\ g.path = source.group[g.id].path
      BY <1>3, <3>1 DEF InPlace
    <3>3. Granted("keycloak", source) \subseteq ever
      BY <1>2 DEF ConnectorsInv, EverHolds
    <3> HIDE DEF g
    <3>4. PartOf(page, source.members[g.id])
      BY <1>9 DEF PartOf
    <3>5. WereMembers(MemberTuples(page, g.path), ever)
      BY <3>2, <3>3, <3>4, PageWasGiven
    <3> QED
      BY <3>1, <3>5 DEF WereMembers
  <2>6. ~changed => MembersSoFar(source, read.todo, NextPage(read.first), more)
    <3> SUFFICES ASSUME ~changed
                 PROVE  MembersSoFar(source, read.todo, NextPage(read.first), more)
      OBVIOUS
    <3>1. read.got \subseteq more /\ MemberTuples(page, g.path) \subseteq more
      OBVIOUS
    <3>2. \A j \in DOMAIN page : Recorded(page[j], g.path, more)
      BY <3>1, MemberTuplesAre
    <3> HIDE DEF more
    <3>3. \A e \in TopGroups(source) \cup ChildGroups(source) :
            e \in read.todo \/ AllRecorded(source, e, more)
      BY <1>5, <3>1, RecordedStays
    <3>4. ASSUME NEW i \in DOMAIN source.members[g.id], i <= NextPage(read.first)
          PROVE  Recorded(source.members[g.id][i], g.path, more)
      <4>1. CASE i <= read.first
        <5>1. Recorded(source.members[g.id][i], g.path, read.got)
          BY <1>5, <4>1
        <5> QED
          BY <3>1, <5>1 DEF Recorded
      <4>2. CASE \E j \in DOMAIN page : page[j] = source.members[g.id][i]
        BY <3>2, <4>2
      <4> QED
        BY <1>9, <3>4, <4>1, <4>2
    <3> QED
      BY <3>3, <3>4 DEF MembersSoFar
  <2> HIDE DEF more
  <2>7. KeycloakHolds'
    BY <2>2, <2>3, <2>5, <2>6 DEF KeycloakHolds
  <2>8. NextcloudHolds' /\ FilesHolds' /\ PipesHubHolds'
    BY <2>3 DEF NextcloudHolds, FilesHolds, PipesHubHolds
  <2> QED
    BY <2>2, <2>4, <2>7, <2>8 DEF ConnectorsInv
<1> QED
  BY <1>10, <1>11

(* When every list of members is read, only what is below a child is       *)
(* missing from a source that stayed as it was.                            *)
LEMMA MembersReadKeeps == ASSUME ConnectorsInv, MembersRead PROVE ConnectorsInv'
<1>1. Returns(read.got) /\ read.pc = "members" /\ read.todo = {}
  BY DEF MembersRead
<1>2. connector = "keycloak" /\ ReadShape /\ (~changed => ~moved)
  BY <1>1 DEF ConnectorsInv, ReadShape
<1>3. /\ Granted(connector, source) = Memberships(source, DOMAIN source.group)
      /\ LeftOut(connector, source) = Memberships(source, BelowChildren(source))
  BY <1>2 DEF Granted, LeftOut
<1>4. ~moved => WereMembers(read.got, ever)
  BY <1>1 DEF ConnectorsInv, KeycloakHolds
<1>5. ~moved => Grants(read.got) = read.got /\ read.got \subseteq ever
  BY <1>4, MembersGrant DEF WereMembers
<1>6. ~changed => \A e \in TopGroups(source) \cup ChildGroups(source) : AllRecorded(source, e, read.got)
  BY <1>1 DEF ConnectorsInv, KeycloakHolds, MembersSoFar
<1>7. ~changed => Granted(connector, source) \ LeftOut(connector, source) \subseteq read.got
  BY <1>3, <1>6, MembersComplete
<1> QED
  BY <1>1, <1>2, <1>5, <1>7, ReturnsFaithful

LEMMA ReadFailsKeeps == ASSUME ConnectorsInv, ReadFails PROVE ConnectorsInv'
<1> DEFINE r == [pc |-> "raised"]
<1>1. Reads(r) /\ r.pc = "raised"
  BY DEF ReadFails
<1> HIDE DEF r
<1>2. /\ read' = r /\ EverHolds' /\ SnapshotFaithful'
      /\ connector' = connector /\ source' = source /\ ever' = ever
      /\ changed' = changed /\ moved' = moved
  BY <1>1, ReadsOnly
<1>3. read'.pc = "raised"
  BY <1>1, <1>2
<1>4. ReadShape'
  BY <1>2, <1>3 DEF ConnectorsInv, ReadShape, ReadPcs
<1>5. NextcloudHolds' /\ FilesHolds' /\ PipesHubHolds' /\ KeycloakHolds'
  BY <1>3 DEF NextcloudHolds, FilesHolds, PipesHubHolds, KeycloakHolds
<1> QED
  BY <1>2, <1>4, <1>5 DEF ConnectorsInv

(* What was given stays given when the source changes; what is in place    *)
(* stays so when its layout is the same.                                   *)
LEMMA SourceChangesKeeps == ASSUME ConnectorsInv, SourceChanges PROVE ConnectorsInv'
<1>1. PICK w \in Worlds[connector] :
        /\ source' = w
        /\ ever' = ever \cup Granted(connector, w)
        /\ moved' = (moved \/ Layout(connector, w) # Layout(connector, source))
  BY DEF SourceChanges
<1>2. /\ read.pc \notin {"start", "returned", "raised"} /\ changed' = TRUE
      /\ connector' = connector /\ read' = read
  BY DEF SourceChanges
<1>3. ever \subseteq ever' /\ Granted(connector, w) \subseteq ever'
  BY <1>1
<1>4. moved' \in BOOLEAN /\ (~moved' => ~moved /\ Layout(connector, w) = Layout(connector, source))
  BY <1>1 DEF ConnectorsInv, ReadShape
<1>5. ReadShape'
  <2>1. source' \in Worlds[connector']
    BY <1>1, <1>2
  <2> QED
    BY <1>2, <1>4, <2>1 DEF ConnectorsInv, ReadShape
<1>6. EverHolds'
  BY <1>1, <1>2, <1>3 DEF EverHolds
<1>7. NextcloudHolds'
  <2> SUFFICES ASSUME read.pc = "shares", ~moved' PROVE read.entries = w.entries
    BY <1>1, <1>2 DEF NextcloudHolds
  <2>1. connector = "nextcloud"
    BY DEF ConnectorsInv, ReadShape
  <2>2. Layout("nextcloud", w) = w.entries /\ Layout("nextcloud", source) = source.entries
    BY DEF Layout
  <2> QED
    BY <1>4, <2>1, <2>2 DEF ConnectorsInv, NextcloudHolds
<1>8. FilesHolds'
  <2> SUFFICES ASSUME read.pc = "tree", ~moved'
               PROVE  \E v \in Worlds["files"] :
                        v.manifest = read.manifest /\ v.tree = w.tree /\ ManifestGrants(v) \subseteq ever'
    BY <1>1, <1>2 DEF FilesHolds
  <2>1. connector = "files"
    BY DEF ConnectorsInv, ReadShape
  <2>2. Layout("files", w) = w.tree /\ Layout("files", source) = source.tree
    BY DEF Layout
  <2> QED
    BY <1>3, <1>4, <2>1, <2>2 DEF ConnectorsInv, FilesHolds
<1>9. PipesHubHolds'
  <2>1. read.pc = "records" => WasGiven(read.got, ever')
    BY <1>3 DEF ConnectorsInv, PipesHubHolds, WasGiven
  <2> QED
    BY <1>2, <2>1 DEF PipesHubHolds
<1>10. KeycloakHolds'
  <2>1. ASSUME connector = "keycloak", ~moved', NEW G, InPlace(source, G) PROVE InPlace(w, G)
    <3>1. /\ Layout("keycloak", w) = {<<h, w.group[h].path>> : h \in DOMAIN w.group}
          /\ Layout("keycloak", source) = {<<h, source.group[h].path>> : h \in DOMAIN source.group}
      BY DEF Layout
    <3>2. {<<h, w.group[h].path>> : h \in DOMAIN w.group} =
            {<<h, source.group[h].path>> : h \in DOMAIN source.group}
      BY <1>4, <2>1, <3>1
    <3> QED
      BY <2>1, <3>2, Zenon DEF InPlace
  <2>2. read.pc \in {"groups", "children", "members"} => connector = "keycloak"
    BY DEF ConnectorsInv, ReadShape
  <2>3. read.pc \in {"groups", "children"} /\ ~moved' => InPlace(w, read.flat)
    BY <1>4, <2>1, <2>2 DEF ConnectorsInv, KeycloakHolds
  <2>4. read.pc = "members" /\ ~moved' => InPlace(w, read.todo)
    BY <1>4, <2>1, <2>2 DEF ConnectorsInv, KeycloakHolds
  <2>5. read.pc = "members" /\ ~moved' => WereMembers(read.got, ever')
    BY <1>3, <1>4 DEF ConnectorsInv, KeycloakHolds, WereMembers
  <2> QED
    BY <1>1, <1>2, <2>3, <2>4, <2>5 DEF KeycloakHolds
<1>11. SnapshotFaithful'
  BY <1>2 DEF SnapshotFaithful
<1> QED
  BY <1>5, <1>6, <1>7, <1>8, <1>9, <1>10, <1>11 DEF ConnectorsInv

LEMMA ReadsStart == ConnectorsInit => ConnectorsInv
<1> SUFFICES ASSUME ConnectorsInit PROVE ConnectorsInv
  OBVIOUS
<1>1. read.pc = "start"
  BY DEF ConnectorsInit
<1>2. ReadShape
  BY <1>1 DEF ConnectorsInit, ReadShape, ReadPcs
<1>3. EverHolds
  BY DEF ConnectorsInit, EverHolds
<1>4. NextcloudHolds /\ FilesHolds /\ PipesHubHolds /\ KeycloakHolds /\ SnapshotFaithful
  BY <1>1 DEF NextcloudHolds, FilesHolds, PipesHubHolds, KeycloakHolds, SnapshotFaithful
<1> QED
  BY <1>2, <1>3, <1>4 DEF ConnectorsInv

LEMMA ReadsKeep == ConnectorsInv /\ [ConnectorsNext]_connectorVars => ConnectorsInv'
<1> SUFFICES ASSUME ConnectorsInv, [ConnectorsNext]_connectorVars PROVE ConnectorsInv'
  OBVIOUS
<1>1. CASE ListFiles
  BY <1>1, ListFilesKeeps
<1>2. CASE ListShares
  BY <1>2, ListSharesKeeps
<1>3. CASE LoadManifest
  BY <1>3, LoadManifestKeeps
<1>4. CASE WalkTree
  BY <1>4, WalkTreeKeeps
<1>5. CASE ListRecords
  BY <1>5, ListRecordsKeeps
<1>6. CASE RecordsRead
  BY <1>6, RecordsReadKeeps
<1>7. ASSUME read.pc = "records", NEW id \in read.ids, ReadRecord(id) PROVE ConnectorsInv'
  BY <1>7, ReadRecordKeeps
<1>8. CASE ListGroups
  BY <1>8, ListGroupsKeeps
<1>9. CASE ListChildren
  BY <1>9, ListChildrenKeeps
<1>10. CASE ReadMembers
  BY <1>10, ReadMembersKeeps
<1>11. CASE MembersRead
  BY <1>11, MembersReadKeeps
<1>12. CASE ReadFails
  BY <1>12, ReadFailsKeeps
<1>13. CASE SourceChanges
  BY <1>13, SourceChangesKeeps
<1>14. CASE UNCHANGED connectorVars
  <2>1. UNCHANGED <<connector, source, read, tuples, ever, changed, moved>>
    BY <1>14 DEF connectorVars
  <2> QED
    BY <2>1 DEF ConnectorsInv, ReadShape, EverHolds, NextcloudHolds, FilesHolds, PipesHubHolds,
                KeycloakHolds, SnapshotFaithful
<1> QED
  BY <1>1, <1>2, <1>3, <1>4, <1>5, <1>6, <1>7, <1>8, <1>9, <1>10, <1>11, <1>12, <1>13, <1>14
     DEF ConnectorsNext

(* Every read of a connector keeps the invariant: what it has read is what *)
(* the source gave, and, while the source stays as it was, all of it up to *)
(* the position of the next page (files.py, nextcloud.py, pipeshub.py,     *)
(* groups.py).                                                             *)
THEOREM ConnectorsInvariant == ConnectorsSpec => []ConnectorsInv
  BY ReadsStart, ReadsKeep, PTL DEF ConnectorsSpec

(* A snapshot gives no more than its source gave at some instant of the    *)
(* read while what it is about stayed in place, and a source that stayed   *)
(* as it was is read in full but for what is knowingly left out            *)
(* (nextcloud.py:110, groups.py:105).                                      *)
THEOREM SnapshotsAreFaithful == ConnectorsSpec => []SnapshotFaithful
<1>1. ConnectorsInv => SnapshotFaithful
  BY DEF ConnectorsInv
<1> QED
  BY <1>1, ConnectorsInvariant, PTL
=============================================================================
