---------------------------- MODULE MemoryProofs ----------------------------
(***************************************************************************)
(* Proofs about the provenance memory, for any numbers of memories, calls, *)
(* users and documents, and any changes of rights.                         *)
(***************************************************************************)
EXTENDS Memory, TLAPS

-----------------------------------------------------------------------------
(* What every step keeps                                                   *)

(* decide_all says ALLOW only if the subject may view every source.        *)
LEMMA AllowSeesAll ==
  ASSUME NEW sources, NEW viewable, CanAllow(sources, viewable)
  PROVE  sources \subseteq viewable
BY DEF CanAllow, EvaluateAll

(* The owner and the sources of a memory stay, and no store gains anything *)
(* of one that is settled.                                                 *)
Keeps ==
  /\ \A m \in Memories :
       /\ Begun(m) => /\ remember'[m].pc # "idle" /\ remember'[m].for = remember[m].for
                      /\ remember'[m].sources = remember[m].sources
       /\ Settled(m) => /\ remember'[m].pc \notin {"idle", "tuples", "store", "put"}
                        /\ tuples'[m] \subseteq tuples[m]
                        /\ m \in content' => m \in content
                        /\ m \in ledger' => m \in ledger

(* A recall that does not move keeps what it knows.                        *)
LEMMA RecallKept ==
  ASSUME IInv, Keeps, NEW c \in Recalls, recall'[c] = recall[c]
  PROVE  RecallKnows(c)'
<1>1. RecallKnows(c) /\ recall[c].refs \subseteq Memories
  BY DEF IInv, TypeOK, RecallCall
<1>2. \A m \in recall[c].refs : /\ remember'[m].pc # "idle" /\ remember'[m].for = remember[m].for
                                /\ remember'[m].sources = remember[m].sources
  BY <1>1 DEF RecallKnows, Keeps
<1>3. /\ (\A m \in recall[c].refs : Begun(m)')
      /\ WrittenFor(c) => WrittenFor(c)'
  BY <1>2 DEF Begun, WrittenFor
<1>. QED
  BY <1>1, <1>2, <1>3 DEF RecallKnows, Begun

(* A forget that does not move keeps what it knows.                        *)
LEMMA ForgetKept ==
  ASSUME IInv, Keeps, NEW f \in Forgets, forget'[f] = forget[f]
  PROVE  ForgetKnows(f)'
<1>1. ForgetKnows(f) /\ forget[f].memory \in Memories
  BY DEF IInv, TypeOK, ForgetCall
<1> DEFINE m == forget[f].memory
<1>2. Settled(m) => /\ remember'[m].pc \notin {"idle", "tuples", "store", "put"}
                    /\ tuples'[m] \subseteq tuples[m]
                    /\ m \in content' => m \in content
                    /\ m \in ledger' => m \in ledger
  BY <1>1 DEF Keeps
<1>. QED
  BY <1>1, <1>2 DEF ForgetKnows, Settled

(* A memory whose call does not move keeps what is known of it, as long as *)
(* nothing is taken from it that nobody set out to forget.                 *)
LEMMA RememberKept ==
  ASSUME IInv, NEW m \in Memories, remember'[m] = remember[m],
         tuples'[m] \subseteq tuples[m],
         m \in content' => m \in content, m \in ledger' => m \in ledger,
         ~Touched(m)' =>
           ~Touched(m) /\ tuples'[m] = tuples[m] /\ (m \in content => m \in content')
             /\ (m \in ledger => m \in ledger')
  PROVE  RememberKnows(m)'
<1>1. RememberKnows(m)
  BY DEF IInv
<1>2. Provenance(m)' = Provenance(m) /\ (Begun(m)' <=> Begun(m)) /\ (Settled(m)' <=> Settled(m))
  BY DEF Provenance, Begun, Settled
<1>. QED
  BY <1>1, <1>2 DEF RememberKnows

-----------------------------------------------------------------------------
(* remember                                                                *)

(* A remember call moves: the other memories stay as they are, and what is *)
(* known of its own is left to show.                                       *)
LEMMA RememberMoves ==
  ASSUME IInv, Keeps, NEW m \in Memories, remember' \in [Memories -> RememberCall],
         tuples' \in [Memories -> SUBSET (Docs \cup {Writer})],
         content' \subseteq Memories, ledger' \subseteq Memories,
         \A x \in Memories : x # m =>
           /\ remember'[x] = remember[x] /\ tuples'[x] = tuples[x]
           /\ (x \in content' <=> x \in content) /\ (x \in ledger' <=> x \in ledger),
         UNCHANGED <<rights, changes, recall, forget>>,
         RememberKnows(m)'
  PROVE  IInv'
<1>1. TypeOK'
  BY DEF IInv, TypeOK
<1>2. ASSUME NEW x \in Memories, x # m
      PROVE  RememberKnows(x)'
  <2>1. Touched(x)' <=> Touched(x)
    BY DEF Touched
  <2>. QED
    BY <1>2, <2>1, RememberKept
<1>3. \A c \in Recalls : RecallKnows(c)'
  BY RecallKept
<1>4. \A f \in Forgets : ForgetKnows(f)'
  BY ForgetKept
<1>. QED
  BY <1>1, <1>2, <1>3, <1>4 DEF IInv

(* A call that goes on keeps its locals.                                   *)
LEMMA GoRememberAt ==
  ASSUME TypeOK, NEW m \in Memories,
         NEW pc \in {"tuples", "store", "put", "undoContent", "undoTuples", "undoLedger",
                     "written", "ended"},
         GoRemember(m, pc)
  PROVE  /\ remember' \in [Memories -> RememberCall]
         /\ \A x \in Memories : x # m => remember'[x] = remember[x]
         /\ remember'[m].pc = pc /\ remember'[m].for = remember[m].for
         /\ remember'[m].sources = remember[m].sources
BY DEF TypeOK, GoRemember, RememberCall

(* A remember call that goes on and adds nothing once it is settled keeps  *)
(* what every step keeps.                                                  *)
LEMMA RememberStepKeeps ==
  ASSUME IInv, NEW m \in Memories,
         NEW pc \in {"tuples", "store", "put", "undoContent", "undoTuples", "undoLedger",
                     "written", "ended"},
         GoRemember(m, pc),
         tuples' \in [Memories -> SUBSET (Docs \cup {Writer})],
         content' \subseteq Memories, ledger' \subseteq Memories,
         \A x \in Memories : x # m =>
           /\ tuples'[x] = tuples[x]
           /\ (x \in content' <=> x \in content) /\ (x \in ledger' <=> x \in ledger),
         UNCHANGED <<rights, changes, recall, forget>>,
         Settled(m) => /\ pc \notin {"tuples", "store", "put"}
                       /\ tuples'[m] \subseteq tuples[m]
                       /\ m \in content' => m \in content
                       /\ m \in ledger' => m \in ledger,
         tuples'[m] \subseteq Provenance(m),
         m \in content' => Begun(m),
         m \in ledger' => pc \notin {"tuples", "store", "put"},
         ~Touched(m) =>
           /\ pc \in {"store", "put", "undoContent", "written"} => tuples'[m] = Provenance(m)
           /\ pc \in {"put", "written"} => m \in content'
           /\ pc = "written" => m \in ledger'
  PROVE  IInv'
<1>0. TypeOK
  BY DEF IInv
<1>1. /\ remember' \in [Memories -> RememberCall]
      /\ \A x \in Memories : x # m => remember'[x] = remember[x]
      /\ remember'[m].pc = pc /\ remember'[m].for = remember[m].for
      /\ remember'[m].sources = remember[m].sources
  BY <1>0, GoRememberAt
<1>2. Keeps
  BY <1>1 DEF Keeps, Settled, Begun
<1>3. Provenance(m)' = Provenance(m) /\ (Touched(m)' <=> Touched(m))
  BY <1>1 DEF Provenance, Touched
<1>4. RememberKnows(m)'
  BY <1>1, <1>3 DEF RememberKnows, Begun, Settled
<1>. QED
  BY <1>1, <1>2, <1>4, RememberMoves

(* The decision: nothing is in any store yet.                              *)
LEMMA RememberDecideKeeps ==
  ASSUME IInv, NEW m \in Memories, RememberDecide(m)
  PROVE  IInv'
<1>0. TypeOK /\ RememberKnows(m)
  BY DEF IInv
<1>1. /\ UNCHANGED <<rights, changes, tuples, content, ledger, recall, forget>>
      /\ remember[m].pc = "idle"
  BY DEF RememberDecide
<1>2. tuples[m] = {} /\ m \notin content /\ m \notin ledger
  BY <1>0, <1>1 DEF RememberKnows, Begun, Settled
<1>3. /\ tuples' \in [Memories -> SUBSET (Docs \cup {Writer})]
      /\ content' \subseteq Memories /\ ledger' \subseteq Memories
  BY <1>0, <1>1 DEF TypeOK
<1>4. CASE GoRemember(m, "ended")
  BY <1>1, <1>2, <1>3, <1>4, RememberStepKeeps
<1>5. CASE ~GoRemember(m, "ended")
  <2>1. PICK user \in Users, sources \in SUBSET Docs :
          remember' = [remember EXCEPT ![m] =
            [pc |-> "tuples", for |-> user, sources |-> sources]]
    BY <1>5 DEF RememberDecide
  <2>2. /\ remember' \in [Memories -> RememberCall]
        /\ \A x \in Memories : x # m => remember'[x] = remember[x]
        /\ remember'[m].pc = "tuples"
    BY <1>0, <2>1 DEF TypeOK, RememberCall
  <2>3. Keeps
    BY <1>1, <2>2 DEF Keeps, Begun, Settled
  <2>4. RememberKnows(m)'
    BY <1>1, <1>2, <2>2 DEF RememberKnows, Begun, Settled
  <2>. QED
    BY <1>1, <1>3, <2>2, <2>3, <2>4, RememberMoves
<1>. QED
  BY <1>4, <1>5

(* The provenance is written before anything else.                         *)
LEMMA RememberTuplesKeeps ==
  ASSUME IInv, NEW m \in Memories, RememberTuples(m)
  PROVE  IInv'
<1>0. TypeOK /\ RememberKnows(m)
  BY DEF IInv
<1>1. /\ UNCHANGED <<rights, changes, content, ledger, recall, forget>>
      /\ remember[m].pc = "tuples"
  BY DEF RememberTuples
<1>2. Provenance(m) \in SUBSET (Docs \cup {Writer})
  BY <1>0 DEF TypeOK, RememberCall, Provenance
<1>3. m \notin ledger /\ ~Settled(m) /\ Begun(m)
  BY <1>0, <1>1 DEF RememberKnows, Settled, Begun
<1>4. PICK pc \in {"store", "ended"} :
        /\ GoRemember(m, pc)
        /\ tuples' \in {tuples, [tuples EXCEPT ![m] = Provenance(m)]}
        /\ pc = "store" => tuples' = [tuples EXCEPT ![m] = Provenance(m)]
  BY DEF RememberTuples
<1>5. /\ tuples' \in [Memories -> SUBSET (Docs \cup {Writer})]
      /\ \A x \in Memories : x # m => tuples'[x] = tuples[x]
      /\ tuples'[m] \subseteq Provenance(m)
      /\ pc = "store" => tuples'[m] = Provenance(m)
  BY <1>0, <1>2, <1>4 DEF TypeOK, RememberKnows
<1>6. content' \subseteq Memories /\ ledger' \subseteq Memories
  BY <1>0, <1>1 DEF TypeOK
<1>. QED
  BY <1>1, <1>3, <1>4, <1>5, <1>6, RememberStepKeeps

(* The content follows.                                                    *)
LEMMA RememberStoreKeeps ==
  ASSUME IInv, NEW m \in Memories, RememberStore(m)
  PROVE  IInv'
<1>0. TypeOK /\ RememberKnows(m)
  BY DEF IInv
<1>1. /\ UNCHANGED <<rights, changes, tuples, ledger, recall, forget>>
      /\ remember[m].pc = "store"
  BY DEF RememberStore
<1>2. m \notin ledger /\ ~Settled(m) /\ Begun(m)
  BY <1>0, <1>1 DEF RememberKnows, Settled, Begun
<1>3. PICK pc \in {"put", "undoTuples"} :
        /\ GoRemember(m, pc)
        /\ content' \in {content, content \cup {m}}
        /\ pc = "put" => m \in content'
  BY DEF RememberStore
<1>4. /\ tuples' \in [Memories -> SUBSET (Docs \cup {Writer})]
      /\ content' \subseteq Memories /\ ledger' \subseteq Memories
      /\ tuples'[m] \subseteq Provenance(m)
      /\ ~Touched(m) => tuples'[m] = Provenance(m)
  BY <1>0, <1>1, <1>3 DEF TypeOK, RememberKnows
<1>. QED
  BY <1>1, <1>2, <1>3, <1>4, RememberStepKeeps

(* The ledger row comes last.                                              *)
LEMMA RememberPutKeeps ==
  ASSUME IInv, NEW m \in Memories, RememberPut(m)
  PROVE  IInv'
<1>0. TypeOK /\ RememberKnows(m)
  BY DEF IInv
<1>1. /\ UNCHANGED <<rights, changes, tuples, content, recall, forget>>
      /\ remember[m].pc = "put"
  BY DEF RememberPut
<1>2. m \notin ledger /\ ~Settled(m) /\ Begun(m)
  BY <1>0, <1>1 DEF RememberKnows, Settled, Begun
<1>3. PICK pc \in {"written", "undoContent"} :
        /\ GoRemember(m, pc)
        /\ ledger' \in {ledger, ledger \cup {m}}
        /\ pc = "written" => m \in ledger'
  BY DEF RememberPut
<1>4. /\ tuples' \in [Memories -> SUBSET (Docs \cup {Writer})]
      /\ content' \subseteq Memories /\ ledger' \subseteq Memories
      /\ tuples'[m] \subseteq Provenance(m)
      /\ ~Touched(m) => tuples'[m] = Provenance(m) /\ m \in content'
  BY <1>0, <1>1, <1>3 DEF TypeOK, RememberKnows
<1>. QED
  BY <1>1, <1>2, <1>3, <1>4, RememberStepKeeps

(* A rollback, and a call that stops, only take away.                      *)
LEMMA UndoKeeps ==
  ASSUME IInv, NEW m \in Memories,
         \/ UndoContent(m) \/ UndoTuples(m) \/ UndoLedger(m)
         \/ /\ Begun(m) /\ GoRemember(m, "ended")
            /\ UNCHANGED <<rights, changes, tuples, content, ledger, recall, forget>>
  PROVE  IInv'
<1>0. TypeOK /\ RememberKnows(m)
  BY DEF IInv
<1>1. UNCHANGED <<rights, changes, recall, forget>> /\ Begun(m)
  BY DEF UndoContent, UndoTuples, UndoLedger, Begun
<1>2. PICK pc \in {"undoTuples", "undoLedger", "ended"} : GoRemember(m, pc)
  BY DEF UndoContent, UndoTuples, UndoLedger
<1>3. /\ tuples' \in {tuples, [tuples EXCEPT ![m] = {}]}
      /\ content' \in {content, content \ {m}} /\ ledger' \in {ledger, ledger \ {m}}
  BY DEF UndoContent, UndoTuples, UndoLedger
<1>4. /\ tuples' \in [Memories -> SUBSET (Docs \cup {Writer})]
      /\ \A x \in Memories : x # m => tuples'[x] = tuples[x]
      /\ tuples'[m] \subseteq tuples[m] /\ tuples'[m] \subseteq Provenance(m)
  BY <1>0, <1>3 DEF TypeOK, RememberKnows
<1>5. content' \subseteq Memories /\ ledger' \subseteq Memories
  BY <1>0, <1>3 DEF TypeOK
<1>. QED
  BY <1>1, <1>2, <1>3, <1>4, <1>5, RememberStepKeeps

-----------------------------------------------------------------------------
(* recall                                                                  *)

(* A recall moves: what it knows itself is left to show.                   *)
LEMMA RecallMoves ==
  ASSUME IInv, NEW c \in Recalls, NEW x \in RecallCall, recall' = [recall EXCEPT ![c] = x],
         UNCHANGED <<rights, changes, tuples, content, ledger, remember, forget>>,
         RecallKnows(c)'
  PROVE  IInv'
<1>0. recall \in [Recalls -> RecallCall]
  BY DEF IInv, TypeOK
<1>1. recall' \in [Recalls -> RecallCall] /\ \A d \in Recalls : d # c => recall'[d] = recall[d]
  BY <1>0
<1>2. TypeOK'
  BY <1>1 DEF IInv, TypeOK
<1>3. Keeps
  BY DEF Keeps, Begun, Settled
<1>4. \A m \in Memories : RememberKnows(m)'
  <2>1. \A m \in Memories : Touched(m)' <=> Touched(m)
    BY DEF Touched
  <2>. QED
    BY <2>1, RememberKept
<1>5. ASSUME NEW d \in Recalls, d # c
      PROVE  RecallKnows(d)'
  BY <1>1, <1>3, <1>5, RecallKept
<1>6. \A f \in Forgets : ForgetKnows(f)'
  BY <1>3, ForgetKept
<1>. QED
  BY <1>2, <1>4, <1>5, <1>6 DEF IInv

(* The locals of a recall that has not begun or was dropped.               *)
LEMMA NoRecallTyped ==
  ASSUME NEW pc \in {"idle", "lookup", "dropped"}
  PROVE  /\ NoRecall(pc) \in RecallCall /\ NoRecall(pc).pc = pc
         /\ NoRecall(pc).refs = {} /\ NoRecall(pc).todo = {} /\ NoRecall(pc).sources = {}
<1>1. (CHOOSE u \in Users : TRUE) \in Users
  BY MemoryConstants
<1>. QED
  BY <1>1 DEF NoRecall, RecallCall

(* A hit that is dropped returns nothing.                                  *)
LEMMA DropKeeps ==
  ASSUME IInv, NEW c \in Recalls, Drop(c),
         UNCHANGED <<rights, changes, tuples, content, ledger, remember, forget>>
  PROVE  IInv'
<1> DEFINE x == NoRecall("dropped")
<1>1. x \in RecallCall /\ x.pc = "dropped" /\ x.refs = {} /\ x.todo = {} /\ x.sources = {}
  BY NoRecallTyped
<1>2. recall' = [recall EXCEPT ![c] = x]
  BY DEF Drop
<1> HIDE DEF x
<1>3. recall'[c] = x
  BY <1>2 DEF IInv, TypeOK
<1>4. RecallKnows(c)'
  BY <1>1, <1>3 DEF RecallKnows
<1>. QED
  BY <1>1, <1>2, <1>4, RecallMoves

(* What the search finds has been written by somebody.                     *)
LEMMA RecallSearchKeeps ==
  ASSUME IInv, NEW c \in Recalls, RecallSearch(c)
  PROVE  IInv'
<1>1. UNCHANGED <<rights, changes, tuples, content, ledger, remember, forget>>
  BY DEF RecallSearch
<1>2. PICK user \in Users, refs \in SUBSET content :
        recall' = [recall EXCEPT ![c] =
          [NoRecall("lookup") EXCEPT !.for = user, !.refs = refs, !.todo = refs]]
  BY DEF RecallSearch
<1> DEFINE y == NoRecall("lookup")
           x == [y EXCEPT !.for = user, !.refs = refs, !.todo = refs]
<1>3. y \in RecallCall /\ y.pc = "lookup" /\ y.sources = {}
  BY NoRecallTyped
<1>4. recall' = [recall EXCEPT ![c] = x]
  BY <1>2
<1> HIDE DEF y
<1>5. refs \subseteq Memories
  BY DEF IInv, TypeOK
<1>6. /\ x \in RecallCall /\ x.pc = "lookup" /\ x.refs = refs /\ x.todo = refs /\ x.sources = {}
  BY <1>3, <1>5 DEF RecallCall
<1> HIDE DEF x
<1>7. recall'[c] = x
  BY <1>4 DEF IInv, TypeOK
<1>8. \A m \in refs : Begun(m)'
  BY <1>1, <1>5 DEF IInv, RememberKnows, Begun
<1>9. RecallKnows(c)'
  BY <1>6, <1>7, <1>8 DEF RecallKnows
<1>. QED
  BY <1>1, <1>4, <1>6, <1>9, RecallMoves

(* The rows are looked up one after the other.                             *)
LEMMA RecallLookupKeeps ==
  ASSUME IInv, NEW c \in Recalls, RecallLookup(c)
  PROVE  IInv'
<1>0. RecallKnows(c) /\ recall[c] \in RecallCall /\ recall \in [Recalls -> RecallCall]
  BY DEF IInv, TypeOK
<1>1. /\ UNCHANGED <<rights, changes, tuples, content, ledger, remember, forget>>
      /\ recall[c].pc = "lookup"
  BY DEF RecallLookup
<1>2. PICK m \in recall[c].todo :
        IF m \in ledger
        THEN LET rest == recall[c].todo \ {m} IN
             recall' = [recall EXCEPT ![c] =
               IF rest = {} THEN [@ EXCEPT !.pc = "sources", !.todo = recall[c].refs]
                            ELSE [@ EXCEPT !.todo = rest]]
        ELSE Drop(c)
  BY DEF RecallLookup
<1> DEFINE rest == recall[c].todo \ {m}
           x == [recall[c] EXCEPT !.pc = "sources", !.todo = recall[c].refs]
           y == [recall[c] EXCEPT !.todo = rest]
<1>3. CASE Drop(c)
  BY <1>1, <1>3, DropKeeps
<1>4. CASE recall' = [recall EXCEPT ![c] = x]
  <2>1. /\ x \in RecallCall /\ x.pc = "sources" /\ x.refs = recall[c].refs
        /\ x.todo = recall[c].refs /\ x.sources = recall[c].sources
    BY <1>0 DEF RecallCall
  <2> HIDE DEF x
  <2>2. recall'[c] = x
    BY <1>0, <1>4
  <2>3. RecallKnows(c)'
    BY <1>0, <1>1, <2>1, <2>2 DEF RecallKnows, Begun
  <2>. QED
    BY <1>1, <1>4, <2>1, <2>3, RecallMoves
<1>5. CASE recall' = [recall EXCEPT ![c] = y]
  <2>1. /\ y \in RecallCall /\ y.pc = "lookup" /\ y.refs = recall[c].refs
        /\ y.todo = rest /\ y.sources = recall[c].sources
    BY <1>0, <1>1 DEF RecallCall
  <2> HIDE DEF y
  <2>2. recall'[c] = y
    BY <1>0, <1>5
  <2>3. RecallKnows(c)'
    BY <1>0, <1>1, <2>1, <2>2 DEF RecallKnows, Begun
  <2>. QED
    BY <1>1, <1>5, <2>1, <2>3, RecallMoves
<1>. QED
  BY <1>0, <1>2, <1>3, <1>4, <1>5

(* The union of the ledger's sources and OpenFGA's is what the ledger has: *)
(* OpenFGA never holds more, and a rollback or a forget only takes away.   *)
LEMMA SourcesAre ==
  ASSUME IInv, NEW m \in Memories
  PROVE  Sources(m) = remember[m].sources /\ Sources(m) \subseteq Docs
<1>1. /\ tuples[m] \subseteq remember[m].sources \cup {Writer}
      /\ remember[m].sources \subseteq Docs
  BY DEF IInv, RememberKnows, Provenance, TypeOK, RememberCall
<1>. QED
  BY <1>1 DEF Sources

(* The sources of one row more are known.                                  *)
LEMMA RecallSourcesKeeps ==
  ASSUME IInv, NEW c \in Recalls, RecallSources(c)
  PROVE  IInv'
<1>0. RecallKnows(c) /\ recall[c] \in RecallCall /\ recall \in [Recalls -> RecallCall]
  BY DEF IInv, TypeOK
<1>1. /\ UNCHANGED <<rights, changes, tuples, content, ledger, remember, forget>>
      /\ recall[c].pc = "sources"
  BY DEF RecallSources
<1>2. PICK m \in recall[c].todo :
        LET rest == recall[c].todo \ {m} IN
        recall' = [recall EXCEPT ![c] =
          [@ EXCEPT !.pc = IF rest = {} THEN "decide" ELSE "sources",
                    !.todo = rest, !.sources = recall[c].sources \cup Sources(m)]]
  BY DEF RecallSources
<1> DEFINE rest == recall[c].todo \ {m}
           pc == IF rest = {} THEN "decide" ELSE "sources"
           src == recall[c].sources \cup Sources(m)
           x == [recall[c] EXCEPT !.pc = pc, !.todo = rest, !.sources = src]
<1>3. recall' = [recall EXCEPT ![c] = x]
  BY <1>0, <1>2
<1>4. m \in Memories /\ m \in recall[c].refs
  BY <1>0 DEF RecallCall, RecallKnows
<1>5. Sources(m) = remember[m].sources /\ src \in SUBSET Docs
  BY <1>0, <1>4, SourcesAre DEF RecallCall
<1>6. pc \in {"decide", "sources"} /\ (pc = "decide" => rest = {})
  OBVIOUS
<1>7. rest \in SUBSET Memories
  BY <1>0 DEF RecallCall
<1> HIDE DEF pc
<1>8. /\ x \in RecallCall /\ x.pc = pc /\ x.refs = recall[c].refs
      /\ x.todo = rest /\ x.sources = src
  BY <1>0, <1>5, <1>6, <1>7 DEF RecallCall
<1> HIDE DEF x
<1>9. recall'[c] = x
  BY <1>0, <1>3
<1>10. RecallKnows(c)'
  BY <1>0, <1>1, <1>4, <1>5, <1>6, <1>8, <1>9 DEF RecallKnows, Begun
<1>. QED
  BY <1>1, <1>3, <1>8, <1>10, RecallMoves

(* What is returned was decided on all the sources.                        *)
LEMMA RecallDecideKeeps ==
  ASSUME IInv, NEW c \in Recalls, RecallDecide(c)
  PROVE  IInv'
<1>0. RecallKnows(c) /\ recall[c] \in RecallCall /\ recall \in [Recalls -> RecallCall]
  BY DEF IInv, TypeOK
<1>1. /\ UNCHANGED <<rights, changes, tuples, content, ledger, remember, forget>>
      /\ recall[c].pc = "decide"
  BY DEF RecallDecide
<1>2. CASE Drop(c)
  BY <1>1, <1>2, DropKeeps
<1>3. CASE ~Drop(c)
  <2> DEFINE viewable == Viewable(rights, recall[c].for)
             x == [recall[c] EXCEPT !.pc = "returned", !.viewable = viewable]
  <2>1. /\ recall[c].sources = {} => WrittenFor(c)
        /\ CanAllow(recall[c].sources, viewable)
        /\ recall' = [recall EXCEPT ![c] = x]
    BY <1>0, <1>3 DEF RecallDecide
  <2>2. viewable \in SUBSET Docs /\ recall[c].sources \subseteq viewable
    BY <2>1, AllowSeesAll DEF Viewable
  <2> HIDE DEF viewable
  <2>3. /\ x \in RecallCall /\ x.pc = "returned" /\ x.refs = recall[c].refs
        /\ x.todo = recall[c].todo /\ x.sources = recall[c].sources
        /\ x.viewable = viewable /\ x.for = recall[c].for
    BY <1>0, <2>2 DEF RecallCall
  <2> HIDE DEF x
  <2>4. recall'[c] = x
    BY <1>0, <2>1
  <2>5. WrittenFor(c) => WrittenFor(c)'
    BY <1>1, <2>3, <2>4 DEF WrittenFor
  <2>6. RecallKnows(c)'
    BY <1>0, <1>1, <2>1, <2>2, <2>3, <2>4, <2>5 DEF RecallKnows, Begun
  <2>. QED
    BY <1>1, <2>1, <2>3, <2>6, RecallMoves
<1>. QED
  BY <1>2, <1>3

-----------------------------------------------------------------------------
(* forget                                                                  *)

(* A forget call moves: it touches its own memory only, and only takes     *)
(* away; what it knows itself is left to show.                             *)
LEMMA ForgetMoves ==
  ASSUME IInv, NEW f \in Forgets, NEW x \in ForgetCall, forget' = [forget EXCEPT ![f] = x],
         x.pc # "idle", forget[f].pc = "idle" \/ x.memory = forget[f].memory,
         tuples' \in [Memories -> SUBSET (Docs \cup {Writer})],
         content' \subseteq content, ledger' \subseteq ledger,
         \A m \in Memories : tuples'[m] \subseteq tuples[m],
         \A m \in Memories : m # x.memory =>
           /\ tuples'[m] = tuples[m]
           /\ (m \in content' <=> m \in content) /\ (m \in ledger' <=> m \in ledger),
         UNCHANGED <<rights, changes, remember, recall>>,
         ForgetKnows(f)'
  PROVE  IInv'
<1>0. forget \in [Forgets -> ForgetCall]
  BY DEF IInv, TypeOK
<1>1. /\ forget' \in [Forgets -> ForgetCall] /\ forget'[f] = x
      /\ \A g \in Forgets : g # f => forget'[g] = forget[g]
  BY <1>0
<1>2. TypeOK'
  BY <1>1 DEF IInv, TypeOK
<1>3. Keeps
  BY DEF Keeps, Begun, Settled
<1>4. ASSUME NEW m \in Memories
      PROVE  RememberKnows(m)'
  <2>1. ~Touched(m)' => m # x.memory /\ ~Touched(m)
    BY <1>1 DEF Touched
  <2>. QED
    BY <2>1, RememberKept
<1>5. \A c \in Recalls : RecallKnows(c)'
  BY <1>3, RecallKept
<1>6. ASSUME NEW g \in Forgets, g # f
      PROVE  ForgetKnows(g)'
  BY <1>1, <1>3, <1>6, ForgetKept
<1>. QED
  BY <1>2, <1>4, <1>5, <1>6 DEF IInv

(* A forget call that ends without success knows nothing; what it deleted  *)
(* is gone.                                                                *)
LEMMA EndForgetKeeps ==
  ASSUME IInv, NEW f \in Forgets, EndForget(f),
         tuples' \in [Memories -> SUBSET (Docs \cup {Writer})],
         content' \subseteq content, ledger' \subseteq ledger,
         \A m \in Memories : tuples'[m] \subseteq tuples[m],
         \A m \in Memories : m # forget[f].memory =>
           /\ tuples'[m] = tuples[m]
           /\ (m \in content' <=> m \in content) /\ (m \in ledger' <=> m \in ledger),
         UNCHANGED <<rights, changes, remember, recall>>
  PROVE  IInv'
<1>0. forget[f] \in ForgetCall /\ forget \in [Forgets -> ForgetCall]
  BY DEF IInv, TypeOK
<1> DEFINE x == [forget[f] EXCEPT !.pc = "ended", !.found = {}]
<1>1. forget' = [forget EXCEPT ![f] = x]
  BY DEF EndForget
<1>2. x \in ForgetCall /\ x.pc = "ended" /\ x.memory = forget[f].memory
  BY <1>0 DEF ForgetCall
<1> HIDE DEF x
<1>3. forget'[f] = x
  BY <1>0, <1>1
<1>4. ForgetKnows(f)'
  BY <1>2, <1>3 DEF ForgetKnows
<1>. QED
  BY <1>1, <1>2, <1>4, ForgetMoves

(* A memory with a row is settled.                                         *)
LEMMA ForgetDecideKeeps ==
  ASSUME IInv, NEW f \in Forgets, ForgetDecide(f)
  PROVE  IInv'
<1>0. TypeOK /\ forget[f] \in ForgetCall /\ forget \in [Forgets -> ForgetCall]
  BY DEF IInv, TypeOK
<1>1. /\ UNCHANGED <<rights, changes, tuples, content, ledger, remember, recall>>
      /\ forget[f].pc = "idle"
  BY DEF ForgetDecide
<1>2. tuples' \in [Memories -> SUBSET (Docs \cup {Writer})]
  BY <1>0, <1>1 DEF TypeOK
<1>3. CASE EndForget(f)
  BY <1>1, <1>2, <1>3, EndForgetKeeps
<1>4. CASE ~EndForget(f)
  <2>1. PICK m \in ledger :
          forget' = [forget EXCEPT ![f] = [@ EXCEPT !.pc = "content", !.memory = m]]
    BY <1>4 DEF ForgetDecide
  <2> DEFINE x == [forget[f] EXCEPT !.pc = "content", !.memory = m]
  <2>2. m \in Memories /\ Settled(m)
    BY <1>0 DEF IInv, RememberKnows, TypeOK
  <2>3. x \in ForgetCall /\ x.pc = "content" /\ x.memory = m
    BY <1>0, <2>2 DEF ForgetCall
  <2> HIDE DEF x
  <2>4. forget' = [forget EXCEPT ![f] = x]
    BY <1>0, <2>1 DEF x
  <2>5. forget'[f] = x
    BY <1>0, <2>4
  <2>6. ForgetKnows(f)'
    BY <1>1, <2>2, <2>3, <2>5 DEF ForgetKnows, Settled
  <2>. QED
    BY <1>1, <1>2, <2>3, <2>4, <2>6, ForgetMoves
<1>. QED
  BY <1>3, <1>4

(* A forget call that goes on keeps its locals.                            *)
LEMMA GoForgetAt ==
  ASSUME IInv, NEW f \in Forgets, NEW pc \in {"ledger", "read"}, GoForget(f, pc)
  PROVE  \E x \in ForgetCall : /\ forget' = [forget EXCEPT ![f] = x] /\ forget'[f] = x
                               /\ x.pc = pc /\ x.memory = forget[f].memory
<1>0. forget[f] \in ForgetCall /\ forget \in [Forgets -> ForgetCall]
  BY DEF IInv, TypeOK
<1> DEFINE x == [forget[f] EXCEPT !.pc = pc]
<1>1. forget' = [forget EXCEPT ![f] = x]
  BY DEF GoForget
<1>2. x \in ForgetCall /\ x.pc = pc /\ x.memory = forget[f].memory
  BY <1>0 DEF ForgetCall
<1> HIDE DEF x
<1>3. forget'[f] = x
  BY <1>0, <1>1
<1>. QED
  BY <1>1, <1>2, <1>3

(* The content goes first ...                                              *)
LEMMA ForgetContentKeeps ==
  ASSUME IInv, NEW f \in Forgets, ForgetContent(f)
  PROVE  IInv'
<1>0. TypeOK /\ forget[f].memory \in Memories /\ ForgetKnows(f)
  BY DEF IInv, TypeOK, ForgetCall
<1>1. /\ UNCHANGED <<rights, changes, tuples, ledger, remember, recall>>
      /\ forget[f].pc = "content"
      /\ content' \in {content, content \ {forget[f].memory}}
  BY DEF ForgetContent
<1>2. /\ tuples' \in [Memories -> SUBSET (Docs \cup {Writer})] /\ content' \subseteq content
      /\ \A m \in Memories : m # forget[f].memory => (m \in content' <=> m \in content)
  BY <1>0, <1>1 DEF TypeOK
<1>3. CASE EndForget(f)
  BY <1>1, <1>2, <1>3, EndForgetKeeps
<1>4. CASE GoForget(f, "ledger") /\ content' = content \ {forget[f].memory}
  <2>1. PICK x \in ForgetCall : /\ forget' = [forget EXCEPT ![f] = x] /\ forget'[f] = x
                                /\ x.pc = "ledger" /\ x.memory = forget[f].memory
    BY <1>4, GoForgetAt
  <2>2. ForgetKnows(f)'
    BY <1>0, <1>1, <1>4, <2>1 DEF ForgetKnows, Settled
  <2>. QED
    BY <1>1, <1>2, <2>1, <2>2, ForgetMoves
<1>. QED
  BY <1>3, <1>4 DEF ForgetContent

(* ... then the row ...                                                    *)
LEMMA ForgetLedgerKeeps ==
  ASSUME IInv, NEW f \in Forgets, ForgetLedger(f)
  PROVE  IInv'
<1>0. TypeOK /\ forget[f].memory \in Memories /\ ForgetKnows(f)
  BY DEF IInv, TypeOK, ForgetCall
<1>1. /\ UNCHANGED <<rights, changes, tuples, content, remember, recall>>
      /\ forget[f].pc = "ledger"
      /\ ledger' \in {ledger, ledger \ {forget[f].memory}}
  BY DEF ForgetLedger
<1>2. /\ tuples' \in [Memories -> SUBSET (Docs \cup {Writer})] /\ ledger' \subseteq ledger
      /\ \A m \in Memories : m # forget[f].memory => (m \in ledger' <=> m \in ledger)
  BY <1>0, <1>1 DEF TypeOK
<1>3. CASE EndForget(f)
  BY <1>1, <1>2, <1>3, EndForgetKeeps
<1>4. CASE GoForget(f, "read") /\ ledger' = ledger \ {forget[f].memory}
  <2>1. PICK x \in ForgetCall : /\ forget' = [forget EXCEPT ![f] = x] /\ forget'[f] = x
                                /\ x.pc = "read" /\ x.memory = forget[f].memory
    BY <1>4, GoForgetAt
  <2>2. ForgetKnows(f)'
    BY <1>0, <1>1, <1>4, <2>1 DEF ForgetKnows, Settled
  <2>. QED
    BY <1>1, <1>2, <2>1, <2>2, ForgetMoves
<1>. QED
  BY <1>3, <1>4 DEF ForgetLedger

(* ... then the tuples are read: there will be no others ...               *)
LEMMA ForgetReadKeeps ==
  ASSUME IInv, NEW f \in Forgets, ForgetRead(f)
  PROVE  IInv'
<1>0. /\ TypeOK /\ forget[f] \in ForgetCall /\ forget[f].memory \in Memories /\ ForgetKnows(f)
      /\ forget \in [Forgets -> ForgetCall]
  BY DEF IInv, TypeOK, ForgetCall
<1>1. /\ UNCHANGED <<rights, changes, tuples, content, ledger, remember, recall>>
      /\ forget[f].pc = "read"
  BY DEF ForgetRead
<1> DEFINE found == tuples[forget[f].memory]
           x == [forget[f] EXCEPT !.pc = "tuples", !.found = found]
<1>2. forget' = [forget EXCEPT ![f] = x]
  BY DEF ForgetRead
<1>3. found \in SUBSET (Docs \cup {Writer}) /\ tuples' \in [Memories -> SUBSET (Docs \cup {Writer})]
  BY <1>0, <1>1 DEF TypeOK
<1>4. x \in ForgetCall /\ x.pc = "tuples" /\ x.memory = forget[f].memory /\ x.found = found
  BY <1>0, <1>3 DEF ForgetCall
<1> HIDE DEF x
<1>5. forget'[f] = x
  BY <1>0, <1>2
<1>6. ForgetKnows(f)'
  BY <1>0, <1>1, <1>4, <1>5 DEF ForgetKnows, Settled
<1>. QED
  BY <1>1, <1>2, <1>3, <1>4, <1>6, ForgetMoves

(* ... and deleted.                                                        *)
LEMMA ForgetTuplesKeeps ==
  ASSUME IInv, NEW f \in Forgets, ForgetTuples(f)
  PROVE  IInv'
<1>0. /\ TypeOK /\ forget[f] \in ForgetCall /\ forget[f].memory \in Memories /\ ForgetKnows(f)
      /\ forget \in [Forgets -> ForgetCall]
  BY DEF IInv, TypeOK, ForgetCall
<1> DEFINE m == forget[f].memory
           left == tuples[m] \ forget[f].found
<1>1. /\ UNCHANGED <<rights, changes, content, ledger, remember, recall>>
      /\ forget[f].pc = "tuples"
  BY DEF ForgetTuples
<1>2. tuples' = tuples \/ tuples' = [tuples EXCEPT ![m] = left]
  BY <1>0 DEF ForgetTuples, TypeOK
<1>3. /\ tuples' \in [Memories -> SUBSET (Docs \cup {Writer})]
      /\ \A y \in Memories : tuples'[y] \subseteq tuples[y]
      /\ \A y \in Memories : y # m => tuples'[y] = tuples[y]
  BY <1>0, <1>2 DEF TypeOK
<1>4. CASE EndForget(f)
  BY <1>1, <1>3, <1>4, EndForgetKeeps
<1>5. CASE ~EndForget(f)
  <2> DEFINE x == [forget[f] EXCEPT !.pc = "forgotten", !.found = {}]
  <2>1. /\ tuples' = [tuples EXCEPT ![m] = left] /\ forget' = [forget EXCEPT ![f] = x]
    BY <1>0, <1>5 DEF ForgetTuples, TypeOK
  <2>2. x \in ForgetCall /\ x.pc = "forgotten" /\ x.memory = m
    BY <1>0 DEF ForgetCall
  <2> HIDE DEF x
  <2>3. forget'[f] = x
    BY <1>0, <2>1
  <2>4. tuples'[m] = {}
    BY <1>0, <1>1, <2>1 DEF ForgetKnows, TypeOK
  <2>5. ForgetKnows(f)'
    BY <1>0, <1>1, <2>2, <2>3, <2>4 DEF ForgetKnows, Settled
  <2>. QED
    BY <1>1, <1>3, <2>1, <2>2, <2>5, ForgetMoves
<1>. QED
  BY <1>4, <1>5

-----------------------------------------------------------------------------
(* The invariant and what follows from it                                  *)

(* Nothing is stored and nobody has called.                                *)
LEMMA InitKnows ==
  ASSUME Init
  PROVE  IInv
<1>1. /\ (CHOOSE u \in Users : TRUE) \in Users
      /\ (CHOOSE m \in Memories : TRUE) \in Memories
  BY MemoryConstants
<1>2. \A m \in Memories : remember[m].pc = "idle" /\ remember[m] \in RememberCall
  BY <1>1 DEF Init, RememberCall
<1>3. /\ \A c \in Recalls : recall[c] = NoRecall("idle") /\ recall[c] \in RecallCall
      /\ recall \in [Recalls -> RecallCall]
  BY NoRecallTyped DEF Init
<1>4. \A f \in Forgets : forget[f].pc = "idle" /\ forget[f] \in ForgetCall
  BY <1>1 DEF Init, ForgetCall
<1>5. TypeOK
  BY <1>2, <1>3, <1>4 DEF Init, TypeOK
<1>6. \A m \in Memories : RememberKnows(m)
  BY <1>2 DEF Init, RememberKnows, Begun, Settled
<1>7. \A c \in Recalls : RecallKnows(c)
  <2>1. \A c \in Recalls : /\ recall[c].pc = "idle" /\ recall[c].refs = {}
                           /\ recall[c].todo = {} /\ recall[c].sources = {}
    BY <1>3, NoRecallTyped
  <2>. QED
    BY <2>1 DEF RecallKnows
<1>8. \A f \in Forgets : ForgetKnows(f)
  BY <1>4 DEF ForgetKnows
<1>. QED
  BY <1>5, <1>6, <1>7, <1>8 DEF IInv

(* A step that touches neither a call nor a store, a change of rights or a *)
(* stutter, keeps everything.                                              *)
LEMMA FrameKeeps ==
  ASSUME IInv, rights' \subseteq Users \X Docs, changes' \in Nat,
         UNCHANGED <<tuples, content, ledger, remember, recall, forget>>
  PROVE  IInv'
<1>1. TypeOK'
  BY DEF IInv, TypeOK
<1>2. Keeps
  BY DEF Keeps, Begun, Settled
<1>3. \A m \in Memories : RememberKnows(m)'
  <2>1. \A m \in Memories : Touched(m)' <=> Touched(m)
    BY DEF Touched
  <2>. QED
    BY <2>1, RememberKept
<1>4. (\A c \in Recalls : RecallKnows(c)') /\ (\A f \in Forgets : ForgetKnows(f)')
  BY <1>2, RecallKept, ForgetKept
<1>. QED
  BY <1>1, <1>3, <1>4 DEF IInv

(* A call that is cancelled, or whose process dies, leaves the stores as   *)
(* they are.                                                               *)
LEMMA StopKeeps ==
  ASSUME IInv, Stop
  PROVE  IInv'
<1>0. UNCHANGED <<rights, changes, tuples, content, ledger>> /\ TypeOK
  BY DEF Stop, IInv
<1>1. ASSUME NEW m \in Memories, remember[m].pc \notin {"idle", "written", "ended"},
             GoRemember(m, "ended"), UNCHANGED <<recall, forget>>
      PROVE  IInv'
  BY <1>0, <1>1, UndoKeeps DEF Begun
<1>2. ASSUME NEW c \in Recalls, Drop(c), UNCHANGED <<remember, forget>>
      PROVE  IInv'
  BY <1>0, <1>2, DropKeeps
<1>3. ASSUME NEW f \in Forgets, forget[f].pc \notin {"idle", "forgotten", "ended"},
             EndForget(f), UNCHANGED <<remember, recall>>
      PROVE  IInv'
  <2>1. /\ tuples' \in [Memories -> SUBSET (Docs \cup {Writer})]
        /\ content' \subseteq Memories /\ ledger' \subseteq Memories
    BY <1>0 DEF TypeOK
  <2>. QED
    BY <1>0, <1>3, <2>1, EndForgetKeeps
<1>. QED
  BY <1>1, <1>2, <1>3 DEF Stop

(* Every step keeps the invariant.                                         *)
LEMMA StepKnows ==
  ASSUME IInv, [Next]_vars
  PROVE  IInv'
<1>1. CASE Change
  <2>1. rights' \subseteq Users \X Docs
    <3>1. rights \subseteq Users \X Docs
      BY DEF IInv, TypeOK
    <3>2. PICK r \in Users \X Docs :
            rights' = IF r \in rights THEN rights \ {r} ELSE rights \cup {r}
      BY <1>1 DEF Change
    <3>. QED
      BY <3>1, <3>2
  <2>2. changes' \in Nat
    BY <1>1 DEF Change, IInv, TypeOK
  <2>. QED
    BY <1>1, <2>1, <2>2, FrameKeeps DEF Change
<1>2. CASE \E m \in Memories :
             \/ RememberDecide(m) \/ RememberTuples(m) \/ RememberStore(m) \/ RememberPut(m)
             \/ UndoContent(m) \/ UndoTuples(m) \/ UndoLedger(m)
  BY <1>2, RememberDecideKeeps, RememberTuplesKeeps, RememberStoreKeeps, RememberPutKeeps, UndoKeeps
<1>3. CASE \E c \in Recalls :
             \/ RecallSearch(c) \/ RecallLookup(c) \/ RecallSources(c) \/ RecallDecide(c)
  BY <1>3, RecallSearchKeeps, RecallLookupKeeps, RecallSourcesKeeps, RecallDecideKeeps
<1>4. CASE \E f \in Forgets :
             \/ ForgetDecide(f) \/ ForgetContent(f) \/ ForgetLedger(f) \/ ForgetRead(f)
             \/ ForgetTuples(f)
  BY <1>4, ForgetDecideKeeps, ForgetContentKeeps, ForgetLedgerKeeps, ForgetReadKeeps,
     ForgetTuplesKeeps
<1>5. CASE Stop
  BY <1>5, StopKeeps
<1>6. CASE UNCHANGED vars
  <2>1. rights' \subseteq Users \X Docs /\ changes' \in Nat
    BY <1>6 DEF vars, IInv, TypeOK
  <2>. QED
    BY <1>6, <2>1, FrameKeeps DEF vars
<1>. QED
  BY <1>1, <1>2, <1>3, <1>4, <1>5, <1>6 DEF Next

(* The inductive invariant holds of every behaviour, whatever the stores   *)
(* fail at and wherever a call dies (service.py:83-334).                   *)
THEOREM MemoryInvariant == Spec => []IInv
BY InitKnows, StepKnows, PTL DEF Spec

(* What recall returns was written from documents its subject could all    *)
(* view when it was decided (service.py:281-288).                          *)
THEOREM RecallsRespectSources == Spec => []RecallRespectsSources
<1>1. IInv => RecallRespectsSources
  BY DEF IInv, TypeOK, RecallCall, RecallKnows, RecallRespectsSources
<1>. QED
  BY <1>1, MemoryInvariant, PTL

(* A hit without any source goes to the subject it was written for.        *)
THEOREM PrivateHitsArePrivate == Spec => []PrivateHitsStayPrivate
<1>1. ASSUME IInv PROVE PrivateHitsStayPrivate
  <2>1. SUFFICES ASSUME NEW c \in Recalls, recall[c].pc = "returned",
                        \A m \in recall[c].refs : remember[m].sources = {}
                 PROVE  \A m \in recall[c].refs : remember[m].for = recall[c].for
    BY DEF PrivateHitsStayPrivate
  <2>2. RecallKnows(c)
    BY <1>1 DEF IInv
  <2>3. recall[c].sources = {}
    BY <2>1, <2>2 DEF RecallKnows
  <2>. QED
    BY <2>1, <2>2, <2>3 DEF RecallKnows, WrittenFor
<1>. QED
  BY <1>1, MemoryInvariant, PTL

(* What a forget call reported forgotten is in none of the three stores,   *)
(* then and ever after (service.py:319-323).                               *)
THEOREM ForgottenStaysGone == Spec => []ForgottenIsGone
<1>1. IInv => ForgottenIsGone
  BY DEF IInv, ForgetKnows, ForgottenIsGone
<1>. QED
  BY <1>1, MemoryInvariant, PTL

(* A memory that was written and that nobody set out to forget is in all   *)
(* three stores (service.py:110-132).                                      *)
THEOREM WrittenStaysWhole == Spec => []WrittenIsWhole
<1>1. ASSUME IInv PROVE WrittenIsWhole
  <2>1. \A m \in Memories : RememberKnows(m)
    BY <1>1 DEF IInv
  <2>. QED
    BY <2>1 DEF RememberKnows, WrittenIsWhole
<1>. QED
  BY <1>1, MemoryInvariant, PTL
=============================================================================
