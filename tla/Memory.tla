------------------------------- MODULE Memory -------------------------------
(***************************************************************************)
(* Provenance memory (memory/service.py): remember, recall and forget over *)
(* three stores without a common transaction, the provenance tuples in     *)
(* OpenFGA, the content in a backend adapter and the ledger row in         *)
(* PostgreSQL.  Every access is an await; each may fail, with or without   *)
(* having taken effect, and the process may die between any two.           *)
(*                                                                         *)
(* A memory is named after the remember call that writes it (uuid4).  The  *)
(* ledger row holds what the call put in it, so the ledger is the set of   *)
(* memories that have a row.  A recall follows one search hit: the loop    *)
(* treats its candidates one after the other and independently.  What the  *)
(* token's checks, the scope and the policies say is an input; the         *)
(* subject's rights on documents are state, and change.                    *)
(***************************************************************************)
EXTENDS Decider, Naturals, FiniteSets

CONSTANTS
  Memories,            \* remember calls, naming their memories
  Recalls, Forgets,    \* calls
  Users, Docs,
  Writer,              \* stands for the writer tuple
  MaxChanges           \* bound on changes of rights

ASSUME MemoryConstants == Users # {} /\ Memories # {} /\ Writer \notin Docs /\ MaxChanges \in Nat

VARIABLES
  rights,    \* <<user, document>>: viewer, in OpenFGA; every one at first
  changes,   \* changes of rights so far
  tuples,    \* provenance tuples in OpenFGA, by memory
  content,   \* memories whose content the backend holds
  ledger,    \* memories with a ledger row
  remember, recall, forget   \* the calls

vars == <<rights, changes, tuples, content, ledger, remember, recall, forget>>

Viewable(rs, user) == {d \in Docs : <<user, d>> \in rs}
Provenance(m)      == remember[m].sources \cup {Writer}

(* decide_all can say ALLOW, whatever the scope, the policies and the      *)
(* engine's availability; it can always say something else.                *)
CanAllow(sources, viewable) ==
  \E scoped, answered \in BOOLEAN, verdict \in Outcomes :
    EvaluateAll(scoped, sources, viewable, answered, verdict) = "ALLOW"

Change ==
  /\ changes < MaxChanges
  /\ changes' = changes + 1
  /\ \E r \in Users \X Docs :
       rights' = IF r \in rights THEN rights \ {r} ELSE rights \cup {r}
  /\ UNCHANGED <<tuples, content, ledger, remember, recall, forget>>

-----------------------------------------------------------------------------
(* remember                                                                *)

GoRemember(m, pc) == remember' = [remember EXCEPT ![m] = [@ EXCEPT !.pc = pc]]

(* The token's checks on the sources, then decide_all; nothing is written  *)
(* unless it says ALLOW.                                                   *)
RememberDecide(m) ==
  /\ remember[m].pc = "idle"
  /\ \/ GoRemember(m, "ended")
     \/ \E user \in Users, sources \in SUBSET Docs :
          /\ CanAllow(sources, Viewable(rights, user))
          /\ remember' = [remember EXCEPT ![m] =
               [pc |-> "tuples", for |-> user, sources |-> sources]]
  /\ UNCHANGED <<rights, changes, tuples, content, ledger, recall, forget>>

(* A failed write of the provenance ends the call without a rollback.      *)
RememberTuples(m) ==
  /\ remember[m].pc = "tuples"
  /\ \/ tuples' = [tuples EXCEPT ![m] = Provenance(m)] /\ GoRemember(m, "store")
     \/ tuples' = [tuples EXCEPT ![m] = Provenance(m)] /\ GoRemember(m, "ended")
     \/ tuples' = tuples /\ GoRemember(m, "ended")
  /\ UNCHANGED <<rights, changes, content, ledger, recall, forget>>

(* Without a reference the rollback cannot delete content.                 *)
RememberStore(m) ==
  /\ remember[m].pc = "store"
  /\ \/ content' = content \cup {m} /\ GoRemember(m, "put")
     \/ content' = content \cup {m} /\ GoRemember(m, "undoTuples")
     \/ content' = content /\ GoRemember(m, "undoTuples")
  /\ UNCHANGED <<rights, changes, tuples, ledger, recall, forget>>

(* Mutant: a failing ledger is logged, not raised.                         *)
MutantRememberPut(m) ==
  /\ remember[m].pc = "put"
  /\ ledger' \in {ledger, ledger \cup {m}}
  /\ GoRemember(m, "written")
  /\ UNCHANGED <<rights, changes, tuples, content, recall, forget>>

(* After the row memory_written is recorded; a journal that fails raises   *)
(* and undoes nothing, so it leaves what a success leaves.                 *)
RememberPut(m) ==
  /\ remember[m].pc = "put"
  /\ \/ ledger' = ledger \cup {m} /\ GoRemember(m, "written")
     \/ ledger' = ledger \cup {m} /\ GoRemember(m, "undoContent")
     \/ ledger' = ledger /\ GoRemember(m, "undoContent")
  /\ UNCHANGED <<rights, changes, tuples, content, recall, forget>>

(* _rollback: three deletions, each of which may fail and is only logged.  *)
UndoContent(m) ==
  /\ remember[m].pc = "undoContent"
  /\ content' \in {content, content \ {m}}
  /\ GoRemember(m, "undoTuples")
  /\ UNCHANGED <<rights, changes, tuples, ledger, recall, forget>>

UndoTuples(m) ==
  /\ remember[m].pc = "undoTuples"
  /\ tuples' \in {tuples, [tuples EXCEPT ![m] = {}]}
  /\ GoRemember(m, "undoLedger")
  /\ UNCHANGED <<rights, changes, content, ledger, recall, forget>>

UndoLedger(m) ==
  /\ remember[m].pc = "undoLedger"
  /\ ledger' \in {ledger, ledger \ {m}}
  /\ GoRemember(m, "ended")
  /\ UNCHANGED <<rights, changes, tuples, content, recall, forget>>

-----------------------------------------------------------------------------
(* recall                                                                  *)

NoRecall(pc) == [pc |-> pc, for |-> CHOOSE u \in Users : TRUE, refs |-> {}, todo |-> {},
                 sources |-> {}, viewable |-> {}]

Drop(c) == recall' = [recall EXCEPT ![c] = NoRecall("dropped")]

(* A hit is made of the contents of one memory or of several.              *)
RecallSearch(c) ==
  /\ recall[c].pc = "idle"
  /\ \E user \in Users, refs \in (SUBSET content) \ {{}} :
       recall' = [recall EXCEPT ![c] =
         [NoRecall("lookup") EXCEPT !.for = user, !.refs = refs, !.todo = refs]]
  /\ UNCHANGED <<rights, changes, tuples, content, ledger, remember, forget>>

(* One ledger lookup per reference; a missing row drops the candidate.     *)
RecallLookup(c) ==
  /\ recall[c].pc = "lookup"
  /\ \E m \in recall[c].todo :
       IF m \in ledger
       THEN LET rest == recall[c].todo \ {m} IN
            recall' = [recall EXCEPT ![c] =
              IF rest = {} THEN [@ EXCEPT !.pc = "sources", !.todo = recall[c].refs]
                           ELSE [@ EXCEPT !.todo = rest]]
       ELSE Drop(c)
  /\ UNCHANGED <<rights, changes, tuples, content, ledger, remember, forget>>

(* Mutant: OpenFGA alone is asked for the sources.                         *)
MutantSources(m) == tuples[m] \ {Writer}

(* The sources of one row: the ledger's and OpenFGA's.                     *)
Sources(m) == remember[m].sources \cup (tuples[m] \ {Writer})

RecallSources(c) ==
  /\ recall[c].pc = "sources"
  /\ \E m \in recall[c].todo :
       LET rest == recall[c].todo \ {m} IN
       recall' = [recall EXCEPT ![c] =
         [@ EXCEPT !.pc = IF rest = {} THEN "decide" ELSE "sources",
                   !.todo = rest, !.sources = recall[c].sources \cup Sources(m)]]
  /\ UNCHANGED <<rights, changes, tuples, content, ledger, remember, forget>>

(* Mutant: one row written for the subject is enough.                      *)
MutantWrittenFor(c) == \E m \in recall[c].refs : remember[m].for = recall[c].for

(* Without any source: written for this subject, nobody else.              *)
WrittenFor(c) == \A m \in recall[c].refs : remember[m].for = recall[c].for

(* The token's checks on the memory and its sources, the written_for rule, *)
(* decide_all; memory_read is recorded before the content leaves, and a    *)
(* journal that fails keeps it back (Stop).                                *)
RecallDecide(c) ==
  /\ recall[c].pc = "decide"
  /\ LET viewable == Viewable(rights, recall[c].for) IN
     \/ Drop(c)
     \/ /\ recall[c].sources = {} => WrittenFor(c)
        /\ CanAllow(recall[c].sources, viewable)
        /\ recall' = [recall EXCEPT ![c] =
             [@ EXCEPT !.pc = "returned", !.viewable = viewable]]
  /\ UNCHANGED <<rights, changes, tuples, content, ledger, remember, forget>>

-----------------------------------------------------------------------------
(* forget                                                                  *)

GoForget(f, pc) == forget' = [forget EXCEPT ![f] = [@ EXCEPT !.pc = pc]]
EndForget(f)    == forget' = [forget EXCEPT ![f] = [@ EXCEPT !.pc = "ended", !.found = {}]]

(* Token checks, ledger row, written_for and scope; no engine question.    *)
ForgetDecide(f) ==
  /\ forget[f].pc = "idle"
  /\ \/ EndForget(f)
     \/ \E m \in ledger, user \in Users :
          /\ remember[m].for = user
          /\ CanAllow({}, {})
          /\ forget' = [forget EXCEPT ![f] = [@ EXCEPT !.pc = "content", !.memory = m]]
  /\ UNCHANGED <<rights, changes, tuples, content, ledger, remember, recall>>

(* Mutant: a failing backend is ignored.                                   *)
MutantForgetContent(f) ==
  /\ forget[f].pc = "content"
  /\ content' \in {content, content \ {forget[f].memory}}
  /\ GoForget(f, "ledger")
  /\ UNCHANGED <<rights, changes, tuples, ledger, remember, recall>>

ForgetContent(f) ==
  /\ forget[f].pc = "content"
  /\ \/ content' = content \ {forget[f].memory} /\ GoForget(f, "ledger")
     \/ content' \in {content, content \ {forget[f].memory}} /\ EndForget(f)
  /\ UNCHANGED <<rights, changes, tuples, ledger, remember, recall>>

ForgetLedger(f) ==
  /\ forget[f].pc = "ledger"
  /\ \/ ledger' = ledger \ {forget[f].memory} /\ GoForget(f, "read")
     \/ ledger' \in {ledger, ledger \ {forget[f].memory}} /\ EndForget(f)
  /\ UNCHANGED <<rights, changes, tuples, content, remember, recall>>

(* The two read_tuples.                                                    *)
ForgetRead(f) ==
  /\ forget[f].pc = "read"
  /\ forget' = [forget EXCEPT ![f] =
       [@ EXCEPT !.pc = "tuples", !.found = tuples[forget[f].memory]]]
  /\ UNCHANGED <<rights, changes, tuples, content, ledger, remember, recall>>

(* OpenFGA refuses to delete tuples that are gone; without any there is    *)
(* nothing to do.                                                          *)
ForgetTuples(f) ==
  /\ forget[f].pc = "tuples"
  /\ LET m == forget[f].memory IN
     \/ /\ forget[f].found \subseteq tuples[m]
        /\ tuples' = [tuples EXCEPT ![m] = @ \ forget[f].found]
        /\ forget' = [forget EXCEPT ![f] = [@ EXCEPT !.pc = "forgotten", !.found = {}]]
     \/ /\ tuples' \in {tuples, [tuples EXCEPT ![m] = @ \ forget[f].found]}
        /\ EndForget(f)
  /\ UNCHANGED <<rights, changes, content, ledger, remember, recall>>

-----------------------------------------------------------------------------
(* Cancellation (no handler catches it), a failing journal, the death of   *)
(* the process.                                                            *)
Stop ==
  /\ \/ \E m \in Memories :
          /\ remember[m].pc \notin {"idle", "written", "ended"}
          /\ GoRemember(m, "ended") /\ UNCHANGED <<recall, forget>>
     \/ \E c \in Recalls :
          /\ recall[c].pc \notin {"idle", "returned", "dropped"}
          /\ Drop(c) /\ UNCHANGED <<remember, forget>>
     \/ \E f \in Forgets :
          /\ forget[f].pc \notin {"idle", "forgotten", "ended"}
          /\ EndForget(f) /\ UNCHANGED <<remember, recall>>
  /\ UNCHANGED <<rights, changes, tuples, content, ledger>>

Init ==
  /\ rights = Users \X Docs
  /\ changes = 0
  /\ tuples = [m \in Memories |-> {}]
  /\ content = {} /\ ledger = {}
  /\ remember = [m \in Memories |->
       [pc |-> "idle", for |-> CHOOSE u \in Users : TRUE, sources |-> {}]]
  /\ recall = [c \in Recalls |-> NoRecall("idle")]
  /\ forget = [f \in Forgets |->
       [pc |-> "idle", memory |-> CHOOSE m \in Memories : TRUE, found |-> {}]]

Next ==
  \/ Change
  \/ \E m \in Memories :
       \/ RememberDecide(m) \/ RememberTuples(m) \/ RememberStore(m) \/ RememberPut(m)
       \/ UndoContent(m) \/ UndoTuples(m) \/ UndoLedger(m)
  \/ \E c \in Recalls :
       \/ RecallSearch(c) \/ RecallLookup(c) \/ RecallSources(c) \/ RecallDecide(c)
  \/ \E f \in Forgets :
       \/ ForgetDecide(f) \/ ForgetContent(f) \/ ForgetLedger(f) \/ ForgetRead(f)
       \/ ForgetTuples(f)
  \/ Stop

Spec == Init /\ [][Next]_vars

-----------------------------------------------------------------------------
RememberCall == [pc : {"idle", "tuples", "store", "put", "undoContent", "undoTuples",
                       "undoLedger", "written", "ended"},
                 for : Users, sources : SUBSET Docs]
RecallCall == [pc : {"idle", "lookup", "sources", "decide", "returned", "dropped"},
               for : Users, refs : SUBSET Memories, todo : SUBSET Memories,
               sources : SUBSET Docs, viewable : SUBSET Docs]
ForgetCall == [pc : {"idle", "content", "ledger", "read", "tuples", "forgotten", "ended"},
               memory : Memories, found : SUBSET (Docs \cup {Writer})]

TypeOK ==
  /\ rights \subseteq Users \X Docs
  /\ changes \in Nat
  /\ tuples \in [Memories -> SUBSET (Docs \cup {Writer})]
  /\ content \subseteq Memories /\ ledger \subseteq Memories
  /\ remember \in [Memories -> RememberCall]
  /\ recall \in [Recalls -> RecallCall]
  /\ forget \in [Forgets -> ForgetCall]

(* What recall returns was written from documents the subject could all    *)
(* view when it was decided, even if the memory was being forgotten, or    *)
(* its writing undone, at the same time (service.py:281-288).              *)
RecallRespectsSources ==
  \A c \in Recalls : recall[c].pc = "returned" =>
    \A m \in recall[c].refs : remember[m].sources \subseteq recall[c].viewable

(* A hit without any source goes to the subject it was written for.        *)
PrivateHitsStayPrivate ==
  \A c \in Recalls :
    recall[c].pc = "returned" /\ (\A m \in recall[c].refs : remember[m].sources = {})
      => \A m \in recall[c].refs : remember[m].for = recall[c].for

(* Once a forget call has returned, none of the three stores holds         *)
(* anything of the memory, then and ever after, whatever the rollback of a *)
(* remember call did meanwhile (service.py:319-323).                       *)
ForgottenIsGone ==
  \A f \in Forgets : forget[f].pc = "forgotten" =>
    LET m == forget[f].memory IN m \notin content /\ m \notin ledger /\ tuples[m] = {}

(* Until somebody forgets it, a memory whose remember call returned is in  *)
(* all three stores; and a memory never has a ledger row unless the write  *)
(* of its provenance came first (service.py:110-132).                      *)
Touched(m) == \E f \in Forgets : forget[f].memory = m /\ forget[f].pc # "idle"

WrittenIsWhole ==
  \A m \in Memories :
    /\ remember[m].pc = "written" /\ ~Touched(m) =>
         m \in content /\ m \in ledger /\ tuples[m] = Provenance(m)
    /\ m \in ledger /\ remember[m].pc \in {"undoContent", "written"} /\ ~Touched(m)
         => tuples[m] = Provenance(m)

(* "Writing a memory with an empty `derived_from` [...] It is readable by  *)
(* `written_for` only." (ADR 0007)                                         *)
SourcelessIsPrivate ==
  \A c \in Recalls : recall[c].pc = "returned" =>
    \A m \in recall[c].refs : remember[m].sources = {} => remember[m].for = recall[c].for

-----------------------------------------------------------------------------
(* The inductive invariant.  A memory whose writing has begun keeps its    *)
(* owner and its sources; once the writing can add nothing more, the three *)
(* stores only lose what they hold of it.                                  *)

Begun(m)   == remember[m].pc # "idle"
Settled(m) == remember[m].pc \notin {"idle", "tuples", "store", "put"}

RememberKnows(m) ==
  /\ tuples[m] \subseteq Provenance(m)
  /\ ~Begun(m) => tuples[m] = {}
  /\ m \in content => Begun(m)
  /\ m \in ledger => Settled(m)
  /\ ~Touched(m) =>
       /\ remember[m].pc \in {"store", "put", "undoContent", "written"} =>
            tuples[m] = Provenance(m)
       /\ remember[m].pc \in {"put", "written"} => m \in content
       /\ remember[m].pc = "written" => m \in ledger

(* A recall has asked for the sources of every row but those still to do,  *)
(* and for nothing else.                                                   *)
RecallKnows(c) ==
  /\ \A m \in recall[c].refs : Begun(m)
  /\ recall[c].pc \in {"sources", "decide", "returned"} =>
       \A m \in recall[c].refs :
         m \in recall[c].todo \/ remember[m].sources \subseteq recall[c].sources
  /\ recall[c].pc \in {"decide", "returned"} => recall[c].todo = {}
  /\ recall[c].todo \subseteq recall[c].refs
  /\ recall[c].pc = "lookup" => recall[c].sources = {}
  /\ \A d \in recall[c].sources : \E m \in recall[c].refs : d \in remember[m].sources
  /\ recall[c].pc = "returned" =>
       /\ recall[c].sources \subseteq recall[c].viewable
       /\ recall[c].sources = {} => WrittenFor(c)

(* A forget works on a memory that nobody writes any more, and what it has *)
(* deleted stays deleted.                                                  *)
ForgetKnows(f) ==
  LET m == forget[f].memory IN
  /\ forget[f].pc \in {"content", "ledger", "read", "tuples", "forgotten"} => Settled(m)
  /\ forget[f].pc \in {"ledger", "read", "tuples", "forgotten"} => m \notin content
  /\ forget[f].pc \in {"read", "tuples", "forgotten"} => m \notin ledger
  /\ forget[f].pc = "tuples" => tuples[m] \subseteq forget[f].found
  /\ forget[f].pc = "forgotten" => tuples[m] = {}

IInv ==
  /\ TypeOK
  /\ \A m \in Memories : RememberKnows(m)
  /\ \A c \in Recalls : RecallKnows(c)
  /\ \A f \in Forgets : ForgetKnows(f)
=============================================================================
