----------------------------- MODULE ReadFilter -----------------------------
(***************************************************************************)
(* filter_items (read/filter.py): one call of the read filter, with        *)
(* Decider.decide_each and OpenFgaEngine.batch_check under it, while the   *)
(* subject's rights change.  Documents are numbered in the order in which  *)
(* their references sort.  Calls share nothing but the engine, so one call *)
(* stands for any.                                                         *)
(***************************************************************************)
EXTENDS Decider, Naturals, FiniteSets, SequencesExt

CONSTANTS
  Docs,                \* the documents, numbered
  Invalid,             \* an item without a well-formed document reference
  Policy,              \* what the policies say about reading each document
  BatchLimit,          \* BATCH_LIMIT of the decider
  ListThreshold,       \* LIST_OBJECTS_THRESHOLD
  MaxItems,            \* bound on the items of a call
  MaxChanges           \* bound on changes of rights during the call

ASSUME FilterConstants ==
  /\ Docs \subseteq Nat /\ Invalid \notin Docs
  /\ Policy \in [Docs -> Outcomes]
  /\ BatchLimit \in Nat \ {0} /\ ListThreshold \in Nat
  /\ MaxItems \in Nat /\ MaxChanges \in Nat

VARIABLES
  rights,     \* documents the subject may view, in OpenFGA
  changes,    \* changes of rights so far
  call,       \* the call: its arguments and its locals
  events,     \* read_filtered events of the journal
  viewable,   \* documents viewable at some moment of the call
  always,     \* documents viewable ever since the call began
  unanswered  \* documents a call to the engine was about and gave no answer for

filterVars == <<rights, changes, call, events, viewable, always, unanswered>>

Items      == SeqOf(Docs \cup {Invalid}, MaxItems)
Strategies == {"auto", "batch", "list_objects"}

NoCall == [pc |-> "idle", items |-> <<>>, scope |-> {}, strategy |-> "auto", refused |-> {},
           todo |-> <<>>, allowed |-> {}, kept |-> <<>>, dropped |-> <<>>]

Go(pc) == call' = [call EXCEPT !.pc = pc]

Change ==
  /\ changes < MaxChanges /\ call.pc \notin {"idle", "returned", "raised"}
  /\ changes' = changes + 1
  /\ \E d \in Docs : rights' = IF d \in rights THEN rights \ {d} ELSE rights \cup {d}
  /\ viewable' = viewable \cup rights' /\ always' = always \cap rights'
  /\ UNCHANGED <<call, events, unanswered>>

(* Without items the call returns at once, and nothing is journaled.       *)
FilterItems ==
  /\ call.pc = "idle"
  /\ \E items \in Items, scope \in SUBSET Docs, strategy \in Strategies :
       call' = [NoCall EXCEPT !.pc = IF items = <<>> THEN "returned" ELSE "permits",
                              !.items = items, !.scope = scope, !.strategy = strategy]
  /\ viewable' = rights /\ always' = rights
  /\ UNCHANGED <<rights, changes, events, unanswered>>

(* _reference: the references of the items, each once.                     *)
DocumentRefs(items) == {items[i] : i \in DOMAIN items} \ {Invalid}

Choose(strategy, count) ==
  IF strategy # "auto" THEN strategy
  ELSE IF count > ListThreshold THEN "list_objects" ELSE "batch"

(* decide_each: only what the scope covers is put to the engine.           *)
ToCheck(candidates, scope) == {d \in candidates : d \in scope}

(* A finite set of numbers as the sequence in which they increase.         *)
Sorted(S) ==
  CHOOSE s \in [1 .. Cardinality(S) -> S] :
    /\ Range(s) = S
    /\ \A i, j \in DOMAIN s : i < j => s[i] < s[j]

(* What the token refuses, or does not mention, is never a candidate.      *)
AskPermits ==
  /\ call.pc = "permits"
  /\ \E refused \in SUBSET DocumentRefs(call.items) :
       LET candidates == DocumentRefs(call.items) \ refused
           chosen     == Choose(call.strategy, Cardinality(candidates))
       IN  call' = [call EXCEPT
             !.refused = refused,
             !.todo    = Sorted(IF chosen = "batch" THEN ToCheck(candidates, call.scope)
                                                    ELSE candidates),
             !.pc      = IF candidates = {} THEN "finish"
                         ELSE IF chosen = "batch" THEN "batch" ELSE "list"]
  /\ UNCHANGED <<rights, changes, events, viewable, always, unanswered>>

(* _via_list_objects: a failure denies every candidate; what is listed is  *)
(* put to decide_each.                                                     *)
ListObjects ==
  /\ call.pc = "list"
  /\ \/ /\ call' = [call EXCEPT !.pc = "batch", !.todo =
             Sorted(ToCheck(Range(call.todo) \cap rights, call.scope))]
        /\ UNCHANGED unanswered
     \/ /\ Go("finish")
        /\ unanswered' = unanswered \cup Range(call.todo)
  /\ UNCHANGED <<rights, changes, events, viewable, always>>

Chunk(todo) == SubSeq(todo, 1, IF Len(todo) < BatchLimit THEN Len(todo) ELSE BatchLimit)

(* Mutant: only the first batch is asked.                                  *)
MutantRest(todo) == <<>>

Rest(todo) == SubSeq(todo, Len(Chunk(todo)) + 1, Len(todo))

(* The replies to a chunk come in any order, tagged with the position they *)
(* answer; an item in error, or left out, is not among them.               *)
Responses(chunk) ==
  {r \in SeqOf((DOMAIN chunk) \X BOOLEAN, Len(chunk)) :
     /\ \A i, j \in DOMAIN r : i # j => r[i][1] # r[j][1]
     /\ \A i \in DOMAIN r : r[i][2] = (chunk[r[i][1]] \in rights)}

(* Mutant: the replies are taken in the order in which they arrive.        *)
MutantRelated(chunk, response) == {chunk[i] : i \in {j \in DOMAIN response : response[j][2]}}

(* Mutant: a batch in which one reply is missing counts as failed.         *)
MutantWholeBatch(chunk, response) ==
  {chunk[i] : i \in {j \in DOMAIN chunk :
     Len(response) = Len(chunk) /\ \E k \in DOMAIN response : response[k] = <<j, TRUE>>}}

(* batch_check: by correlation id, unanswered items are not related.       *)
Related(chunk, response) ==
  {chunk[i] : i \in {j \in DOMAIN chunk : \E k \in DOMAIN response : response[k] = <<j, TRUE>>}}

(* The documents of a chunk no reply is about.                             *)
Missing(chunk, response) ==
  {chunk[i] : i \in {j \in DOMAIN chunk : \A k \in DOMAIN response : response[k][1] # j}}

(* One batch of decide_each; a failure denies the whole chunk, and the     *)
(* next one is asked all the same.                                         *)
CheckChunk ==
  /\ call.pc = "batch" /\ call.todo # <<>>
  /\ LET chunk == Chunk(call.todo) IN
     \E answered \in BOOLEAN, response \in Responses(chunk) :
       LET related == Related(chunk, response) IN
       /\ call' = [call EXCEPT
            !.todo = Rest(call.todo),
            !.allowed = @ \cup {d \in Range(chunk) :
              EvaluateEach(d \in call.scope, d, related, answered, Policy[d]) = "ALLOW"}]
       /\ unanswered' = unanswered \cup
            IF answered THEN Missing(chunk, response) ELSE Range(chunk)
  /\ UNCHANGED <<rights, changes, events, viewable, always>>

EndBatch ==
  /\ call.pc = "batch" /\ call.todo = <<>>
  /\ Go("finish")
  /\ UNCHANGED <<rights, changes, events, viewable, always, unanswered>>

(* The loop over the items: those that are chosen, one by one, in the      *)
(* order in which they came.                                               *)
Selected(items, chosen) ==
  LET at == Sorted({i \in DOMAIN items : items[i] \in chosen})
  IN  [k \in DOMAIN at |-> items[at[k]]]

Select ==
  /\ call.pc = "finish"
  /\ call' = [call EXCEPT
       !.pc = "record", !.kept = Selected(call.items, call.allowed),
       !.dropped = Selected(call.items, Range(call.items) \ call.allowed)]
  /\ UNCHANGED <<rights, changes, events, viewable, always, unanswered>>

(* The references the event is about: found again among those of the items. *)
KeptRefs(items, allowed) == SelectSeq(items, LAMBDA d : d \in allowed)

SummaryEvent(keptRefs, dropped) ==
  [outcome |-> IF keptRefs = <<>> THEN "DENY" ELSE "ALLOW",
   kept |-> Len(keptRefs), dropped |-> Len(dropped)]

(* The summary is journaled before anything is returned.                   *)
Finish ==
  /\ call.pc = "record"
  /\ events' = Append(events, SummaryEvent(KeptRefs(call.items, call.allowed), call.dropped))
  /\ Go("returned")
  /\ UNCHANGED <<rights, changes, viewable, always, unanswered>>

(* The token service or the journal raises; the caller gets nothing.       *)
Raise ==
  /\ call.pc \in {"permits", "batch", "record"}
  /\ call' = [NoCall EXCEPT !.pc = "raised"]
  /\ UNCHANGED <<rights, changes, events, viewable, always, unanswered>>

FilterInit ==
  /\ rights \in SUBSET Docs
  /\ changes = 0
  /\ call = NoCall
  /\ events = <<>>
  /\ viewable = {} /\ always = {} /\ unanswered = {}

FilterNext ==
  \/ Change \/ FilterItems \/ AskPermits \/ ListObjects \/ CheckChunk \/ EndBatch
  \/ Select \/ Finish \/ Raise

FilterSpec == FilterInit /\ [][FilterNext]_filterVars

-----------------------------------------------------------------------------
CallPcs == {"idle", "permits", "list", "batch", "finish", "record", "returned", "raised"}
ItemSeq == Seq(Docs \cup {Invalid})

FilterTypeOK ==
  /\ rights \subseteq Docs /\ viewable \subseteq Docs
  /\ always \subseteq Docs /\ unanswered \subseteq Docs
  /\ call \in [pc : CallPcs, items : ItemSeq, scope : SUBSET Docs, strategy : Strategies,
               refused : SUBSET Docs, todo : Seq(Docs), allowed : SUBSET Docs,
               kept : ItemSeq, dropped : ItemSeq]

(* Every document kept was viewable at some moment of the call, the scope  *)
(* covers it, the token does not refuse it and the policies allow it,      *)
(* whichever strategy was chosen, in whatever order replies arrived and    *)
(* whichever of them were lost (filter.py:72-138, decider.py:144-211).     *)
KeptWasAllowed ==
  \A d \in Range(call.kept) :
    d \in viewable /\ d \in call.scope /\ d \notin call.refused /\ Policy[d] = "ALLOW"

(* The reference: what a call ought to keep, item by item.                 *)
Ought(d) == d \in rights /\ d \in call.scope /\ d \notin call.refused /\ Policy[d] = "ALLOW"

(* No right changed during the call, and the engine answered every time.   *)
Undisturbed == always = viewable /\ unanswered = {}

(* When nothing failed and no right changed, both strategies and every     *)
(* number of batches keep exactly the items the definition asks for, in    *)
(* their order, duplicates included.                                       *)
StrategiesAgree ==
  Undisturbed /\ call.pc = "returned" =>
    \E at \in [DOMAIN call.kept -> DOMAIN call.items] :
      /\ \A i, j \in DOMAIN at : i < j => at[i] < at[j]
      /\ Range(at) = {i \in DOMAIN call.items : call.items[i] \in Docs /\ Ought(call.items[i])}
      /\ \A k \in DOMAIN at : call.kept[k] = call.items[at[k]]

(* A document the subject may view all along, in scope, not refused and    *)
(* allowed by the policies, about which the engine answered.               *)
Sure(d) ==
  /\ d \in always /\ d \notin unanswered
  /\ d \in call.scope /\ d \notin call.refused /\ Policy[d] = "ALLOW"

(* A failure costs only what it is about: whatever batches fail, whatever  *)
(* replies are missing and whatever other rights change meanwhile, a call  *)
(* that returns keeps every item of whose document the answer came         *)
(* (filter.py:106-124, decider.py:176-192, engine.py:82-102).              *)
AnsweredAreKept ==
  call.pc = "returned" =>
    \A d \in Docs \cap Range(call.items) : Sure(d) => d \in Range(call.kept)
=============================================================================
