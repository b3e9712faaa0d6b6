---------------------------- MODULE ConnectorSync ----------------------------
(***************************************************************************)
(* Connector reconciliation (read/connectors/base.py) run by `hoc sync`    *)
(* (cli/main.py), the tuple writes of the engine adapter                   *)
(* (engines/openfga/engine.py) and the freshness guard in front of every   *)
(* check.                                                                  *)
(*                                                                         *)
(* reconcile compares a snapshot of the source with the snapshot saved by  *)
(* the last completed run, never with what OpenFGA holds, and it can stop  *)
(* between any two of its calls.  One run at a time: the CronJob of the    *)
(* chart has concurrencyPolicy Forbid, and nothing else keeps runs apart.  *)
(*                                                                         *)
(* OpenFGA is external: a write of tuples some of which exist, or a delete *)
(* of tuples some of which do not, is refused as a whole (_write_tuples in *)
(* cli/main.py works around the first), and a reply may be lost.           *)
(***************************************************************************)
EXTENDS Naturals, FiniteSets

CONSTANTS
  Connectors, Tuples,
  Owner,         \* the connector whose source a tuple belongs to
  Checks,        \* check calls, each used once
  ChunkSize,     \* tuples in a write (100)
  Retries,       \* OpenFgaEngine._retries
  MaxStaleness,
  MaxClock, MaxChanges,  \* bounds: the clock; changes at the sources
  Nobody         \* no connector

ASSUME SyncConstants ==
  /\ Owner \in [Tuples -> Connectors]
  /\ Connectors # {} /\ Tuples # {} /\ Nobody \notin Connectors
  /\ ChunkSize \in Nat \ {0}
  /\ {Retries, MaxStaleness, MaxClock, MaxChanges} \subseteq Nat

VARIABLES
  clock,
  source,   \* what the sources grant at this instant
  changes,  \* how often a source changed
  gone,     \* when each tuple was last taken away at its source
  fga,      \* the tuples in OpenFGA
  state,    \* connector_state_v2: the snapshot and time of the last sync
  run,      \* the reconcile call in progress
  check,    \* the check calls
  clean     \* history: no run has stopped between its first write and its save

vars == <<clock, source, changes, gone, fga, state, run, check, clean>>

Of(k, tuples) == {t \in tuples : Owner[t] = k}

NoRun == [pc |-> "idle", connector |-> Nobody, desired |-> {}, taken |-> 0, add |-> {},
          remove |-> {}, chunk |-> {}, attempt |-> 0, at |-> 0]

-----------------------------------------------------------------------------
(* The source changes whenever it likes.                                   *)
Change(t) ==
  /\ changes < MaxChanges
  /\ changes' = changes + 1
  /\ IF t \in source
     THEN source' = source \ {t} /\ gone' = [gone EXCEPT ![t] = clock]
     ELSE source' = source \cup {t} /\ UNCHANGED gone
  /\ UNCHANGED <<clock, fga, state, run, check, clean>>

-----------------------------------------------------------------------------
(* reconcile                                                               *)

(* Registration: a connector that never synced is stale.                   *)
Register(k) ==
  /\ run.pc = "idle"
  /\ run' = [NoRun EXCEPT !.pc = "snapshot", !.connector = k]
  /\ state' = IF state[k].row = "none"
              THEN [state EXCEPT ![k] = [@ EXCEPT !.row = "registered"]] ELSE state
  /\ UNCHANGED <<clock, source, changes, gone, fga, check, clean>>

TakeSnapshot ==
  /\ run.pc = "snapshot"
  /\ run' = [run EXCEPT !.pc = "load", !.desired = Of(run.connector, source), !.taken = clock]
  /\ UNCHANGED <<clock, source, changes, gone, fga, state, check, clean>>

(* Mutant: the deletions are forgotten.                                    *)
MutantDiff(desired, previous) == [add |-> desired \ previous, remove |-> {}]

Diff(desired, previous) ==
  [add |-> desired \ previous, remove |-> previous \ desired]

(* load_tuples returns nothing before the first sync.                      *)
LoadPrevious ==
  /\ run.pc = "load"
  /\ LET diff == Diff(run.desired, state[run.connector].tuples) IN
     run' = [run EXCEPT !.pc = "chunk", !.add = diff.add, !.remove = diff.remove]
  /\ UNCHANGED <<clock, source, changes, gone, fga, state, check, clean>>

(* Mutant: the state is advanced before the writes.                        *)
MutantNextChunk ==
  /\ run.pc = "chunk"
  /\ run' = [run EXCEPT !.pc = "stamp"]
  /\ UNCHANGED <<clock, source, changes, gone, fga, state, check, clean>>

(* _chunks: additions first, then removals, then the clock is read.        *)
NextChunk ==
  /\ run.pc = "chunk"
  /\ LET rest == IF run.add # {} THEN run.add ELSE run.remove
         size == IF Cardinality(rest) < ChunkSize THEN Cardinality(rest) ELSE ChunkSize
     IN  IF rest = {}
         THEN run' = [run EXCEPT !.pc = "stamp"]
         ELSE \E chunk \in SUBSET rest :
                /\ Cardinality(chunk) = size
                /\ run' = [run EXCEPT !.pc = IF run.add # {} THEN "write" ELSE "delete",
                               !.chunk = chunk, !.attempt = 0]
  /\ UNCHANGED <<clock, source, changes, gone, fga, state, check, clean>>

(* What OpenFGA does with one request.                                     *)
Accepts ==
  IF run.pc = "write" THEN run.chunk \cap fga = {} ELSE run.chunk \subseteq fga

Applied ==
  IF run.pc = "write" THEN fga \cup run.chunk ELSE fga \ run.chunk

(* _call: an attempt that succeeds.                                        *)
Apply ==
  /\ run.pc \in {"write", "delete"}
  /\ Accepts
  /\ fga' = Applied
  /\ run' = [run EXCEPT !.pc = "chunk", !.add = @ \ run.chunk, !.remove = @ \ run.chunk,
                 !.chunk = {}, !.attempt = 0]
  /\ UNCHANGED <<clock, source, changes, gone, state, check, clean>>

(* _call: an attempt that raises, refused or lost on the way there or on   *)
(* the way back, is repeated Retries times.                                *)
Retry ==
  /\ run.pc \in {"write", "delete"}
  /\ run.attempt < Retries
  /\ \/ fga' = fga
     \/ Accepts /\ fga' = Applied
  /\ run' = [run EXCEPT !.attempt = @ + 1]
  /\ UNCHANGED <<clock, source, changes, gone, state, check, clean>>

(* _call: the last attempt raises, out of reconcile; cmd_sync logs it.     *)
GiveUp ==
  /\ run.pc \in {"write", "delete"}
  /\ run.attempt = Retries
  /\ \/ fga' = fga
     \/ Accepts /\ fga' = Applied
  /\ run' = NoRun
  /\ clean' = FALSE
  /\ UNCHANGED <<clock, source, changes, gone, state, check>>

Stamp ==
  /\ run.pc = "stamp"
  /\ run' = [run EXCEPT !.pc = "save", !.at = clock]
  /\ UNCHANGED <<clock, source, changes, gone, fga, state, check, clean>>

Save ==
  /\ run.pc = "save"
  /\ state' = [state EXCEPT ![run.connector] =
       [row |-> "synced", tuples |-> run.desired, synced |-> run.at,
        taken |-> run.taken]]
  /\ run' = [run EXCEPT !.pc = "journal"]
  /\ UNCHANGED <<clock, source, changes, gone, fga, check, clean>>

(* connector_synced is recorded, or that fails: the run is over.           *)
Journal ==
  /\ run.pc = "journal"
  /\ run' = NoRun
  /\ UNCHANGED <<clock, source, changes, gone, fga, state, check, clean>>

(* A failing snapshot or state store, or the death of the process, with a  *)
(* request possibly on its way.                                            *)
Stop ==
  /\ run.pc \notin {"idle", "journal"}
  /\ \/ fga' = fga
     \/ run.pc \in {"write", "delete"} /\ Accepts /\ fga' = Applied
  /\ run' = NoRun
  /\ clean' = (clean /\ run.pc \in {"snapshot", "load"})
  /\ UNCHANGED <<clock, source, changes, gone, state, check>>

-----------------------------------------------------------------------------
(* OpenFgaEngine.check: _guard, then the question.                         *)

(* Mutant: a connector that never synced is skipped.                       *)
MutantFresh(k) ==
  state[k].row = "synced" => clock <= state[k].synced + MaxStaleness

(* assert_fresh, for one connector.                                        *)
Fresh(k) ==
  \/ state[k].row = "none"
  \/ state[k].row = "synced" /\ clock <= state[k].synced + MaxStaleness

(* How long the last sync took from its snapshot to its time stamp.        *)
Lag(k) == state[k].synced - state[k].taken

Guard(c) ==
  /\ check[c].pc = "idle"
  /\ \E t \in Tuples :
       check' = [check EXCEPT ![c] =
         IF \A k \in Connectors : Fresh(k)
         THEN [pc |-> "ask", tuple |-> t, at |-> clock, lag |-> Lag(Owner[t])]
         ELSE [@ EXCEPT !.pc = "denied"]]
  /\ UNCHANGED <<clock, source, changes, gone, fga, state, run, clean>>

Ask(c) ==
  /\ check[c].pc = "ask"
  /\ check' = [check EXCEPT ![c] =
       [@ EXCEPT !.pc = IF check[c].tuple \in fga THEN "allowed" ELSE "denied"]]
  /\ UNCHANGED <<clock, source, changes, gone, fga, state, run, clean>>

Tick ==
  /\ clock < MaxClock
  /\ clock' = clock + 1
  /\ UNCHANGED <<source, changes, gone, fga, state, run, check, clean>>

-----------------------------------------------------------------------------
Init ==
  /\ clock = 0
  /\ source \in SUBSET Tuples
  /\ changes = 0
  /\ gone = [t \in Tuples |-> 0]
  /\ fga = {}
  /\ state = [k \in Connectors |-> [row |-> "none", tuples |-> {}, synced |-> 0, taken |-> 0]]
  /\ run = NoRun
  /\ check = [c \in Checks |->
       [pc |-> "idle", tuple |-> CHOOSE t \in Tuples : TRUE, at |-> 0, lag |-> 0]]
  /\ clean = TRUE

Advance ==
  \/ \E k \in Connectors : Register(k)
  \/ TakeSnapshot \/ LoadPrevious \/ NextChunk \/ Apply
  \/ Retry \/ GiveUp \/ Stamp \/ Save \/ Journal

Next ==
  \/ \E t \in Tuples : Change(t)
  \/ Advance \/ Stop
  \/ \E c \in Checks : Guard(c) \/ Ask(c)
  \/ Tick

Spec == Init /\ [][Next]_vars

(* `hoc sync` reconciles again and again (cmd_sync, run_loop), and every   *)
(* request is answered, retried or given up.                               *)
FairSpec == Spec /\ WF_vars(Advance)

-----------------------------------------------------------------------------
Rows == [row : {"none", "registered", "synced"}, tuples : SUBSET Tuples, synced : Nat,
         taken : Nat]
Runs == [pc : {"idle", "snapshot", "load", "chunk", "write", "delete", "stamp", "save", "journal"},
         connector : Connectors \cup {Nobody}, desired : SUBSET Tuples, taken : Nat,
         add : SUBSET Tuples, remove : SUBSET Tuples, chunk : SUBSET Tuples,
         attempt : 0..Retries, at : Nat]
CheckCalls == [pc : {"idle", "ask", "allowed", "denied"}, tuple : Tuples, at : Nat, lag : Nat]

TypeOK ==
  /\ clock \in Nat /\ changes \in Nat
  /\ source \subseteq Tuples /\ fga \subseteq Tuples
  /\ gone \in [Tuples -> Nat]
  /\ state \in [Connectors -> Rows]
  /\ run \in Runs
  /\ check \in [Checks -> CheckCalls]
  /\ clean \in BOOLEAN

(* A grant that a completed sync applied and the next one finds taken away *)
(* is gone from OpenFGA when that one is saved, whatever failed in between *)
(* (base.py:111-116).                                                      *)
RemovalsBeforeSave ==
  [][\A k \in Connectors :
       state'[k] # state[k]
         => fga \cap (state[k].tuples \ state'[k].tuples) = {}]_vars

(* Threat T8: what a check allows was still granted at its source no       *)
(* longer before the guard than max_staleness and the duration of the last *)
(* sync, which is counted from its end (base.py:117, freshness.py).        *)
AllowWasTrue ==
  \A c \in Checks : check[c].pc = "allowed" /\ clean =>
    \/ check[c].tuple \in source
    \/ check[c].at <= gone[check[c].tuple] + MaxStaleness + check[c].lag

Saved  == run.pc = "journal"
InLine == Of(run.connector, fga) = run.desired

(* The diff against the last snapshot is as good as one against OpenFGA,   *)
(* as long as no run stopped half way.                                     *)
CleanRunsInLine == clean /\ Saved => InLine

(* With the sources at rest, and syncs that keep completing although some  *)
(* cannot start, OpenFGA ends up in line.                                  *)
Converges ==
  []clean /\ (\A k \in Connectors : []<>(Saved /\ run.connector = k)) => <>[](fga = source)

(* "Bring OpenFGA in line with the connector's snapshot. [...] state is    *)
(* only advanced after every write succeeded" (base.py:102-103)            *)
ReconcileBringsInLine == Saved => InLine

-----------------------------------------------------------------------------
(* The inductive invariant.                                                *)

(* What a snapshot granted is still granted, or was taken away since.      *)
SnapshotHolds(tuples, taken) == \A t \in tuples : t \in source \/ taken <= gone[t]

StateKnows(k) ==
  LET s == state[k] IN
  /\ Of(k, s.tuples) = s.tuples
  /\ s.taken <= s.synced /\ s.synced <= clock
  /\ s.tuples # {} => s.row = "synced"
  /\ SnapshotHolds(s.tuples, s.taken)

(* The part of the run in which it writes.                                 *)
Midway == run.pc \in {"chunk", "write", "delete", "stamp", "save"}

(* The diff is a part of the two snapshots' difference; what has left the  *)
(* list of removals has left OpenFGA.                                      *)
RunKnows ==
  LET k == run.connector
      previous == state[k].tuples
  IN
  /\ run.pc # "idle" => k \in Connectors /\ state[k].row # "none"
  /\ run.pc \notin {"idle", "snapshot"} =>
       /\ Of(k, run.desired) = run.desired
       /\ state[k].taken <= run.taken /\ run.taken <= clock
       /\ SnapshotHolds(run.desired, run.taken)
  /\ Midway =>
       /\ run.add \subseteq run.desired \ previous
       /\ run.remove \subseteq previous \ run.desired
       /\ fga \cap ((previous \ run.desired) \ run.remove) = {}
  /\ run.pc = "write" => run.chunk \subseteq run.add
  /\ run.pc = "delete" => run.chunk \subseteq run.remove /\ run.add = {}
  /\ run.pc \in {"stamp", "save"} => run.add = {} /\ run.remove = {}
  /\ run.pc = "save" => run.taken <= run.at /\ run.at <= clock
  /\ run.pc = "journal" => run.desired = previous

(* While no run has stopped half way, OpenFGA holds the saved snapshot of  *)
(* a connector, and during its run the snapshot as far as it is written,   *)
(* with or without the request under way.                                  *)
LineKnows(k) ==
  clean =>
    IF Midway /\ run.connector = k
    THEN LET written == (run.desired \ run.add) \cup run.remove IN
         \/ Of(k, fga) = written
         \/ run.pc = "write" /\ Of(k, fga) = written \cup run.chunk
         \/ run.pc = "delete" /\ Of(k, fga) = written \ run.chunk
    ELSE Of(k, fga) = state[k].tuples

(* No snapshot that OpenFGA may still show to a check that has passed the  *)
(* guard is older than the guard let through.                              *)
CheckKnows(c) ==
  LET x == check[c]
      k == Owner[x.tuple]
  IN
  /\ x.at <= clock
  /\ x.pc = "ask" =>
       /\ state[k].row = "synced" => x.at <= state[k].taken + MaxStaleness + x.lag
       /\ run.connector = k /\ run.pc \notin {"idle", "snapshot"} =>
            x.at <= run.taken + MaxStaleness + x.lag
  /\ x.pc = "allowed" /\ clean =>
       x.tuple \in source \/ x.at <= gone[x.tuple] + MaxStaleness + x.lag

IInv ==
  /\ TypeOK
  /\ \A k \in Connectors : StateKnows(k) /\ LineKnows(k)
  /\ RunKnows
  /\ \A c \in Checks : CheckKnows(c)
=============================================================================
