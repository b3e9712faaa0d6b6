------------------------ MODULE ConnectorSyncProofs ------------------------
(***************************************************************************)
(* Proofs about the reconciliation of connectors, for any connectors,      *)
(* tuples, chunk size, retries, staleness bound and numbers of checks.     *)
(***************************************************************************)
EXTENDS ConnectorSync, TLAPS

-----------------------------------------------------------------------------
(* What the parts of the invariant depend on                               *)

(* Nothing is being reconciled.                                            *)
LEMMA NoRunTyped == NoRun \in Runs /\ NoRun.pc = "idle" /\ NoRun.connector = Nobody
BY SyncConstants DEF NoRun, Runs

(* A connector that is not touched keeps what is known of its row.         *)
LEMMA StateKept ==
  ASSUME IInv, NEW k \in Connectors, state'[k] = state[k], UNCHANGED <<clock, source, gone>>
  PROVE  StateKnows(k)'
<1>1. StateKnows(k)
  BY DEF IInv
<1>2. SnapshotHolds(state[k].tuples, state[k].taken) => SnapshotHolds(state[k].tuples, state[k].taken)'
  BY DEF SnapshotHolds
<1>. QED
  BY <1>1, <1>2 DEF StateKnows, Of

(* A check that does not move keeps what it knows: the run goes on, ends,  *)
(* begins, or takes its snapshot now.                                      *)
LEMMA ChecksKept ==
  ASSUME IInv, run' \in Runs, UNCHANGED <<clock, source, gone, state, check>>, clean' => clean,
         \/ run'.pc \in {"idle", "snapshot"}
         \/ run'.connector = run.connector /\ run'.taken = clock
         \/ /\ run'.connector = run.connector /\ run'.taken = run.taken
            /\ run.pc \notin {"idle", "snapshot"}
  PROVE  \A c \in Checks : CheckKnows(c)'
<1> SUFFICES ASSUME NEW c \in Checks
             PROVE  CheckKnows(c)'
  OBVIOUS
<1>1. /\ CheckKnows(c) /\ check[c].at \in Nat /\ check[c].lag \in Nat /\ clock \in Nat
      /\ MaxStaleness \in Nat
  BY SyncConstants DEF IInv, TypeOK, CheckCalls
<1>. QED
  BY <1>1 DEF CheckKnows

(* The lines of the other connectors do not depend on the run.             *)
LEMMA OtherLine ==
  ASSUME IInv, NEW k \in Connectors, run.connector # k \/ ~Midway,
         run'.connector # k \/ ~Midway',
         state'[k].tuples = state[k].tuples, Of(k, fga') = Of(k, fga), clean' => clean
  PROVE  LineKnows(k)'
<1>1. LineKnows(k)
  BY DEF IInv
<1>2. Of(k, fga)' = Of(k, fga')
  BY DEF Of
<1>. QED
  BY <1>1, <1>2 DEF LineKnows

-----------------------------------------------------------------------------
(* The sources and the clock                                               *)

(* A source changes: what was granted and is taken away is gone from now.  *)
LEMMA ChangeKeeps ==
  ASSUME IInv, NEW t \in Tuples, Change(t)
  PROVE  IInv'
<1>0. /\ TypeOK /\ RunKnows /\ run \in Runs
      /\ UNCHANGED <<clock, fga, state, run, check, clean>>
  BY DEF IInv, TypeOK, Change
<1>1. /\ source' \subseteq Tuples /\ gone' \in [Tuples -> Nat] /\ changes' \in Nat
      /\ \A u \in Tuples : \/ gone'[u] = gone[u] /\ (u \in source => u \in source')
                           \/ gone'[u] = clock
  <2>1. CASE t \in source
    BY <1>0, <2>1 DEF Change, TypeOK
  <2>2. CASE t \notin source
    BY <1>0, <2>2 DEF Change, TypeOK
  <2>. QED
    BY <2>1, <2>2
<1>2. TypeOK'
  BY <1>0, <1>1 DEF TypeOK
<1>3. ASSUME NEW S \in SUBSET Tuples, NEW n \in Nat, n <= clock, SnapshotHolds(S, n)
      PROVE  \A u \in S : u \in source' \/ n <= gone'[u]
  BY <1>0, <1>1, <1>3 DEF SnapshotHolds, TypeOK
<1>4. ASSUME NEW k \in Connectors
      PROVE  StateKnows(k)' /\ LineKnows(k)'
  <2>1. StateKnows(k) /\ LineKnows(k) /\ state[k] \in Rows /\ clock \in Nat
    BY <1>0 DEF IInv, TypeOK
  <2>2. /\ state[k].tuples \in SUBSET Tuples /\ state[k].taken \in Nat /\ state[k].synced \in Nat
        /\ state[k].taken <= clock
    BY <2>1 DEF Rows, StateKnows
  <2>3. SnapshotHolds(state[k].tuples, state[k].taken)'
    BY <1>0, <1>3, <2>1, <2>2 DEF SnapshotHolds, StateKnows
  <2>4. StateKnows(k)'
    BY <1>0, <2>1, <2>3 DEF StateKnows, Of
  <2>5. LineKnows(k)'
    BY <1>0, <2>1 DEF LineKnows, Midway, Of
  <2>. QED
    BY <2>4, <2>5
<1>5. RunKnows'
  <2>1. run.desired \in SUBSET Tuples /\ run.taken \in Nat
    BY <1>0 DEF Runs
  <2>2. run.pc \notin {"idle", "snapshot"} => SnapshotHolds(run.desired, run.taken)'
    BY <1>0, <1>3, <2>1 DEF SnapshotHolds, RunKnows
  <2>. QED
    BY <1>0, <2>2 DEF RunKnows, Midway, Of
<1>6. ASSUME NEW c \in Checks
      PROVE  CheckKnows(c)'
  <2>1. /\ CheckKnows(c) /\ check[c].at \in Nat /\ check[c].lag \in Nat /\ clock \in Nat
        /\ check[c].tuple \in Tuples /\ MaxStaleness \in Nat
    BY <1>0, SyncConstants DEF IInv, TypeOK, CheckCalls
  <2>. QED
    BY <1>0, <1>1, <2>1 DEF CheckKnows
<1>. QED
  BY <1>2, <1>4, <1>5, <1>6 DEF IInv

(* Time passes.                                                            *)
LEMMA TickKeeps ==
  ASSUME IInv, Tick
  PROVE  IInv'
<1>0. /\ TypeOK /\ RunKnows /\ run \in Runs /\ clock \in Nat /\ clock' = clock + 1
      /\ UNCHANGED <<source, changes, gone, fga, state, run, check, clean>>
  BY DEF IInv, TypeOK, Tick
<1>1. TypeOK'
  BY <1>0 DEF TypeOK
<1>2. ASSUME NEW k \in Connectors
      PROVE  StateKnows(k)' /\ LineKnows(k)'
  <2>1. StateKnows(k) /\ LineKnows(k) /\ state[k] \in Rows
    BY <1>0 DEF IInv, TypeOK
  <2>2. state[k].synced \in Nat
    BY <2>1 DEF Rows
  <2>3. SnapshotHolds(state[k].tuples, state[k].taken)' <=> SnapshotHolds(state[k].tuples, state[k].taken)
    BY <1>0 DEF SnapshotHolds
  <2>4. StateKnows(k)'
    BY <1>0, <2>1, <2>2, <2>3 DEF StateKnows, Of
  <2>5. LineKnows(k)'
    BY <1>0, <2>1 DEF LineKnows, Midway, Of
  <2>. QED
    BY <2>4, <2>5
<1>3. RunKnows'
  <2>1. run.taken \in Nat /\ run.at \in Nat
    BY <1>0 DEF Runs
  <2>2. SnapshotHolds(run.desired, run.taken)' <=> SnapshotHolds(run.desired, run.taken)
    BY <1>0 DEF SnapshotHolds
  <2>. QED
    BY <1>0, <2>1, <2>2 DEF RunKnows, Midway, Of
<1>4. ASSUME NEW c \in Checks
      PROVE  CheckKnows(c)'
  <2>1. CheckKnows(c) /\ check[c].at \in Nat
    BY <1>0 DEF IInv, TypeOK, CheckCalls
  <2>. QED
    BY <1>0, <2>1 DEF CheckKnows
<1>. QED
  BY <1>1, <1>2, <1>3, <1>4 DEF IInv

-----------------------------------------------------------------------------
(* The run                                                                 *)

(* The run moves, and no row: what it knows of itself and of the lines is  *)
(* left to show.                                                           *)
LEMMA RunMoves ==
  ASSUME IInv, run' \in Runs, fga' \subseteq Tuples, clean' \in BOOLEAN, clean' => clean,
         UNCHANGED <<clock, source, changes, gone, state, check>>,
         \/ run'.pc \in {"idle", "snapshot"}
         \/ run'.connector = run.connector /\ run'.taken = clock
         \/ /\ run'.connector = run.connector /\ run'.taken = run.taken
            /\ run.pc \notin {"idle", "snapshot"},
         RunKnows', \A k \in Connectors : LineKnows(k)'
  PROVE  IInv'
<1>1. TypeOK'
  BY DEF IInv, TypeOK
<1>2. \A k \in Connectors : StateKnows(k)'
  BY StateKept
<1>3. \A c \in Checks : CheckKnows(c)'
  BY ChecksKept
<1>. QED
  BY <1>1, <1>2, <1>3 DEF IInv

(* The snapshot is taken.                                                  *)
LEMMA TakeSnapshotKeeps ==
  ASSUME IInv, TakeSnapshot
  PROVE  IInv'
<1>0. /\ TypeOK /\ RunKnows /\ run \in Runs /\ run.pc = "snapshot" /\ clean \in BOOLEAN
      /\ UNCHANGED <<clock, source, changes, gone, fga, state, check, clean>>
  BY DEF IInv, TypeOK, TakeSnapshot
<1> DEFINE k == run.connector
           S == Of(k, source)
           x == [run EXCEPT !.pc = "load", !.desired = S, !.taken = clock]
<1>1. run' = x
  BY DEF TakeSnapshot
<1>2. S \in SUBSET Tuples /\ S \subseteq source /\ Of(k, S) = S /\ clock \in Nat
  BY <1>0 DEF TypeOK, Of
<1>3. k \in Connectors /\ state[k].row # "none" /\ state[k] \in Rows /\ StateKnows(k)
  BY <1>0 DEF RunKnows, IInv, TypeOK
<1> HIDE DEF S
<1>4. x \in Runs /\ x.pc = "load" /\ x.connector = k /\ x.desired = S /\ x.taken = clock
  BY <1>0, <1>2 DEF Runs
<1> HIDE DEF x
<1>5. state[k].taken <= clock
  BY <1>0, <1>3 DEF StateKnows, Rows, TypeOK
<1>6. SnapshotHolds(run.desired, run.taken)'
  BY <1>0, <1>1, <1>2, <1>4 DEF SnapshotHolds
<1>7. RunKnows'
  BY <1>0, <1>1, <1>2, <1>3, <1>4, <1>5, <1>6 DEF RunKnows, Midway, Of, TypeOK
<1>8. \A j \in Connectors : LineKnows(j)'
  BY <1>0, <1>1, <1>4, OtherLine DEF Midway
<1>9. fga' \subseteq Tuples
  BY <1>0 DEF TypeOK
<1>. QED
  BY <1>0, <1>1, <1>4, <1>7, <1>8, <1>9, RunMoves

(* The difference is taken against the saved snapshot, which is what       *)
(* OpenFGA holds as long as no run stopped half way.                       *)
LEMMA LoadPreviousKeeps ==
  ASSUME IInv, LoadPrevious
  PROVE  IInv'
<1>0. /\ TypeOK /\ RunKnows /\ run \in Runs /\ run.pc = "load" /\ clean \in BOOLEAN
      /\ UNCHANGED <<clock, source, changes, gone, fga, state, check, clean>>
  BY DEF IInv, TypeOK, LoadPrevious
<1> DEFINE k == run.connector
           previous == state[k].tuples
           A == run.desired \ previous
           R == previous \ run.desired
           x == [run EXCEPT !.pc = "chunk", !.add = A, !.remove = R]
<1>1. run' = x
  BY DEF LoadPrevious, Diff
<1>2. k \in Connectors /\ state[k] \in Rows /\ StateKnows(k) /\ LineKnows(k)
  BY <1>0 DEF RunKnows, IInv, TypeOK
<1>3. A \in SUBSET Tuples /\ R \in SUBSET Tuples
  BY <1>0, <1>2 DEF Runs, Rows
<1> HIDE DEF A, R
<1>4. /\ x \in Runs /\ x.pc = "chunk" /\ x.connector = k /\ x.desired = run.desired
      /\ x.taken = run.taken /\ x.add = A /\ x.remove = R
  BY <1>0, <1>3 DEF Runs
<1> HIDE DEF x
<1> USE DEF A, R
<1>5. SnapshotHolds(run.desired, run.taken)'
  BY <1>0, <1>1, <1>4 DEF SnapshotHolds, RunKnows
<1>6. RunKnows'
  BY <1>0, <1>1, <1>2, <1>4, <1>5 DEF RunKnows, Midway, Of
<1>7. ASSUME NEW j \in Connectors, j = k
      PROVE  LineKnows(j)'
  <2>1. clean => Of(j, fga) = previous
    BY <1>0, <1>2, <1>7 DEF LineKnows, Midway
  <2>2. previous = (run.desired \ A) \cup R
    OBVIOUS
  <2>3. Of(j, fga)' = Of(j, fga)
    BY <1>0 DEF Of
  <2>. QED
    BY <1>0, <1>1, <1>4, <1>7, <2>1, <2>2, <2>3 DEF LineKnows, Midway
<1>8. ASSUME NEW j \in Connectors, j # k
      PROVE  LineKnows(j)'
  BY <1>0, <1>1, <1>4, <1>8, OtherLine DEF Midway
<1>9. fga' \subseteq Tuples
  BY <1>0 DEF TypeOK
<1>. QED
  BY <1>0, <1>1, <1>4, <1>6, <1>7, <1>8, <1>9, RunMoves

(* A run that goes on writing.                                             *)
LEMMA MidwayMoves ==
  ASSUME IInv, Midway, run' \in Runs, fga' \subseteq Tuples, Midway',
         UNCHANGED <<clock, source, changes, gone, state, check, clean>>,
         run'.connector = run.connector, run'.desired = run.desired, run'.taken = run.taken,
         run'.add \subseteq run.add, run'.remove \subseteq run.remove,
         fga' \cap ((state[run.connector].tuples \ run.desired) \ run'.remove) = {},
         run'.pc = "write" => run'.chunk \subseteq run'.add,
         run'.pc = "delete" => run'.chunk \subseteq run'.remove /\ run'.add = {},
         run'.pc \in {"stamp", "save"} => run'.add = {} /\ run'.remove = {},
         run'.pc = "save" => run.taken <= run'.at /\ run'.at <= clock,
         \A j \in Connectors : j # run.connector => Of(j, fga') = Of(j, fga),
         \A j \in Connectors : j = run.connector => LineKnows(j)'
  PROVE  IInv'
<1>0. /\ TypeOK /\ RunKnows /\ clean' \in BOOLEAN
      /\ run.pc \notin {"idle", "snapshot"} /\ run'.pc \notin {"idle", "snapshot", "journal"}
  BY DEF IInv, TypeOK, Midway
<1>1. SnapshotHolds(run.desired, run.taken)'
  BY <1>0 DEF SnapshotHolds, RunKnows
<1>2. RunKnows'
  BY <1>0, <1>1 DEF RunKnows, Of
<1>3. \A j \in Connectors : LineKnows(j)'
  BY OtherLine
<1>. QED
  BY <1>0, <1>2, <1>3, RunMoves

(* The next chunk is chosen, or there is none left.                        *)
LEMMA NextChunkKeeps ==
  ASSUME IInv, NextChunk
  PROVE  IInv'
<1>0. /\ TypeOK /\ RunKnows /\ run \in Runs /\ run.pc = "chunk" /\ Midway /\ fga' \subseteq Tuples
      /\ UNCHANGED <<clock, source, changes, gone, fga, state, check, clean>>
  BY DEF IInv, TypeOK, NextChunk, Midway
<1> DEFINE rest == IF run.add # {} THEN run.add ELSE run.remove
<1>1. PICK pc \in {"stamp", "write", "delete"}, chunk \in SUBSET Tuples, n \in 0..Retries :
        /\ run' = [run EXCEPT !.pc = pc, !.chunk = chunk, !.attempt = n]
        /\ pc = "stamp" => run.add = {} /\ run.remove = {}
        /\ pc = "write" => chunk \subseteq run.add
        /\ pc = "delete" => chunk \subseteq run.remove /\ run.add = {}
  <2>1. CASE rest = {}
    <3>1. run' = [run EXCEPT !.pc = "stamp"]
      BY <2>1 DEF NextChunk
    <3>2. run' = [run EXCEPT !.pc = "stamp", !.chunk = run.chunk, !.attempt = run.attempt]
      BY <1>0, <3>1 DEF Runs
    <3>3. run.chunk \in SUBSET Tuples /\ run.attempt \in 0..Retries
      BY <1>0 DEF Runs
    <3>. QED
      BY <2>1, <3>2, <3>3
  <2>2. CASE rest # {}
    <3>1. PICK chunk \in SUBSET rest :
            run' = [run EXCEPT !.pc = IF run.add # {} THEN "write" ELSE "delete",
                               !.chunk = chunk, !.attempt = 0]
      BY <2>2 DEF NextChunk
    <3>2. rest \subseteq Tuples /\ 0 \in 0..Retries
      BY <1>0, SyncConstants DEF Runs
    <3>. QED
      BY <3>1, <3>2
  <2>. QED
    BY <2>1, <2>2
<1> DEFINE x == [run EXCEPT !.pc = pc, !.chunk = chunk, !.attempt = n]
<1>2. /\ x \in Runs /\ x.pc = pc /\ x.connector = run.connector /\ x.desired = run.desired
      /\ x.taken = run.taken /\ x.add = run.add /\ x.remove = run.remove /\ x.chunk = chunk
  BY <1>0 DEF Runs
<1> HIDE DEF x
<1>3. run' = x
  BY <1>1 DEF x
<1>4. ASSUME NEW j \in Connectors, j = run.connector
      PROVE  LineKnows(j)'
  <2>1. LineKnows(j) /\ Of(j, fga)' = Of(j, fga)
    BY <1>0 DEF IInv, Of
  <2>. QED
    BY <1>0, <1>1, <1>2, <1>3, <1>4, <2>1 DEF LineKnows, Midway
<1>5. fga' \cap ((state[run.connector].tuples \ run.desired) \ run'.remove) = {}
  BY <1>0, <1>2, <1>3 DEF RunKnows
<1>. QED
  BY <1>0, <1>1, <1>2, <1>3, <1>4, <1>5, MidwayMoves DEF Midway

(* What a request does: it touches the tuples of the run's connector only, *)
(* and a deletion takes its chunk out.                                     *)
LEMMA RequestTouches ==
  ASSUME IInv, run.pc \in {"write", "delete"}
  PROVE  /\ Applied \subseteq Tuples /\ Midway
         /\ \A j \in Connectors : j # run.connector => Of(j, Applied) = Of(j, fga)
         /\ run.pc = "write" => Of(run.connector, Applied) = Of(run.connector, fga) \cup run.chunk
         /\ run.pc = "delete" => Of(run.connector, Applied) = Of(run.connector, fga) \ run.chunk
         /\ Applied \cap ((state[run.connector].tuples \ run.desired) \ run.remove) = {}
         /\ run.pc = "delete" => Applied \cap run.chunk = {}
<1>0. TypeOK /\ RunKnows /\ run \in Runs /\ Midway /\ run.connector \in Connectors
      /\ StateKnows(run.connector)
  BY DEF IInv, TypeOK, RunKnows, Midway
<1>1. CASE run.pc = "write"
  <2>1. run.chunk \subseteq run.desired /\ Of(run.connector, run.desired) = run.desired
    BY <1>0, <1>1 DEF RunKnows
  <2>2. run.chunk \subseteq Tuples /\ \A t \in run.chunk : Owner[t] = run.connector
    BY <1>0, <2>1 DEF Of, Runs
  <2>3. Applied = fga \cup run.chunk
    BY <1>1 DEF Applied
  <2>. QED
    BY <1>0, <1>1, <2>1, <2>2, <2>3 DEF TypeOK, Of, RunKnows
<1>2. CASE run.pc = "delete"
  <2>1. run.chunk \subseteq state[run.connector].tuples
    BY <1>0, <1>2 DEF RunKnows
  <2>2. \A t \in run.chunk : Owner[t] = run.connector
    BY <1>0, <2>1 DEF Of, StateKnows
  <2>3. Applied = fga \ run.chunk
    BY <1>2 DEF Applied
  <2>. QED
    BY <1>0, <1>2, <2>2, <2>3 DEF TypeOK, Of, RunKnows
<1>. QED
  BY <1>1, <1>2

(* A request that succeeds did not meet the effect of an earlier attempt.  *)
LEMMA ApplyKeeps ==
  ASSUME IInv, Apply
  PROVE  IInv'
<1>0. /\ TypeOK /\ RunKnows /\ run \in Runs /\ run.pc \in {"write", "delete"} /\ Midway
      /\ Accepts /\ fga' = Applied
      /\ UNCHANGED <<clock, source, changes, gone, state, check, clean>>
  BY DEF IInv, TypeOK, Apply, Midway
<1> DEFINE k == run.connector
           A == run.add \ run.chunk
           R == run.remove \ run.chunk
           x == [run EXCEPT !.pc = "chunk", !.add = A, !.remove = R, !.chunk = {}, !.attempt = 0]
<1>1. run' = x
  BY DEF Apply
<1>2. A \in SUBSET Tuples /\ R \in SUBSET Tuples /\ 0 \in 0..Retries
  BY <1>0, SyncConstants DEF Runs
<1> HIDE DEF A, R
<1>3. /\ x \in Runs /\ x.pc = "chunk" /\ x.connector = k /\ x.desired = run.desired
      /\ x.taken = run.taken /\ x.add = A /\ x.remove = R
  BY <1>0, <1>2 DEF Runs
<1> HIDE DEF x
<1> USE DEF A, R
<1>4. ASSUME NEW j \in Connectors, j = k, clean
      PROVE  Of(j, fga') = (run.desired \ A) \cup R
  <2> DEFINE W == (run.desired \ run.add) \cup run.remove
             F == Of(j, fga)
  <2>1. LineKnows(j)
    BY DEF IInv
  <2>2. \/ F = W
        \/ run.pc = "write" /\ F = W \cup run.chunk
        \/ run.pc = "delete" /\ F = W \ run.chunk
    BY <1>0, <1>4, <2>1 DEF LineKnows
  <2>3. CASE run.pc = "write"
    <3>1. Of(j, fga') = F \cup run.chunk
      BY <1>0, <1>4, <2>3, RequestTouches
    <3>2. /\ run.chunk \subseteq run.add /\ run.add \subseteq run.desired
          /\ run.remove \cap run.desired = {}
      BY <1>0, <2>3 DEF RunKnows
    <3>. QED
      BY <2>2, <2>3, <3>1, <3>2
  <2>4. CASE run.pc = "delete"
    <3>1. Of(j, fga') = F \ run.chunk
      BY <1>0, <1>4, <2>4, RequestTouches
    <3>2. run.chunk \subseteq run.remove /\ run.remove \cap run.desired = {} /\ run.add = {}
      BY <1>0, <2>4 DEF RunKnows
    <3>. QED
      BY <2>2, <2>4, <3>1, <3>2
  <2>. QED
    BY <1>0, <2>3, <2>4
<1>5. ASSUME NEW j \in Connectors, j = k
      PROVE  LineKnows(j)'
  <2>1. Of(j, fga)' = Of(j, fga')
    BY DEF Of
  <2>. QED
    BY <1>0, <1>1, <1>3, <1>4, <1>5, <2>1 DEF LineKnows, Midway
<1>6. /\ fga' \subseteq Tuples
      /\ \A j \in Connectors : j # k => Of(j, fga') = Of(j, fga)
      /\ fga' \cap ((state[k].tuples \ run.desired) \ run.remove) = {}
      /\ run.pc = "delete" => fga' \cap run.chunk = {}
  BY <1>0, RequestTouches
<1>7. fga' \cap ((state[k].tuples \ run.desired) \ run'.remove) = {}
  <2>1. run.pc = "write" => R = run.remove
    BY <1>0 DEF RunKnows
  <2>. QED
    BY <1>0, <1>1, <1>3, <1>6, <2>1
<1>. QED
  BY <1>0, <1>1, <1>3, <1>5, <1>6, <1>7, MidwayMoves DEF Midway

(* An attempt that raises may have taken effect.                           *)
LEMMA RetryKeeps ==
  ASSUME IInv, Retry
  PROVE  IInv'
<1>0. /\ TypeOK /\ RunKnows /\ run \in Runs /\ run.pc \in {"write", "delete"} /\ Midway
      /\ fga' = fga \/ (Accepts /\ fga' = Applied)
      /\ UNCHANGED <<clock, source, changes, gone, state, check, clean>>
  BY DEF IInv, TypeOK, Retry, Midway
<1> DEFINE k == run.connector
           x == [run EXCEPT !.attempt = run.attempt + 1]
<1>1. run' = x
  BY DEF Retry
<1>2. run.attempt + 1 \in 0..Retries
  BY <1>0, SyncConstants DEF Runs, Retry
<1>3. /\ x \in Runs /\ x.pc = run.pc /\ x.connector = k /\ x.desired = run.desired
      /\ x.taken = run.taken /\ x.add = run.add /\ x.remove = run.remove /\ x.chunk = run.chunk
  BY <1>0, <1>2 DEF Runs
<1> HIDE DEF x
<1>4. ASSUME NEW j \in Connectors, j = k
      PROVE  LineKnows(j)'
  <2> DEFINE W == (run.desired \ run.add) \cup run.remove
             F == Of(j, fga)
  <2>1. LineKnows(j) /\ Of(j, fga)' = Of(j, fga')
    BY DEF IInv, Of
  <2>2. clean => \/ F = W
                 \/ run.pc = "write" /\ F = W \cup run.chunk
                 \/ run.pc = "delete" /\ F = W \ run.chunk
    BY <1>0, <1>4, <2>1 DEF LineKnows
  <2>3. \/ Of(j, fga') = F
        \/ run.pc = "write" /\ Of(j, fga') = F \cup run.chunk
        \/ run.pc = "delete" /\ Of(j, fga') = F \ run.chunk
    BY <1>0, <1>4, RequestTouches
  <2>4. clean => \/ Of(j, fga') = W
                 \/ run.pc = "write" /\ Of(j, fga') = W \cup run.chunk
                 \/ run.pc = "delete" /\ Of(j, fga') = W \ run.chunk
    BY <2>2, <2>3
  <2>. QED
    BY <1>0, <1>1, <1>3, <1>4, <2>1, <2>4 DEF LineKnows, Midway
<1>5. /\ fga' \subseteq Tuples
      /\ \A j \in Connectors : j # k => Of(j, fga') = Of(j, fga)
      /\ fga' \cap ((state[k].tuples \ run.desired) \ run.remove) = {}
  BY <1>0, RequestTouches DEF TypeOK, RunKnows
<1>. QED
  BY <1>0, <1>1, <1>3, <1>4, <1>5, MidwayMoves DEF Midway, RunKnows

(* The clock is read.                                                      *)
LEMMA StampKeeps ==
  ASSUME IInv, Stamp
  PROVE  IInv'
<1>0. /\ TypeOK /\ RunKnows /\ run \in Runs /\ run.pc = "stamp" /\ Midway /\ fga' \subseteq Tuples
      /\ clock \in Nat /\ UNCHANGED <<clock, source, changes, gone, fga, state, check, clean>>
  BY DEF IInv, TypeOK, Stamp, Midway
<1> DEFINE x == [run EXCEPT !.pc = "save", !.at = clock]
<1>1. run' = x
  BY DEF Stamp
<1>2. /\ x \in Runs /\ x.pc = "save" /\ x.connector = run.connector /\ x.desired = run.desired
      /\ x.taken = run.taken /\ x.add = run.add /\ x.remove = run.remove /\ x.at = clock
  BY <1>0 DEF Runs
<1> HIDE DEF x
<1>3. ASSUME NEW j \in Connectors, j = run.connector
      PROVE  LineKnows(j)'
  <2>1. LineKnows(j) /\ Of(j, fga)' = Of(j, fga)
    BY <1>0 DEF IInv, Of
  <2>. QED
    BY <1>0, <1>1, <1>2, <1>3, <2>1 DEF LineKnows, Midway
<1>4. fga' \cap ((state[run.connector].tuples \ run.desired) \ run'.remove) = {}
  BY <1>0, <1>1, <1>2 DEF RunKnows
<1>. QED
  BY <1>0, <1>1, <1>2, <1>3, <1>4, MidwayMoves DEF Midway, RunKnows

(* A run is over: only one that had not written anything, or had saved,    *)
(* leaves the lines as they were.                                          *)
LEMMA OverKeeps ==
  ASSUME IInv, GiveUp \/ Stop \/ Journal
  PROVE  IInv'
<1>0. /\ TypeOK /\ RunKnows /\ run' = NoRun /\ clean' \in BOOLEAN /\ (clean' => clean)
      /\ UNCHANGED <<clock, source, changes, gone, state, check>>
  <2>1. TypeOK /\ RunKnows /\ clean \in BOOLEAN
    BY DEF IInv, TypeOK
  <2>2. clean' = FALSE \/ clean' = (clean /\ run.pc \in {"snapshot", "load"}) \/ clean' = clean
    BY Zenon DEF GiveUp, Stop, Journal
  <2>3. clean' \in BOOLEAN /\ (clean' => clean)
    <3>1. CASE clean' = FALSE
      BY <3>1
    <3>2. CASE clean' = (clean /\ run.pc \in {"snapshot", "load"})
      BY <3>2, Zenon
    <3>3. CASE clean' = clean
      BY <2>1, <3>3
    <3>. QED
      BY <2>2, <3>1, <3>2, <3>3
  <2>4. /\ run' = NoRun
        /\ UNCHANGED <<clock, source, changes, gone, state, check>>
    BY Zenon DEF GiveUp, Stop, Journal
  <2>. QED
    BY <2>1, <2>3, <2>4
<1>1. run' \in Runs /\ run'.pc = "idle"
  BY <1>0, NoRunTyped
<1>2. fga' \subseteq Tuples /\ (clean' => fga' = fga /\ ~Midway)
  <2>1. /\ fga' = fga \/ (run.pc \in {"write", "delete"} /\ fga' = Applied)
        /\ clean' => run.pc \in {"snapshot", "load", "journal"}
    BY DEF GiveUp, Stop, Journal
  <2>. QED
    BY <1>0, <2>1, RequestTouches DEF TypeOK, Midway
<1>3. RunKnows'
  BY <1>1 DEF RunKnows, Midway
<1>4. ASSUME NEW k \in Connectors
      PROVE  LineKnows(k)'
  <2>1. CASE clean'
    BY <1>0, <1>1, <1>2, <2>1, OtherLine DEF Midway
  <2>2. CASE ~clean'
    BY <2>2 DEF LineKnows
  <2>. QED
    BY <2>1, <2>2
<1>. QED
  BY <1>0, <1>1, <1>2, <1>3, <1>4, RunMoves

(* A connector is registered; one that has a row keeps it.                 *)
LEMMA RegisterKeeps ==
  ASSUME IInv, NEW k \in Connectors, Register(k)
  PROVE  IInv'
<1>0. /\ TypeOK /\ RunKnows /\ run.pc = "idle" /\ state \in [Connectors -> Rows] /\ state[k] \in Rows
      /\ UNCHANGED <<clock, source, changes, gone, fga, check, clean>>
  BY DEF IInv, TypeOK, Register
<1> DEFINE x == [NoRun EXCEPT !.pc = "snapshot", !.connector = k]
<1>1. run' = x
  BY DEF Register
<1>2. x \in Runs /\ x.pc = "snapshot" /\ x.connector = k
  BY NoRunTyped DEF Runs
<1> HIDE DEF x
<1> DEFINE r == [state[k] EXCEPT !.row = "registered"]
<1>3. /\ r \in Rows /\ r.row = "registered" /\ r.tuples = state[k].tuples
      /\ r.synced = state[k].synced /\ r.taken = state[k].taken
  BY <1>0 DEF Rows
<1>4. state' = IF state[k].row = "none" THEN [state EXCEPT ![k] = r] ELSE state
  BY DEF Register
<1> HIDE DEF r
<1>5. /\ state' \in [Connectors -> Rows]
      /\ \A j \in Connectors : j # k => state'[j] = state[j]
      /\ state'[k].row # "none" /\ state'[k].tuples = state[k].tuples
      /\ state'[k].synced = state[k].synced /\ state'[k].taken = state[k].taken
      /\ state'[k].row = "synced" <=> state[k].row = "synced"
  BY <1>0, <1>3, <1>4
<1>6. TypeOK'
  BY <1>0, <1>1, <1>2, <1>5 DEF TypeOK
<1>7. StateKnows(k)'
  <2>1. StateKnows(k)
    BY DEF IInv
  <2>2. SnapshotHolds(state[k].tuples, state[k].taken)'
    BY <1>0, <1>5, <2>1 DEF SnapshotHolds, StateKnows
  <2>. QED
    BY <1>0, <1>5, <2>1, <2>2 DEF StateKnows, Of
<1>8. ASSUME NEW j \in Connectors, j # k
      PROVE  StateKnows(j)'
  BY <1>0, <1>5, <1>8, StateKept
<1>9. \A j \in Connectors : LineKnows(j)'
  BY <1>0, <1>1, <1>2, <1>5, OtherLine DEF Midway
<1>10. RunKnows'
  BY <1>1, <1>2, <1>5 DEF RunKnows, Midway
<1>11. ASSUME NEW c \in Checks
       PROVE  CheckKnows(c)'
  <2>1. CheckKnows(c) /\ Owner[check[c].tuple] \in Connectors
    BY <1>0, SyncConstants DEF IInv, TypeOK, CheckCalls
  <2>. QED
    BY <1>0, <1>1, <1>2, <1>5, <2>1 DEF CheckKnows
<1>. QED
  BY <1>6, <1>7, <1>8, <1>9, <1>10, <1>11 DEF IInv

(* The snapshot becomes the saved one.                                     *)
LEMMA SaveKeeps ==
  ASSUME IInv, Save
  PROVE  IInv'
<1>0. /\ TypeOK /\ RunKnows /\ run \in Runs /\ run.pc = "save" /\ Midway
      /\ state \in [Connectors -> Rows]
      /\ UNCHANGED <<clock, source, changes, gone, fga, check, clean>>
  BY DEF IInv, TypeOK, Save, Midway
<1>1. /\ run.connector \in Connectors /\ run.add = {} /\ run.remove = {}
      /\ Of(run.connector, run.desired) = run.desired /\ SnapshotHolds(run.desired, run.taken)
      /\ state[run.connector].taken <= run.taken /\ run.taken <= run.at /\ run.at <= clock
  BY <1>0 DEF RunKnows
<1>2. PICK k \in Connectors : k = run.connector
  BY <1>1
<1> DEFINE x == [run EXCEPT !.pc = "journal"]
           r == [row |-> "synced", tuples |-> run.desired, synced |-> run.at, taken |-> run.taken]
<1>3. run' = x /\ state' = [state EXCEPT ![k] = r]
  BY <1>2 DEF Save
<1>4. /\ x \in Runs /\ x.pc = "journal" /\ x.connector = k /\ x.desired = run.desired
      /\ x.taken = run.taken
  BY <1>0, <1>2 DEF Runs
<1>5. r \in Rows
  BY <1>0 DEF Runs, Rows
<1> HIDE DEF x
<1>6. /\ state' \in [Connectors -> Rows]
      /\ \A j \in Connectors : j # k => state'[j] = state[j]
      /\ state'[k].row = "synced" /\ state'[k].tuples = run.desired
      /\ state'[k].synced = run.at /\ state'[k].taken = run.taken
  BY <1>0, <1>3, <1>5
<1> HIDE DEF r
<1>7. TypeOK'
  BY <1>0, <1>3, <1>4, <1>6 DEF TypeOK
<1>8. SnapshotHolds(run.desired, run.taken)' /\ SnapshotHolds(state[k].tuples, state[k].taken)'
  BY <1>0, <1>1, <1>3, <1>4, <1>6 DEF SnapshotHolds
<1>9. StateKnows(k)'
  BY <1>0, <1>1, <1>2, <1>6, <1>8 DEF StateKnows, Of
<1>10. ASSUME NEW j \in Connectors, j # k
       PROVE  StateKnows(j)' /\ LineKnows(j)'
  BY <1>0, <1>2, <1>3, <1>4, <1>6, <1>10, StateKept, OtherLine DEF Midway
<1>11. LineKnows(k)'
  <2>1. LineKnows(k) /\ Of(k, fga)' = Of(k, fga)
    BY <1>0 DEF IInv, Of
  <2>2. clean => Of(k, fga) = run.desired
    BY <1>0, <1>1, <1>2, <2>1 DEF LineKnows
  <2>. QED
    BY <1>0, <1>3, <1>4, <1>6, <2>1, <2>2 DEF LineKnows, Midway
<1>12. RunKnows'
  <2>1. run.taken \in Nat /\ run.at \in Nat /\ clock \in Nat
    BY <1>0 DEF Runs, TypeOK
  <2>. QED
    BY <1>0, <1>1, <1>2, <1>3, <1>4, <1>6, <1>8, <2>1 DEF RunKnows, Midway, Of
<1>13. ASSUME NEW c \in Checks
       PROVE  CheckKnows(c)'
  <2>1. CheckKnows(c) /\ Owner[check[c].tuple] \in Connectors
    BY <1>0, SyncConstants DEF IInv, TypeOK, CheckCalls
  <2>. QED
    BY <1>0, <1>2, <1>3, <1>4, <1>6, <2>1 DEF CheckKnows
<1>. QED
  BY <1>7, <1>9, <1>10, <1>11, <1>12, <1>13 DEF IInv

-----------------------------------------------------------------------------
(* The checks                                                              *)

(* A check moves: what it knows itself is left to show.                    *)
LEMMA CheckMoves ==
  ASSUME IInv, NEW c \in Checks, NEW x \in CheckCalls, check' = [check EXCEPT ![c] = x],
         UNCHANGED <<clock, source, changes, gone, fga, state, run, clean>>, CheckKnows(c)'
  PROVE  IInv'
<1>0. TypeOK /\ RunKnows /\ check \in [Checks -> CheckCalls]
  BY DEF IInv, TypeOK
<1>1. check' \in [Checks -> CheckCalls] /\ \A d \in Checks : d # c => check'[d] = check[d]
  BY <1>0
<1>2. TypeOK'
  BY <1>0, <1>1 DEF TypeOK
<1>3. \A k \in Connectors : StateKnows(k)'
  BY StateKept
<1>4. RunKnows'
  BY <1>0 DEF RunKnows, Midway, Of, SnapshotHolds
<1>5. ASSUME NEW k \in Connectors
      PROVE  LineKnows(k)'
  BY DEF IInv, LineKnows, Midway, Of
<1>6. ASSUME NEW d \in Checks, d # c
      PROVE  CheckKnows(d)'
  BY <1>1, <1>6 DEF IInv, CheckKnows
<1>. QED
  BY <1>2, <1>3, <1>4, <1>5, <1>6 DEF IInv

(* The guard lets a check through when every snapshot is fresh; the        *)
(* snapshot of a run in progress is fresher than the saved one.            *)
LEMMA GuardKeeps ==
  ASSUME IInv, NEW c \in Checks, Guard(c)
  PROVE  IInv'
<1>0. /\ TypeOK /\ RunKnows /\ check[c] \in CheckCalls /\ check \in [Checks -> CheckCalls]
      /\ CheckKnows(c) /\ check[c].pc = "idle" /\ run \in Runs
      /\ clock \in Nat /\ MaxStaleness \in Nat
      /\ UNCHANGED <<clock, source, changes, gone, fga, state, run, clean>>
  BY SyncConstants DEF IInv, TypeOK, Guard
<1>1. PICK t \in Tuples :
        check' = [check EXCEPT ![c] =
          IF \A k \in Connectors : Fresh(k)
          THEN [pc |-> "ask", tuple |-> t, at |-> clock, lag |-> Lag(Owner[t])]
          ELSE [@ EXCEPT !.pc = "denied"]]
  BY DEF Guard
<1>2. CASE \A k \in Connectors : Fresh(k)
  <2> DEFINE k == Owner[t]
             x == [pc |-> "ask", tuple |-> t, at |-> clock, lag |-> Lag(k)]
  <2>1. k \in Connectors /\ state[k] \in Rows /\ StateKnows(k) /\ Fresh(k)
    BY <1>0, <1>2, SyncConstants DEF IInv, TypeOK
  <2>2. /\ state[k].taken \in Nat /\ state[k].synced \in Nat /\ run.taken \in Nat
        /\ state[k].taken <= state[k].synced
    BY <1>0, <2>1 DEF Rows, Runs, StateKnows
  <2>3. /\ Lag(k) \in Nat
        /\ state[k].row = "synced" => clock <= state[k].taken + MaxStaleness + Lag(k)
    BY <1>0, <2>1, <2>2 DEF Lag, Fresh
  <2>4. run.connector = k /\ run.pc \notin {"idle", "snapshot"} =>
          clock <= run.taken + MaxStaleness + Lag(k)
    BY <1>0, <2>1, <2>2, <2>3 DEF RunKnows, Fresh
  <2>5. x \in CheckCalls /\ x.pc = "ask" /\ x.tuple = t /\ x.at = clock /\ x.lag = Lag(k)
    BY <1>0, <2>3 DEF CheckCalls
  <2>6. check' = [check EXCEPT ![c] = x]
    BY <1>1, <1>2
  <2> HIDE DEF x
  <2>7. check'[c] = x
    BY <1>0, <2>6
  <2>8. CheckKnows(c)'
    BY <1>0, <2>3, <2>4, <2>5, <2>7 DEF CheckKnows
  <2>. QED
    BY <1>0, <2>5, <2>6, <2>8, CheckMoves
<1>3. CASE ~(\A k \in Connectors : Fresh(k))
  <2> DEFINE x == [check[c] EXCEPT !.pc = "denied"]
  <2>1. x \in CheckCalls /\ x.pc = "denied" /\ x.at = check[c].at
    BY <1>0 DEF CheckCalls
  <2>2. check' = [check EXCEPT ![c] = x]
    BY <1>1, <1>3
  <2> HIDE DEF x
  <2>3. check'[c] = x
    BY <1>0, <2>2
  <2>4. CheckKnows(c)'
    BY <1>0, <2>1, <2>3 DEF CheckKnows
  <2>. QED
    BY <1>0, <2>1, <2>2, <2>4, CheckMoves
<1>. QED
  BY <1>2, <1>3

(* The answer: what OpenFGA holds comes from the saved snapshot or from    *)
(* the one of the run in progress.                                         *)
LEMMA AskKeeps ==
  ASSUME IInv, NEW c \in Checks, Ask(c)
  PROVE  IInv'
<1>0. /\ TypeOK /\ RunKnows /\ check[c] \in CheckCalls /\ check \in [Checks -> CheckCalls]
      /\ CheckKnows(c) /\ check[c].pc = "ask" /\ run \in Runs
      /\ clock \in Nat /\ MaxStaleness \in Nat
      /\ UNCHANGED <<clock, source, changes, gone, fga, state, run, clean>>
  BY SyncConstants DEF IInv, TypeOK, Ask
<1> DEFINE t == check[c].tuple
           k == Owner[t]
           pc == IF t \in fga THEN "allowed" ELSE "denied"
           x == [check[c] EXCEPT !.pc = pc]
<1>1. check' = [check EXCEPT ![c] = x]
  BY DEF Ask
<1>2. /\ x \in CheckCalls /\ x.pc = pc /\ x.tuple = t /\ x.at = check[c].at
      /\ x.lag = check[c].lag
  BY <1>0 DEF CheckCalls
<1> HIDE DEF x
<1>3. check'[c] = x
  BY <1>0, <1>1
<1>4. /\ t \in Tuples /\ k \in Connectors /\ state[k] \in Rows /\ StateKnows(k) /\ LineKnows(k)
      /\ check[c].at \in Nat /\ check[c].lag \in Nat /\ gone[t] \in Nat /\ run.taken \in Nat
  BY <1>0, SyncConstants DEF IInv, TypeOK, CheckCalls, Runs
<1>5. ASSUME clean, t \in fga
      PROVE  t \in source \/ check[c].at <= gone[t] + MaxStaleness + check[c].lag
  <2>1. t \in Of(k, fga)
    BY <1>4, <1>5 DEF Of
  <2>2. t \in state[k].tuples \/ (Midway /\ run.connector = k /\ t \in run.desired)
    <3>1. CASE Midway /\ run.connector = k
      <4>1. /\ run.add \subseteq run.desired /\ run.remove \subseteq state[k].tuples
            /\ run.pc = "write" => run.chunk \subseteq run.add
        BY <1>0, <3>1 DEF RunKnows
      <4>2. \/ Of(k, fga) = (run.desired \ run.add) \cup run.remove
            \/ /\ run.pc = "write"
               /\ Of(k, fga) = ((run.desired \ run.add) \cup run.remove) \cup run.chunk
            \/ /\ run.pc = "delete"
               /\ Of(k, fga) = ((run.desired \ run.add) \cup run.remove) \ run.chunk
        BY <1>4, <1>5, <3>1 DEF LineKnows
      <4>. QED
        BY <2>1, <3>1, <4>1, <4>2
    <3>2. CASE ~(Midway /\ run.connector = k)
      BY <1>4, <1>5, <2>1, <3>2 DEF LineKnows
    <3>. QED
      BY <3>1, <3>2
  <2>3. CASE t \in state[k].tuples
    <3>1. state[k].row = "synced" /\ (t \in source \/ state[k].taken <= gone[t])
      BY <1>4, <2>3 DEF StateKnows, SnapshotHolds
    <3>2. check[c].at <= state[k].taken + MaxStaleness + check[c].lag /\ state[k].taken \in Nat
      BY <1>0, <1>4, <3>1 DEF CheckKnows, Rows
    <3>. QED
      BY <1>0, <1>4, <3>1, <3>2
  <2>4. CASE Midway /\ run.connector = k /\ t \in run.desired
    <3>1. run.pc \notin {"idle", "snapshot"}
      BY <2>4 DEF Midway
    <3>2. t \in source \/ run.taken <= gone[t]
      BY <1>0, <2>4, <3>1 DEF RunKnows, SnapshotHolds
    <3>3. check[c].at <= run.taken + MaxStaleness + check[c].lag
      BY <1>0, <2>4, <3>1 DEF CheckKnows
    <3>. QED
      BY <1>0, <1>4, <3>2, <3>3
  <2>. QED
    BY <2>2, <2>3, <2>4
<1>6. CheckKnows(c)'
  BY <1>0, <1>2, <1>3, <1>5 DEF CheckKnows
<1>. QED
  BY <1>0, <1>1, <1>2, <1>6, CheckMoves

-----------------------------------------------------------------------------
(* The invariant and what follows from it                                  *)

(* Nothing is synced and nobody asks.                                      *)
LEMMA InitKnows ==
  ASSUME Init
  PROVE  IInv
<1>1. run \in Runs /\ run.pc = "idle" /\ run.connector = Nobody
  BY NoRunTyped DEF Init
<1>2. \A k \in Connectors : state[k] =
        [row |-> "none", tuples |-> {}, synced |-> 0, taken |-> 0] /\ state[k] \in Rows
  BY DEF Init, Rows
<1>3. (CHOOSE t \in Tuples : TRUE) \in Tuples
  BY SyncConstants
<1>4. \A c \in Checks : check[c].pc = "idle" /\ check[c].at = 0 /\ check[c] \in CheckCalls
  BY <1>3 DEF Init, CheckCalls
<1>5. TypeOK
  BY <1>1, <1>2, <1>4 DEF Init, TypeOK
<1>6. ASSUME NEW k \in Connectors
      PROVE  StateKnows(k) /\ LineKnows(k)
  <2>1. state[k].tuples = {} /\ state[k].synced = 0 /\ state[k].taken = 0 /\ clock = 0 /\ fga = {}
    BY <1>2 DEF Init
  <2>. QED
    BY <1>1, <2>1 DEF StateKnows, SnapshotHolds, LineKnows, Midway, Of
<1>7. RunKnows
  BY <1>1 DEF RunKnows, Midway
<1>8. \A c \in Checks : CheckKnows(c)
  BY <1>4 DEF Init, CheckKnows
<1>. QED
  BY <1>5, <1>6, <1>7, <1>8 DEF IInv

(* Every step keeps the invariant.                                         *)
LEMMA StepKnows ==
  ASSUME IInv, [Next]_vars
  PROVE  IInv'
<1>1. CASE \E t \in Tuples : Change(t)
  BY <1>1, ChangeKeeps
<1>2. CASE Advance
  <2>1. CASE \E k \in Connectors : Register(k)
    BY <2>1, RegisterKeeps
  <2>2. CASE TakeSnapshot \/ LoadPrevious \/ NextChunk \/ Apply
    BY <2>2, TakeSnapshotKeeps, LoadPreviousKeeps, NextChunkKeeps, ApplyKeeps
  <2>3. CASE Retry \/ GiveUp \/ Stamp \/ Save \/ Journal
    BY <2>3, RetryKeeps, OverKeeps, StampKeeps, SaveKeeps
  <2>. QED
    BY <1>2, <2>1, <2>2, <2>3 DEF Advance
<1>3. CASE Stop
  BY <1>3, OverKeeps
<1>4. CASE \E c \in Checks : Guard(c) \/ Ask(c)
  BY <1>4, GuardKeeps, AskKeeps
<1>5. CASE Tick
  BY <1>5, TickKeeps
<1>6. CASE UNCHANGED vars
  BY <1>6 DEF vars, IInv, TypeOK, StateKnows, LineKnows, RunKnows, CheckKnows, SnapshotHolds, Midway, Of
<1>. QED
  BY <1>1, <1>2, <1>3, <1>4, <1>5, <1>6 DEF Next

(* The inductive invariant holds of every behaviour of reconcile, of the   *)
(* tuple writes and of the freshness guard (base.py:95-130).               *)
THEOREM SyncInvariant == Spec => []IInv
BY InitKnows, StepKnows, PTL DEF Spec

(* As long as no run stopped half way, OpenFGA holds the snapshot that the *)
(* run has saved (base.py:102-118).                                        *)
THEOREM CleanRunsBringInLine == Spec => []CleanRunsInLine
<1>1. ASSUME IInv PROVE CleanRunsInLine
  <2>1. SUFFICES ASSUME clean, run.pc = "journal"
                 PROVE  Of(run.connector, fga) = run.desired
    BY DEF CleanRunsInLine, Saved, InLine
  <2>2. run.connector \in Connectors /\ run.desired = state[run.connector].tuples
    BY <1>1, <2>1 DEF IInv, RunKnows
  <2>3. LineKnows(run.connector)
    BY <1>1, <2>2 DEF IInv
  <2>. QED
    BY <2>1, <2>2, <2>3 DEF LineKnows, Midway
<1>. QED
  BY <1>1, SyncInvariant, PTL

(* What a check allows was granted at its source when the guard looked, or *)
(* had been no longer ago than the staleness bound and the duration of the *)
(* last sync (base.py:117, freshness.py).                                  *)
THEOREM AllowsWereTrue == Spec => []AllowWasTrue
<1>1. IInv => AllowWasTrue
  BY DEF IInv, CheckKnows, AllowWasTrue
<1>. QED
  BY <1>1, SyncInvariant, PTL

(* A grant that the saved snapshot held and the new one does not is gone   *)
(* from OpenFGA when the new one is saved (base.py:111-116).               *)
THEOREM RemovedBeforeSaved == Spec => RemovalsBeforeSave
<1> DEFINE A == \A k \in Connectors :
                  state'[k] # state[k] => fga \cap (state[k].tuples \ state'[k].tuples) = {}
<1>1. ASSUME IInv, [Next]_vars
      PROVE  [A]_vars
  <2>1. CASE Save
    <3>0. /\ TypeOK /\ RunKnows /\ run.pc = "save" /\ Midway /\ run.connector \in Connectors
          /\ state \in [Connectors -> Rows]
      BY <1>1, <2>1 DEF IInv, TypeOK, Save, RunKnows, Midway
    <3>1. fga \cap (state[run.connector].tuples \ run.desired) = {}
      BY <3>0 DEF RunKnows
    <3>2. /\ state'[run.connector].tuples = run.desired
          /\ \A j \in Connectors : j # run.connector => state'[j] = state[j]
      BY <2>1, <3>0 DEF Save
    <3>. QED
      BY <3>1, <3>2
  <2>2. CASE \E k \in Connectors : Register(k)
    <3>0. state \in [Connectors -> Rows]
      BY <1>1 DEF IInv, TypeOK
    <3>1. \A k \in Connectors : state'[k].tuples = state[k].tuples
      BY <2>2, <3>0 DEF Register, Rows
    <3>. QED
      BY <3>1
  <2>3. CASE UNCHANGED state
    BY <2>3
  <2>4. Save \/ (\E k \in Connectors : Register(k)) \/ UNCHANGED state
    BY <1>1 DEF Next, Advance, Change, TakeSnapshot, LoadPrevious, NextChunk, Apply, Retry, GiveUp,
       Stamp, Journal, Stop, Guard, Ask, Tick, vars
  <2>. QED
    BY <2>1, <2>2, <2>3, <2>4
<1>. QED
  BY <1>1, SyncInvariant, PTL DEF Spec, RemovalsBeforeSave
=============================================================================
