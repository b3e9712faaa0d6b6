------------------------------ MODULE Journal ------------------------------
(***************************************************************************)
(* The audit journal: PostgresAuditSink.record called by concurrent        *)
(* writers, each in a transaction of its own (audit/postgres.py), its      *)
(* verification (audit/chain.py), and the retention procedure of ADR 0025: *)
(* export a range in batches, verify the file, prune the same range.       *)
(*                                                                         *)
(* An event is named after the writer that records it.  A hash stands for  *)
(* the events it covers, so two chains have the same hash only if they     *)
(* have the same events.  A table is a set of rows, read in the order of   *)
(* their seq.  Transactions run at READ COMMITTED, the default of the pool *)
(* (db/pool.py).                                                           *)
(***************************************************************************)
EXTENDS Naturals, Sequences, FiniteSets

CONSTANTS
  Writers,      \* calls of record
  Nobody,       \* holds the lock when no transaction does
  BatchSize     \* rows per query of an export

ASSUME JournalConstants == Nobody \notin Writers /\ BatchSize \in Nat \ {0}

VARIABLES
  rows,      \* committed rows of audit_events
  nextSeq,   \* the sequence behind BIGSERIAL, not rolled back
  lock,      \* pg_advisory_xact_lock
  writer,    \* the calls of record
  export,    \* the export under way
  archive,   \* rows of the archives verified so far
  anchor,    \* head recorded at the last prune: what verify starts from
  emptied    \* a prune left no row behind

vars == <<rows, nextSeq, lock, writer, export, archive, anchor, emptied>>

Genesis == <<>>

ComputeHash(prev, event) == Append(prev, event)

Below(rs, n) == {r \in rs : r.seq < n}
Last(rs)     == CHOOSE r \in rs : \A q \in rs : q.seq <= r.seq

LastSeq(rs)        == IF rs = {} THEN 0 ELSE Last(rs).seq
HeadHash(rs, from) == IF rs = {} THEN from ELSE Last(rs).hash

(* verify_rows, its loop read as a condition on every row and on the one   *)
(* before it.                                                              *)
VerifyRows(rs, from) ==
  \A r \in rs :
    /\ r.prev = HeadHash(Below(rs, r.seq), from)
    /\ r.hash = ComputeHash(r.prev, r.event)

-----------------------------------------------------------------------------
(* record                                                                  *)

GoWriter(w, pc) == writer' = [writer EXCEPT ![w] = [@ EXCEPT !.pc = pc]]

BeginRecord(w) ==
  /\ writer[w].pc = "idle"
  /\ GoWriter(w, "lock")
  /\ UNCHANGED <<rows, nextSeq, lock, export, archive, anchor, emptied>>

(* Mutant: nobody waits for the lock.                                      *)
MutantTakeLock(w) ==
  /\ writer[w].pc = "lock"
  /\ lock' = w
  /\ GoWriter(w, "read")
  /\ UNCHANGED <<rows, nextSeq, export, archive, anchor, emptied>>

TakeLock(w) ==
  /\ writer[w].pc = "lock" /\ lock = Nobody
  /\ lock' = w
  /\ GoWriter(w, "read")
  /\ UNCHANGED <<rows, nextSeq, export, archive, anchor, emptied>>

(* The hash of the row with the highest seq; GENESIS when there is none.   *)
ReadLast(w) ==
  /\ writer[w].pc = "read"
  /\ writer' = [writer EXCEPT ![w] =
       [@ EXCEPT !.pc = "insert", !.prev = HeadHash(rows, Genesis)]]
  /\ UNCHANGED <<rows, nextSeq, lock, export, archive, anchor, emptied>>

(* Mutant: the lock is given up once the row is written.                   *)
MutantInsert(w) ==
  /\ writer[w].pc = "insert"
  /\ writer' = [writer EXCEPT ![w] = [@ EXCEPT !.pc = "commit", !.seq = nextSeq]]
  /\ nextSeq' = nextSeq + 1
  /\ lock' = Nobody
  /\ UNCHANGED <<rows, export, archive, anchor, emptied>>

Insert(w) ==
  /\ writer[w].pc = "insert"
  /\ writer' = [writer EXCEPT ![w] = [@ EXCEPT !.pc = "commit", !.seq = nextSeq]]
  /\ nextSeq' = nextSeq + 1
  /\ UNCHANGED <<rows, lock, export, archive, anchor, emptied>>

Row(w) == [seq |-> writer[w].seq, event |-> w, prev |-> writer[w].prev,
           hash |-> ComputeHash(writer[w].prev, w)]

(* The commit publishes the row and frees the lock; when its reply is lost *)
(* the caller is told AuditUnavailable all the same.                       *)
Commit(w) ==
  /\ writer[w].pc = "commit"
  /\ rows' = rows \cup {Row(w)}
  /\ lock' = IF lock = w THEN Nobody ELSE lock
  /\ GoWriter(w, "done") \/ GoWriter(w, "raised")
  /\ UNCHANGED <<nextSeq, export, archive, anchor, emptied>>

(* Mutant: the lock belongs to the session, which goes back to the pool.   *)
MutantAbort(w) ==
  /\ writer[w].pc \in {"lock", "read", "insert", "commit"}
  /\ GoWriter(w, "raised")
  /\ UNCHANGED <<rows, nextSeq, lock, export, archive, anchor, emptied>>

(* A statement fails or the process dies: PostgreSQL rolls back.           *)
Abort(w) ==
  /\ writer[w].pc \in {"lock", "read", "insert", "commit"}
  /\ lock' = IF lock = w THEN Nobody ELSE lock
  /\ GoWriter(w, "raised")
  /\ UNCHANGED <<rows, nextSeq, export, archive, anchor, emptied>>

-----------------------------------------------------------------------------
(* export, verify, prune                                                   *)

(* An export starts after the last archived row and may have an upper end  *)
(* (until_seq); 0 stands for none.                                         *)
BeginExport ==
  /\ export.pc = "idle"
  /\ \E until \in 0 .. nextSeq :
       export' = [pc |-> "query", last |-> LastSeq(archive), until |-> until, out |-> {}]
  /\ UNCHANGED <<rows, nextSeq, lock, writer, archive, anchor, emptied>>

(* Mutant: the row after the last one is skipped.                          *)
MutantInRange(r) == r.seq > export.last + 1 /\ (export.until = 0 \/ r.seq <= export.until)

InRange(r) == r.seq > export.last /\ (export.until = 0 \/ r.seq <= export.until)

(* One query, and no connection held between two: the BatchSize first rows *)
(* of what is left of the range, or fewer, and then it was the last query. *)
ExportBatch ==
  /\ export.pc = "query"
  /\ LET found == {r \in rows : InRange(r)} IN
     \/ \E top \in found :
          LET batch == {r \in found : r.seq <= top.seq} IN
          /\ \/ Cardinality(batch) = BatchSize
             \/ Cardinality(batch) < BatchSize /\ batch = found
          /\ export' = [export EXCEPT
               !.pc   = IF Cardinality(batch) < BatchSize THEN "verify" ELSE "query",
               !.last = top.seq,
               !.out  = @ \cup batch]
     \/ found = {} /\ export' = [export EXCEPT !.pc = "verify"]
  /\ UNCHANGED <<rows, nextSeq, lock, writer, archive, anchor, emptied>>

(* `hoc journal verify --archive`, from the head of the archive before it. *)
VerifyArchive ==
  /\ export.pc = "verify"
  /\ LET ok == VerifyRows(export.out, HeadHash(archive, Genesis)) IN
     /\ archive' = IF ok THEN archive \cup export.out ELSE archive
     /\ export' = [export EXCEPT !.pc = IF ok /\ export.out # {} THEN "prune" ELSE "idle",
                                 !.out = {}]
  /\ UNCHANGED <<rows, nextSeq, lock, writer, anchor, emptied>>

(* The DBA deletes the archived range, or leaves it there.                 *)
Prune ==
  /\ export.pc = "prune"
  /\ LET kept == {r \in rows : r.seq > LastSeq(archive)} IN
     \/ /\ rows' = kept
        /\ anchor' = HeadHash(archive, Genesis)
        /\ emptied' = (emptied \/ kept = {})
     \/ UNCHANGED <<rows, anchor, emptied>>
  /\ export' = [export EXCEPT !.pc = "idle"]
  /\ UNCHANGED <<nextSeq, lock, writer, archive>>

-----------------------------------------------------------------------------
Init ==
  /\ rows = {} /\ nextSeq = 1 /\ lock = Nobody
  /\ writer = [w \in Writers |-> [pc |-> "idle", prev |-> Genesis, seq |-> 0]]
  /\ export = [pc |-> "idle", last |-> 0, until |-> 0, out |-> {}]
  /\ archive = {} /\ anchor = Genesis /\ emptied = FALSE

Next ==
  \/ \E w \in Writers :
       BeginRecord(w) \/ TakeLock(w) \/ ReadLast(w) \/ Insert(w) \/ Commit(w) \/ Abort(w)
  \/ BeginExport \/ ExportBatch \/ VerifyArchive \/ Prune

Spec == Init /\ [][Next]_vars

(* PostgreSQL grants the lock in turn, and a transaction that has it goes  *)
(* on to its end.  Nothing makes a waiting call give up.                   *)
FairSpec ==
  Spec /\ \A w \in Writers :
            WF_vars(ReadLast(w) \/ Insert(w) \/ Commit(w)) /\ SF_vars(TakeLock(w))

-----------------------------------------------------------------------------
Hashes  == Seq(Writers)
RowType == [seq : Nat, event : Writers, prev : Hashes, hash : Hashes]
Pcs     == {"idle", "lock", "read", "insert", "commit", "done", "raised"}

WriterRec == [pc : Pcs, prev : Hashes, seq : Nat]
ExportRec == [pc : {"idle", "query", "verify", "prune"}, last : Nat, until : Nat,
              out : SUBSET RowType]

TypeOK ==
  /\ rows \subseteq RowType /\ archive \subseteq RowType
  /\ nextSeq \in Nat /\ anchor \in Hashes /\ emptied \in BOOLEAN
  /\ lock \in Writers \cup {Nobody}
  /\ writer \in [Writers -> WriterRec]
  /\ export \in ExportRec

Has(rs, w) == \E r \in rs : r.event = w

(* However many processes record at once, fail and die, the journal never  *)
(* forks: what is in the table verifies from the head recorded at the last *)
(* prune (postgres.py:26-62).  A prune of the whole table is left out: the *)
(* next row then starts at GENESIS again (see the README).                 *)
LiveVerifies == ~emptied => VerifyRows(rows, anchor)

(* What an export wrote, while rows were added between its queries, always *)
(* verifies from the head of the archive before it.                        *)
ExportsVerify ==
  ~emptied /\ export.pc = "verify" => VerifyRows(export.out, HeadHash(archive, Genesis))

(* An event whose record call returned is in the table or in an archive,   *)
(* exports and prunes running meanwhile: no row with a lower seq ever      *)
(* appears behind an export (postgres.py:93-122).                          *)
NothingLost == \A w \in Writers : writer[w].pc = "done" => Has(rows, w) \/ Has(archive, w)

(* Every call of record ends, whatever happens to the one before it in the *)
(* queue for the lock.                                                     *)
EveryRecordEnds ==
  \A w \in Writers : writer[w].pc = "lock" ~> writer[w].pc \in {"done", "raised"}
-----------------------------------------------------------------------------
(* The inductive invariant behind the proofs (JournalProofs).              *)

AllRows == rows \cup archive \cup export.out

HasLast(rs)   == rs = {} \/ \E r \in rs : \A q \in rs : q.seq <= r.seq
UniqueSeq(rs) == \A r, q \in rs : r.seq = q.seq => r = q

(* Whoever has read the last hash holds the lock.                          *)
LockHeld == \A w \in Writers : writer[w].pc \in {"read", "insert", "commit"} => lock = w

(* A row about to be committed comes after every other.                    *)
SeqBounds ==
  /\ nextSeq > 0
  /\ \A r \in AllRows : 0 < r.seq /\ r.seq < nextSeq
  /\ \A w \in Writers : writer[w].pc = "commit" =>
       /\ 0 < writer[w].seq /\ writer[w].seq < nextSeq
       /\ \A r \in AllRows : r.seq < writer[w].seq

Ordered ==
  /\ UniqueSeq(AllRows)
  /\ HasLast(rows) /\ HasLast(archive) /\ HasLast(export.out)
  /\ \A r \in rows : HasLast(Below(rows, r.seq))

(* The hash read is still the last one.                                    *)
PrevFresh ==
  ~emptied => \A w \in Writers :
    writer[w].pc \in {"insert", "commit"} => writer[w].prev = HeadHash(rows, anchor)

EmptyStart == ~emptied /\ rows = {} => anchor = Genesis

(* No row is left behind by an export.                                     *)
Covered ==
  /\ \A r \in rows : r.seq <= LastSeq(archive) => r \in archive
  /\ export.pc \in {"idle", "prune"} => export.out = {}
  /\ export.pc \in {"query", "verify"} =>
       /\ export.last = IF export.out = {} THEN LastSeq(archive) ELSE LastSeq(export.out)
       /\ export.out \subseteq rows
       /\ \A r \in export.out : r.seq > LastSeq(archive)
       /\ \A r \in rows : r.seq <= export.last => r \in archive \cup export.out
  /\ export.pc = "prune" => archive # {} /\ Last(archive) \in rows

(* The archive ends where the table begins, or inside it.                  *)
ArchiveHead ==
  ~emptied =>
    \/ HeadHash(archive, Genesis) = anchor /\ \A r \in rows : r.seq > LastSeq(archive)
    \/ archive # {} /\ Last(archive) \in rows

Inv ==
  /\ TypeOK /\ LockHeld /\ SeqBounds /\ Ordered /\ LiveVerifies /\ PrevFresh
  /\ EmptyStart /\ Covered /\ ArchiveHead /\ NothingLost
=============================================================================
