--------------------------- MODULE JournalProofs ---------------------------
(***************************************************************************)
(* Proofs about Journal, for any number of writers and any batch size.     *)
(***************************************************************************)
EXTENDS Journal, TLAPS

-----------------------------------------------------------------------------
(* Tables read in the order of their seq.                                  *)

(* The columns of a row have their types.                                  *)
LEMMA RowSeq == ASSUME NEW r \in RowType PROVE r.seq \in Nat /\ r.hash \in Hashes /\ r.prev \in Hashes
BY DEF RowType

(* Where there is a last row, Last finds it.                               *)
LEMMA LastProp ==
  ASSUME NEW rs, HasLast(rs), rs # {}
  PROVE  Last(rs) \in rs /\ \A q \in rs : q.seq <= Last(rs).seq
<1>1. PICK r \in rs : \A q \in rs : q.seq <= r.seq
  BY DEF HasLast
<1>. QED
  BY <1>1 DEF Last

(* The last row is unique where seq is.                                    *)
LEMMA LastIs ==
  ASSUME NEW rs \in SUBSET RowType, UniqueSeq(rs),
         NEW r \in rs, \A q \in rs : q.seq <= r.seq
  PROVE  Last(rs) = r /\ LastSeq(rs) = r.seq /\ \A from : HeadHash(rs, from) = r.hash
<1>1. HasLast(rs) /\ rs # {}
  BY DEF HasLast
<1>2. Last(rs) \in rs /\ r.seq <= Last(rs).seq /\ Last(rs).seq <= r.seq
  BY <1>1, LastProp
<1>3. Last(rs).seq \in Nat /\ r.seq \in Nat
  BY <1>2, RowSeq
<1>4. Last(rs).seq = r.seq
  BY <1>2, <1>3
<1>5. Last(rs) = r
  BY <1>2, <1>4 DEF UniqueSeq
<1>. QED
  BY <1>1, <1>5 DEF LastSeq, HeadHash

(* The hash a verification ends at is a hash.                              *)
LEMMA HeadIn ==
  ASSUME NEW rs \in SUBSET RowType, HasLast(rs), NEW from \in Hashes
  PROVE  HeadHash(rs, from) \in Hashes
<1>1. CASE rs = {}
  BY <1>1 DEF HeadHash
<1>2. CASE rs # {}
  BY <1>2, LastProp, RowSeq DEF HeadHash
<1>. QED
  BY <1>1, <1>2

(* The seq an export has reached is a number.                              *)
LEMMA LastSeqIn ==
  ASSUME NEW rs \in SUBSET RowType, HasLast(rs)
  PROVE  LastSeq(rs) \in Nat
<1>1. CASE rs = {}
  BY <1>1 DEF LastSeq
<1>2. CASE rs # {}
  BY <1>2, LastProp, RowSeq DEF LastSeq
<1>. QED
  BY <1>1, <1>2

(* Taking away the rows up to one that is there does not change what comes *)
(* before a later row.                                                     *)
LEMMA Suffix ==
  ASSUME NEW rs \in SUBSET RowType, UniqueSeq(rs), HasLast(rs),
         NEW n \in Nat, NEW ks, ks = {r \in rs : r.seq > n}, ks # {}
  PROVE  /\ HasLast(ks)
         /\ Last(ks) = Last(rs)
         /\ \A from, to : HeadHash(ks, from) = HeadHash(rs, to)
<1>1. rs # {}
  OBVIOUS
<1>2. Last(rs) \in rs /\ \A q \in rs : q.seq <= Last(rs).seq
  BY <1>1, LastProp
<1>3. PICK k \in ks : TRUE
  OBVIOUS
<1>4. k.seq \in Nat /\ Last(rs).seq \in Nat /\ k.seq > n /\ k.seq <= Last(rs).seq
  BY <1>2, <1>3, RowSeq
<1>5. Last(rs).seq > n
  BY <1>4
<1>6. Last(rs) \in ks /\ \A q \in ks : q.seq <= Last(rs).seq
  BY <1>2, <1>5
<1>7. ks \in SUBSET RowType /\ UniqueSeq(ks)
  BY DEF UniqueSeq
<1>8. Last(ks) = Last(rs)
  BY <1>6, <1>7, LastIs
<1>. QED
  BY <1>1, <1>6, <1>8 DEF HasLast, HeadHash

-----------------------------------------------------------------------------
(* Type correctness                                                        *)

(* Moving a record call on keeps its other fields.                         *)
LEMMA PcType ==
  ASSUME NEW x \in WriterRec, NEW p \in Pcs
  PROVE  [x EXCEPT !.pc = p] \in WriterRec
BY DEF WriterRec

(* An empty table, with nobody writing and nothing archived, satisfies the *)
(* inductive invariant (the state after the migration that creates         *)
(* audit_events).                                                          *)
THEOREM InitInv == Init => Inv
<1> SUFFICES ASSUME Init PROVE Inv
  OBVIOUS
<1>1. Genesis \in Hashes
  BY DEF Genesis, Hashes
<1>2. TypeOK
  BY <1>1 DEF Init, TypeOK, WriterRec, ExportRec, Pcs
<1>3. AllRows = {}
  BY DEF Init, AllRows
<1>4. LockHeld /\ SeqBounds /\ NothingLost /\ PrevFresh
  BY <1>3 DEF Init, LockHeld, SeqBounds, NothingLost, PrevFresh
<1>5. Ordered
  BY <1>3 DEF Init, Ordered, UniqueSeq, HasLast
<1>6. LiveVerifies /\ EmptyStart /\ Covered /\ ArchiveHead
  BY DEF Init, LiveVerifies, VerifyRows, EmptyStart, Covered, ArchiveHead, LastSeq, HeadHash
<1>. QED
  BY <1>2, <1>4, <1>5, <1>6 DEF Inv

(* Steps that leave the tables alone.                                      *)
LEMMA TablesSame ==
  ASSUME Inv, UNCHANGED <<rows, archive, export, anchor, emptied>>
  PROVE  /\ AllRows' = AllRows
         /\ Ordered' /\ LiveVerifies' /\ EmptyStart' /\ Covered' /\ ArchiveHead'
<1>1. AllRows' = AllRows
  BY DEF AllRows
<1>2. Ordered' /\ LiveVerifies' /\ EmptyStart' /\ Covered' /\ ArchiveHead'
  BY <1>1 DEF Inv, Ordered, LiveVerifies, EmptyStart, Covered, ArchiveHead
<1>. QED
  BY <1>1, <1>2

-----------------------------------------------------------------------------
(* The calls of record                                                     *)

(* A writer moves on without the tables; it holds the lock if it may.      *)
LEMMA WaitStep ==
  ASSUME Inv, NEW w \in Writers, BeginRecord(w) \/ TakeLock(w)
  PROVE  Inv'
<1> USE DEF Inv
<1>1. UNCHANGED <<rows, archive, export, anchor, emptied, nextSeq>>
  BY DEF BeginRecord, TakeLock
<1>2. AllRows' = AllRows /\ Ordered' /\ LiveVerifies' /\ EmptyStart' /\ Covered' /\ ArchiveHead'
  BY <1>1, TablesSame
<1>3. writer \in [Writers -> WriterRec]
  BY DEF TypeOK
<1>4. PICK p \in {"lock", "read"} : writer' = [writer EXCEPT ![w] = [@ EXCEPT !.pc = p]]
  BY DEF BeginRecord, TakeLock, GoWriter
<1>5. [writer[w] EXCEPT !.pc = p] \in WriterRec
  BY <1>3, PcType DEF Pcs
<1>6. writer' \in [Writers -> WriterRec]
  BY <1>3, <1>4, <1>5
<1>7. lock' \in Writers \cup {Nobody}
  BY DEF BeginRecord, TakeLock, TypeOK
<1>8. TypeOK'
  BY <1>1, <1>6, <1>7 DEF TypeOK
<1>9. \A v \in Writers : /\ v # w => writer'[v] = writer[v]
                         /\ v = w => writer'[v].pc = p /\ writer'[v].seq = writer[v].seq
  BY <1>3, <1>4 DEF WriterRec
<1>10. LockHeld'
  <2>1. CASE BeginRecord(w)
    <3>1. writer'[w].pc = "lock"
      BY <2>1, <1>3 DEF BeginRecord, GoWriter, WriterRec
    <3>. QED
      BY <2>1, <3>1, <1>9 DEF LockHeld, BeginRecord
  <2>2. CASE TakeLock(w)
    <3>1. \A v \in Writers : writer[v].pc \notin {"read", "insert", "commit"}
      BY <2>2, JournalConstants DEF LockHeld, TakeLock
    <3>. QED
      BY <2>2, <3>1, <1>9 DEF LockHeld, TakeLock
  <2>. QED
    BY <2>1, <2>2
<1>11. SeqBounds'
  BY <1>1, <1>2, <1>9 DEF SeqBounds
<1>12. PrevFresh'
  BY <1>1, <1>9 DEF PrevFresh
<1>13. NothingLost'
  BY <1>1, <1>9 DEF NothingLost
<1>. QED
  BY <1>2, <1>8, <1>10, <1>11, <1>12, <1>13

(* Without a prune of everything, an empty table starts at GENESIS, so     *)
(* that the hash read is the one verification expects.                     *)
LEMMA ReadStep ==
  ASSUME Inv, NEW w \in Writers, ReadLast(w)
  PROVE  Inv'
<1> USE DEF Inv
<1>1. UNCHANGED <<rows, archive, export, anchor, emptied, nextSeq, lock>>
  BY DEF ReadLast
<1>2. AllRows' = AllRows /\ Ordered' /\ LiveVerifies' /\ EmptyStart' /\ Covered' /\ ArchiveHead'
  BY <1>1, TablesSame
<1>3. writer \in [Writers -> WriterRec]
  BY DEF TypeOK
<1> DEFINE h == HeadHash(rows, Genesis)
<1>4. h \in Hashes
  <2>1. Genesis \in Hashes
    BY DEF Genesis, Hashes
  <2>. QED
    BY <2>1, HeadIn DEF TypeOK, Ordered
<1>5. writer' = [writer EXCEPT ![w] = [writer[w] EXCEPT !.pc = "insert", !.prev = h]]
  BY DEF ReadLast
<1>6. [writer[w] EXCEPT !.pc = "insert", !.prev = h] \in WriterRec
  BY <1>3, <1>4 DEF WriterRec, Pcs
<1>7. writer' \in [Writers -> WriterRec]
  BY <1>3, <1>5, <1>6
<1>8. TypeOK'
  BY <1>1, <1>7 DEF TypeOK
<1>9. \A v \in Writers : /\ v # w => writer'[v] = writer[v]
                         /\ v = w => writer'[v].pc = "insert" /\ writer'[v].prev = h
  BY <1>3, <1>5 DEF WriterRec
<1>10. LockHeld'
  BY <1>1, <1>9 DEF LockHeld, ReadLast
<1>11. SeqBounds'
  BY <1>1, <1>2, <1>9 DEF SeqBounds
<1>12. PrevFresh'
  <2>1. ~emptied => h = HeadHash(rows, anchor)
    BY DEF EmptyStart, HeadHash
  <2>. QED
    BY <2>1, <1>1, <1>9 DEF PrevFresh
<1>13. NothingLost'
  BY <1>1, <1>9 DEF NothingLost
<1>. QED
  BY <1>2, <1>8, <1>10, <1>11, <1>12, <1>13

(* The seq taken at the insert is above every row there is, and only the   *)
(* holder of the lock takes one (PostgresAuditSink.record).                *)
LEMMA InsertStep ==
  ASSUME Inv, NEW w \in Writers, Insert(w)
  PROVE  Inv'
<1> USE DEF Inv
<1>1. UNCHANGED <<rows, archive, export, anchor, emptied, lock>> /\ nextSeq' = nextSeq + 1
  BY DEF Insert
<1>2. AllRows' = AllRows /\ Ordered' /\ LiveVerifies' /\ EmptyStart' /\ Covered' /\ ArchiveHead'
  BY <1>1, TablesSame
<1>3. writer \in [Writers -> WriterRec] /\ nextSeq \in Nat
  BY DEF TypeOK
<1>4. writer' = [writer EXCEPT ![w] = [writer[w] EXCEPT !.pc = "commit", !.seq = nextSeq]]
  BY DEF Insert
<1>5. [writer[w] EXCEPT !.pc = "commit", !.seq = nextSeq] \in WriterRec
  BY <1>3 DEF WriterRec, Pcs
<1>6. writer' \in [Writers -> WriterRec]
  BY <1>3, <1>4, <1>5
<1>7. TypeOK'
  BY <1>1, <1>3, <1>6 DEF TypeOK
<1>8. \A v \in Writers : /\ v # w => writer'[v] = writer[v]
                         /\ v = w => /\ writer'[v].pc = "commit" /\ writer'[v].seq = nextSeq
                                     /\ writer'[v].prev = writer[v].prev
  BY <1>3, <1>4 DEF WriterRec
<1>9. LockHeld'
  BY <1>1, <1>8 DEF LockHeld, Insert
<1>10. \A v \in Writers : v # w => writer[v].pc # "commit"
  BY DEF LockHeld, Insert
<1>11. \A r \in AllRows : r.seq \in Nat
  BY RowSeq DEF TypeOK, AllRows, ExportRec
<1>12. SeqBounds'
  <2>1. \A r \in AllRows' : 0 < r.seq /\ r.seq < nextSeq'
    BY <1>1, <1>2, <1>3, <1>11 DEF SeqBounds
  <2>2. ASSUME NEW v \in Writers, writer'[v].pc = "commit"
        PROVE  /\ 0 < writer'[v].seq /\ writer'[v].seq < nextSeq'
               /\ \A r \in AllRows' : r.seq < writer'[v].seq
    <3>1. v = w
      BY <2>2, <1>8, <1>10
    <3>2. writer'[v].seq = nextSeq
      BY <3>1, <1>8
    <3>. QED
      BY <3>2, <1>1, <1>2, <1>3 DEF SeqBounds
  <2>. QED
    BY <1>1, <1>3, <2>1, <2>2 DEF SeqBounds
<1>13. PrevFresh'
  BY <1>1, <1>8 DEF PrevFresh, Insert
<1>14. NothingLost'
  BY <1>1, <1>8 DEF NothingLost
<1>. QED
  BY <1>2, <1>7, <1>9, <1>12, <1>13, <1>14

(* A transaction that fails or dies gives the lock back and leaves no row. *)
LEMMA AbortStep ==
  ASSUME Inv, NEW w \in Writers, Abort(w)
  PROVE  Inv'
<1> USE DEF Inv
<1>1. UNCHANGED <<rows, archive, export, anchor, emptied, nextSeq>>
  BY DEF Abort
<1>2. AllRows' = AllRows /\ Ordered' /\ LiveVerifies' /\ EmptyStart' /\ Covered' /\ ArchiveHead'
  BY <1>1, TablesSame
<1>3. writer \in [Writers -> WriterRec]
  BY DEF TypeOK
<1>4. writer' = [writer EXCEPT ![w] = [writer[w] EXCEPT !.pc = "raised"]]
  BY DEF Abort, GoWriter
<1>5. [writer[w] EXCEPT !.pc = "raised"] \in WriterRec
  BY <1>3, PcType DEF Pcs
<1>6. writer' \in [Writers -> WriterRec]
  BY <1>3, <1>4, <1>5
<1>7. lock' \in Writers \cup {Nobody}
  BY DEF Abort, TypeOK
<1>8. TypeOK'
  BY <1>1, <1>6, <1>7 DEF TypeOK
<1>9. \A v \in Writers : /\ v # w => writer'[v] = writer[v]
                         /\ v = w => writer'[v].pc = "raised"
  BY <1>3, <1>4 DEF WriterRec
<1>10. LockHeld'
  BY <1>9 DEF LockHeld, Abort
<1>11. SeqBounds'
  BY <1>1, <1>2, <1>9 DEF SeqBounds
<1>12. PrevFresh'
  BY <1>1, <1>9 DEF PrevFresh
<1>13. NothingLost'
  BY <1>1, <1>9 DEF NothingLost
<1>. QED
  BY <1>2, <1>8, <1>10, <1>11, <1>12, <1>13

(* The row committed comes after every row there is, and the hash it was   *)
(* chained to is that of the last one.                                     *)
LEMMA CommitStep ==
  ASSUME Inv, NEW w \in Writers, Commit(w)
  PROVE  Inv'
<1> USE DEF Inv
<1> DEFINE n == Row(w)
<1>1. /\ UNCHANGED <<archive, export, anchor, emptied, nextSeq>>
      /\ rows' = rows \cup {n}
      /\ writer[w].pc = "commit" /\ lock = w /\ lock' = Nobody
  BY DEF Commit, LockHeld
<1>2. writer \in [Writers -> WriterRec]
  BY DEF TypeOK
<1>3. PICK p \in {"done", "raised"} : writer' = [writer EXCEPT ![w] = [writer[w] EXCEPT !.pc = p]]
  BY DEF Commit, GoWriter
<1>4. [writer[w] EXCEPT !.pc = p] \in WriterRec
  BY <1>2, PcType DEF Pcs
<1>5. writer' \in [Writers -> WriterRec]
  BY <1>2, <1>3, <1>4
<1>6. \A v \in Writers : /\ v # w => writer'[v] = writer[v]
                         /\ v = w => writer'[v].pc = p
  BY <1>2, <1>3 DEF WriterRec
<1>7. \A v \in Writers : writer'[v].pc \notin {"read", "insert", "commit"}
  BY <1>1, <1>6 DEF LockHeld
<1>8. /\ n \in RowType /\ n.seq = writer[w].seq /\ n.event = w /\ n.prev = writer[w].prev
      /\ n.hash = ComputeHash(n.prev, n.event)
  <2>1. writer[w].prev \in Seq(Writers) /\ writer[w].seq \in Nat
    BY <1>2 DEF WriterRec, Hashes
  <2>2. ComputeHash(writer[w].prev, w) \in Hashes
    BY <2>1 DEF ComputeHash, Hashes
  <2>. QED
    BY <2>1, <2>2 DEF Row, RowType, Hashes
<1> HIDE DEF n
<1>9. AllRows' = AllRows \cup {n}
  BY <1>1 DEF AllRows
<1>10. \A r \in AllRows : r.seq < n.seq
  BY <1>1, <1>8 DEF SeqBounds
<1>11. \A r \in AllRows : r \in RowType /\ r.seq \in Nat
  BY RowSeq DEF TypeOK, AllRows, ExportRec
<1>12. n.seq \in Nat /\ 0 < n.seq /\ n.seq < nextSeq
  BY <1>1, <1>8, RowSeq DEF SeqBounds
<1>13. rows \subseteq AllRows /\ archive \subseteq AllRows /\ export.out \subseteq AllRows
  BY DEF AllRows
<1>14. TypeOK'
  BY <1>1, <1>5, <1>8 DEF TypeOK
<1>15. LockHeld' /\ PrevFresh'
  BY <1>7 DEF LockHeld, PrevFresh
<1>16. SeqBounds'
  BY <1>1, <1>7, <1>9, <1>12 DEF SeqBounds
<1>17. UniqueSeq(AllRows')
  BY <1>9, <1>10, <1>11, <1>12 DEF Ordered, UniqueSeq
<1>18. \A r \in rows' : r.seq <= n.seq
  BY <1>1, <1>10, <1>11, <1>12, <1>13
<1>19. \A r \in rows : Below(rows', r.seq) = Below(rows, r.seq)
  BY <1>1, <1>10, <1>11, <1>12, <1>13 DEF Below
<1>20. Below(rows', n.seq) = rows
  BY <1>1, <1>10, <1>11, <1>12, <1>13 DEF Below
<1>21. Ordered'
  <2>1. HasLast(rows')
    BY <1>1, <1>18 DEF HasLast
  <2>2. \A r \in rows' : HasLast(Below(rows', r.seq))
    BY <1>1, <1>19, <1>20 DEF Ordered
  <2>. QED
    BY <1>1, <1>17, <2>1, <2>2 DEF Ordered
<1>22. LiveVerifies'
  <2> SUFFICES ASSUME ~emptied PROVE VerifyRows(rows', anchor)
    BY <1>1 DEF LiveVerifies
  <2>1. n.prev = HeadHash(Below(rows', n.seq), anchor)
    BY <1>1, <1>8, <1>20 DEF PrevFresh
  <2>2. \A r \in rows : r.prev = HeadHash(Below(rows', r.seq), anchor)
    BY <1>19 DEF LiveVerifies, VerifyRows
  <2>. QED
    BY <1>1, <1>8, <2>1, <2>2 DEF LiveVerifies, VerifyRows
<1>23. EmptyStart'
  BY <1>1 DEF EmptyStart
<1>24. n.seq > LastSeq(archive)
  <2>1. CASE archive = {}
    BY <2>1, <1>12 DEF LastSeq
  <2>2. CASE archive # {}
    <3>1. Last(archive) \in archive
      BY <2>2, LastProp DEF Ordered
    <3>. QED
      BY <2>2, <3>1, <1>10, <1>11, <1>12, <1>13 DEF LastSeq
  <2>. QED
    BY <2>1, <2>2
<1>25. export.pc \in {"query", "verify"} => n.seq > export.last
  <2>1. CASE export.out = {}
    BY <2>1, <1>24 DEF Covered
  <2>2. CASE export.out # {}
    <3>1. Last(export.out) \in export.out
      BY <2>2, LastProp DEF Ordered
    <3>. QED
      BY <2>2, <3>1, <1>10, <1>11, <1>12, <1>13 DEF Covered, LastSeq
  <2>. QED
    BY <2>1, <2>2
<1>26. LastSeq(archive) \in Nat /\ export.last \in Nat
  BY LastSeqIn DEF TypeOK, Ordered, ExportRec
<1>27. Covered'
  <2>1. \A r \in rows' : r.seq <= LastSeq(archive) => r \in archive
    BY <1>1, <1>12, <1>24, <1>26 DEF Covered
  <2>2. export.pc \in {"query", "verify"} =>
          \A r \in rows' : r.seq <= export.last => r \in archive \cup export.out
    BY <1>1, <1>12, <1>25, <1>26 DEF Covered
  <2>. QED
    BY <1>1, <2>1, <2>2 DEF Covered
<1>28. ArchiveHead'
  BY <1>1, <1>24 DEF ArchiveHead
<1>29. NothingLost'
  BY <1>1, <1>6, <1>8 DEF NothingLost, Has
<1>. QED
  BY <1>14, <1>15, <1>16, <1>21, <1>22, <1>23, <1>27, <1>28, <1>29

-----------------------------------------------------------------------------
(* The export and the prune                                                *)

(* They leave the writers alone and add no row.                            *)
LEMMA WritersSame ==
  ASSUME Inv, UNCHANGED <<nextSeq, lock, writer>>, AllRows' \subseteq AllRows
  PROVE  LockHeld' /\ SeqBounds' /\ UniqueSeq(AllRows')
BY DEF Inv, LockHeld, SeqBounds, Ordered, UniqueSeq

(* An export starts at the head of the last archive.                       *)
LEMMA BeginExportStep ==
  ASSUME Inv, BeginExport
  PROVE  Inv'
<1> USE DEF Inv
<1>1. UNCHANGED <<rows, nextSeq, lock, writer, archive, anchor, emptied>> /\ export.pc = "idle"
  BY DEF BeginExport
<1>2. PICK until \in 0 .. nextSeq :
        export' = [pc |-> "query", last |-> LastSeq(archive), until |-> until, out |-> {}]
  BY DEF BeginExport
<1>3. export'.pc = "query" /\ export'.last = LastSeq(archive) /\ export'.out = {}
  BY <1>2
<1>4. export' \in ExportRec
  <2>1. LastSeq(archive) \in Nat /\ until \in Nat
    BY LastSeqIn DEF TypeOK, Ordered
  <2>. QED
    BY <1>2, <2>1 DEF ExportRec
<1>5. TypeOK'
  BY <1>1, <1>4 DEF TypeOK
<1>6. AllRows' = AllRows
  BY <1>1, <1>3 DEF AllRows, Covered
<1>7. LockHeld' /\ SeqBounds' /\ UniqueSeq(AllRows')
  BY <1>1, <1>6, WritersSame
<1>8. Ordered'
  BY <1>1, <1>3, <1>7 DEF Ordered, HasLast
<1>9. LiveVerifies' /\ PrevFresh' /\ EmptyStart' /\ ArchiveHead' /\ NothingLost'
  BY <1>1 DEF LiveVerifies, PrevFresh, EmptyStart, ArchiveHead, NothingLost
<1>10. Covered'
  BY <1>1, <1>3 DEF Covered
<1>. QED
  BY <1>5, <1>7, <1>8, <1>9, <1>10

(* A batch takes the next rows by seq; rows committed later come after all *)
(* of them.                                                                *)
LEMMA ExportBatchStep ==
  ASSUME Inv, ExportBatch
  PROVE  Inv'
<1> USE DEF Inv
<1>1. UNCHANGED <<rows, nextSeq, lock, writer, archive, anchor, emptied>> /\ export.pc = "query"
  BY DEF ExportBatch
<1>2. export \in ExportRec
  BY DEF TypeOK
<1>3. LiveVerifies' /\ PrevFresh' /\ EmptyStart' /\ ArchiveHead' /\ NothingLost'
  BY <1>1 DEF LiveVerifies, PrevFresh, EmptyStart, ArchiveHead, NothingLost
<1> DEFINE found == {r \in rows : InRange(r)}
<1>4. CASE found = {} /\ export' = [export EXCEPT !.pc = "verify"]
  <2>1. export' \in ExportRec /\ export'.pc = "verify" /\ export'.out = export.out
        /\ export'.last = export.last
    BY <1>2, <1>4 DEF ExportRec
  <2>2. TypeOK'
    BY <1>1, <2>1 DEF TypeOK
  <2>3. AllRows' = AllRows
    BY <1>1, <2>1 DEF AllRows
  <2>4. LockHeld' /\ SeqBounds' /\ UniqueSeq(AllRows')
    BY <1>1, <2>3, WritersSame
  <2>5. Ordered'
    BY <1>1, <2>1, <2>4 DEF Ordered
  <2>6. Covered'
    BY <1>1, <2>1 DEF Covered
  <2>. QED
    BY <1>3, <2>2, <2>4, <2>5, <2>6
<1>5. ASSUME NEW top \in found, NEW p \in {"verify", "query"},
             export' = [export EXCEPT !.pc = p, !.last = top.seq,
                          !.out = export.out \cup {r \in found : r.seq <= top.seq}]
      PROVE  Inv'
  <2> DEFINE batch == {r \in found : r.seq <= top.seq}
  <2>1. /\ export'.pc = p /\ export'.last = top.seq
        /\ export'.out = export.out \cup batch /\ export'.until = export.until
    BY <1>2, <1>5 DEF ExportRec
  <2>2. top \in rows /\ InRange(top) /\ top \in batch /\ batch \subseteq rows /\ top.seq \in Nat
    BY RowSeq DEF TypeOK
  <2>3. export' \in ExportRec
    <3>1. export.out \cup batch \in SUBSET RowType
      BY <1>2, <2>2 DEF TypeOK, ExportRec
    <3>. QED
      BY <1>2, <1>5, <2>2, <3>1 DEF ExportRec
  <2>4. TypeOK'
    BY <1>1, <2>3 DEF TypeOK
  <2>5. AllRows' = AllRows
    BY <1>1, <2>1, <2>2 DEF AllRows
  <2>6. LockHeld' /\ SeqBounds' /\ UniqueSeq(AllRows')
    BY <1>1, <2>5, WritersSame
  <2>7. export.last \in Nat /\ export.until \in Nat /\ LastSeq(archive) \in Nat
    BY <1>2, LastSeqIn DEF TypeOK, Ordered, ExportRec
  <2>8. \A r \in rows \cup export.out : r.seq \in Nat
    BY RowSeq DEF TypeOK, ExportRec
  <2>9. /\ \A q \in export.out : q.seq <= export.last
        /\ export.last >= LastSeq(archive)
    <3>1. CASE export.out = {}
      BY <3>1, <1>1, <2>7 DEF Covered
    <3>2. CASE export.out # {}
      <4>1. Last(export.out) \in export.out /\ \A q \in export.out : q.seq <= Last(export.out).seq
        BY <3>2, LastProp DEF Ordered
      <4>. QED
        BY <1>1, <3>2, <4>1, <2>7, <2>8 DEF Covered, LastSeq
    <3>. QED
      BY <3>1, <3>2
  <2>10. top.seq > export.last
    BY <2>2 DEF InRange
  <2>11. \A q \in export'.out : q.seq <= top.seq
    BY <2>1, <2>2, <2>7, <2>8, <2>9, <2>10
  <2>12. HasLast(export'.out)
    BY <2>1, <2>2, <2>11 DEF HasLast
  <2>13. Ordered'
    BY <1>1, <2>6, <2>12 DEF Ordered
  <2>14. LastSeq(export'.out) = top.seq /\ export'.out # {}
    <3>1. UniqueSeq(export'.out) /\ export'.out \in SUBSET RowType
      BY <2>6, <2>4 DEF AllRows, UniqueSeq, TypeOK, ExportRec
    <3>. QED
      BY <3>1, <2>1, <2>2, <2>11, LastIs
  <2>15. \A r \in export'.out : r.seq > LastSeq(archive)
    <3>1. \A r \in batch : r.seq > export.last
      BY DEF InRange
    <3>. QED
      BY <1>1, <2>1, <2>2, <2>7, <2>8, <2>9, <3>1 DEF Covered
  <2>16. ASSUME NEW r \in rows, r.seq <= top.seq
         PROVE  r \in archive \cup export'.out
    <3>1. CASE r.seq <= export.last
      BY <3>1, <1>1, <2>1 DEF Covered
    <3>2. CASE r.seq > export.last
      <4>1. InRange(r)
        BY <3>2, <2>2, <2>7, <2>8, <2>16 DEF InRange
      <4>. QED
        BY <4>1, <2>1, <2>16
    <3>. QED
      BY <3>1, <3>2, <2>7, <2>8
  <2>17. Covered'
    BY <1>1, <2>1, <2>2, <2>14, <2>15, <2>16 DEF Covered
  <2>. QED
    BY <1>3, <2>4, <2>6, <2>13, <2>17
<1>. QED
  BY <1>4, <1>5 DEF ExportBatch

(* An export that has read everything becomes the archive, and verifies.   *)
LEMMA VerifyArchiveStep ==
  ASSUME Inv, VerifyArchive
  PROVE  Inv'
<1> USE DEF Inv
<1> DEFINE ok == VerifyRows(export.out, HeadHash(archive, Genesis))
<1>1. /\ UNCHANGED <<rows, nextSeq, lock, writer, anchor, emptied>> /\ export.pc = "verify"
      /\ archive' = IF ok THEN archive \cup export.out ELSE archive
      /\ export' = [export EXCEPT !.pc = IF ok /\ export.out # {} THEN "prune" ELSE "idle",
                                  !.out = {}]
  BY DEF VerifyArchive
<1> HIDE DEF ok
<1>2. export \in ExportRec
  BY DEF TypeOK
<1>3. /\ export' \in ExportRec /\ export'.out = {}
      /\ export'.pc = IF ok /\ export.out # {} THEN "prune" ELSE "idle"
  BY <1>1, <1>2 DEF ExportRec
<1>4. TypeOK'
  BY <1>1, <1>2, <1>3 DEF TypeOK, ExportRec
<1>5. AllRows' \subseteq AllRows
  BY <1>1, <1>3 DEF AllRows
<1>6. LockHeld' /\ SeqBounds' /\ UniqueSeq(AllRows')
  BY <1>1, <1>5, WritersSame
<1>7. LiveVerifies' /\ PrevFresh' /\ EmptyStart'
  BY <1>1 DEF LiveVerifies, PrevFresh, EmptyStart
<1>8. NothingLost'
  BY <1>1 DEF NothingLost, Has
<1>9. CASE ~ok \/ export.out = {}
  <2>1. archive' = archive /\ export'.pc = "idle"
    BY <1>1, <1>3, <1>9
  <2>2. Ordered'
    BY <1>1, <1>3, <1>6, <2>1 DEF Ordered, HasLast
  <2>3. Covered' /\ ArchiveHead'
    BY <1>1, <1>3, <2>1 DEF Covered, ArchiveHead
  <2>. QED
    BY <1>4, <1>6, <1>7, <1>8, <2>2, <2>3
<1>10. CASE ok /\ export.out # {}
  <2>1. archive' = archive \cup export.out /\ export'.pc = "prune"
    BY <1>1, <1>3, <1>10
  <2> DEFINE top == Last(export.out)
  <2>2. top \in export.out /\ \A q \in export.out : q.seq <= top.seq
    BY <1>10, LastProp DEF Ordered
  <2> HIDE DEF top
  <2>3. top.seq \in Nat /\ top \in rows /\ top.seq > LastSeq(archive) /\ LastSeq(archive) \in Nat
    BY <1>1, <2>2, RowSeq, LastSeqIn DEF Covered, TypeOK, Ordered
  <2>4. \A q \in archive : q.seq \in Nat /\ q.seq <= LastSeq(archive)
    BY LastProp, RowSeq DEF TypeOK, Ordered, LastSeq
  <2>5. \A q \in archive' : q.seq <= top.seq
    BY <2>1, <2>2, <2>3, <2>4
  <2>6. UniqueSeq(archive') /\ archive' \in SUBSET RowType
    BY <1>4, <1>6 DEF AllRows, UniqueSeq, TypeOK
  <2>7. Last(archive') = top /\ LastSeq(archive') = top.seq /\ archive' # {}
    BY <2>1, <2>2, <2>5, <2>6, LastIs
  <2>8. Ordered'
    BY <1>1, <1>3, <1>6, <2>1, <2>2, <2>5 DEF Ordered, HasLast
  <2>9. export.last = top.seq
    BY <1>1, <1>10 DEF Covered, LastSeq, top
  <2>10. Covered'
    BY <1>1, <1>3, <2>1, <2>3, <2>7, <2>9 DEF Covered
  <2>11. ArchiveHead'
    BY <1>1, <2>3, <2>7 DEF ArchiveHead
  <2>. QED
    BY <1>4, <1>6, <1>7, <1>8, <2>8, <2>10, <2>11
<1>. QED
  BY <1>9, <1>10

(* What is left after a prune starts at the head of the archive.           *)
LEMMA PruneStep ==
  ASSUME Inv, Prune
  PROVE  Inv'
<1> USE DEF Inv
<1> DEFINE n    == LastSeq(archive)
           kept == {r \in rows : r.seq > n}
<1>1. /\ UNCHANGED <<nextSeq, lock, writer, archive>> /\ export.pc = "prune"
      /\ export' = [export EXCEPT !.pc = "idle"]
  BY DEF Prune
<1>2. export' \in ExportRec /\ export'.pc = "idle" /\ export'.out = {}
  BY <1>1 DEF TypeOK, ExportRec, Covered
<1>3. CASE UNCHANGED <<rows, anchor, emptied>>
  <2>1. TypeOK'
    BY <1>1, <1>2, <1>3 DEF TypeOK
  <2>2. AllRows' \subseteq AllRows
    BY <1>1, <1>2, <1>3 DEF AllRows
  <2>3. LockHeld' /\ SeqBounds' /\ UniqueSeq(AllRows')
    BY <1>1, <2>2, WritersSame
  <2>4. Ordered'
    BY <1>1, <1>2, <1>3, <2>3 DEF Ordered, HasLast
  <2>5. LiveVerifies' /\ PrevFresh' /\ EmptyStart' /\ ArchiveHead' /\ NothingLost'
    BY <1>1, <1>3 DEF LiveVerifies, PrevFresh, EmptyStart, ArchiveHead, NothingLost
  <2>6. Covered'
    BY <1>1, <1>2, <1>3 DEF Covered
  <2>. QED
    BY <2>1, <2>3, <2>4, <2>5, <2>6
<1>4. CASE /\ rows' = kept /\ anchor' = HeadHash(archive, Genesis)
           /\ emptied' = (emptied \/ kept = {})
  <2>1. n \in Nat /\ rows \in SUBSET RowType /\ \A r \in rows : r.seq \in Nat
    BY LastSeqIn, RowSeq DEF TypeOK, Ordered
  <2>2. UniqueSeq(rows)
    BY DEF Ordered, UniqueSeq, AllRows
  <2> DEFINE a == Last(archive)
  <2>3. a \in rows /\ a.seq = n /\ HeadHash(archive, Genesis) = a.hash
    BY <1>1 DEF Covered, LastSeq, HeadHash
  <2> HIDE DEF a, n
  <2>4. TypeOK'
    <3>1. HeadHash(archive, Genesis) \in Hashes
      BY <2>1, <2>3, RowSeq
    <3>. QED
      BY <1>1, <1>2, <1>4, <2>1, <3>1 DEF TypeOK
  <2>5. AllRows' \subseteq AllRows
    BY <1>1, <1>2, <1>4 DEF AllRows
  <2>6. LockHeld' /\ SeqBounds' /\ UniqueSeq(AllRows')
    BY <1>1, <2>5, WritersSame
  <2>7. HasLast(kept)
    <3>1. CASE kept = {}
      BY <3>1 DEF HasLast
    <3>2. CASE kept # {}
      BY <3>2, <2>1, <2>2, Suffix DEF Ordered
    <3>. QED
      BY <3>1, <3>2
  <2>8. ASSUME NEW r \in kept
        PROVE  /\ HasLast(Below(kept, r.seq))
               /\ ~emptied => r.prev = HeadHash(Below(kept, r.seq), a.hash)
    <3> DEFINE before == Below(rows, r.seq)
               still  == Below(kept, r.seq)
    <3>1. before \in SUBSET RowType /\ UniqueSeq(before) /\ HasLast(before)
      BY <2>1, <2>2, <2>8 DEF Below, UniqueSeq, Ordered
    <3>2. still = {q \in before : q.seq > n}
      BY DEF Below
    <3>3. ~emptied => r.prev = HeadHash(before, anchor)
      BY <2>8 DEF LiveVerifies, VerifyRows
    <3> HIDE DEF before, still
    <3>4. CASE still # {}
      <4>1. HasLast(still) /\ HeadHash(still, a.hash) = HeadHash(before, anchor)
        BY <2>1, <3>1, <3>2, <3>4, Suffix
      <4>. QED
        BY <3>3, <4>1 DEF still
    <3>5. CASE still = {}
      <4>1. a \in before
        BY <2>1, <2>3, <2>8 DEF before, Below
      <4>2. \A q \in before : q.seq <= a.seq
        BY <2>1, <2>3, <3>2, <3>5 DEF before, Below
      <4>3. HeadHash(before, anchor) = a.hash
        BY <3>1, <4>1, <4>2, LastIs
      <4>. QED
        BY <3>3, <3>5, <4>3 DEF still, HasLast, HeadHash
    <3>. QED
      BY <3>4, <3>5
  <2>9. Ordered'
    BY <1>1, <1>2, <1>4, <2>6, <2>7, <2>8 DEF Ordered, HasLast
  <2>10. LiveVerifies'
    BY <1>4, <2>3, <2>8 DEF LiveVerifies, VerifyRows
  <2>11. PrevFresh'
    <3> SUFFICES ASSUME ~emptied, kept # {}
                 PROVE  HeadHash(kept, a.hash) = HeadHash(rows, anchor)
      BY <1>1, <1>4, <2>3 DEF PrevFresh
    <3>. QED
      BY <2>1, <2>2, Suffix DEF Ordered
  <2>12. EmptyStart'
    BY <1>4 DEF EmptyStart
  <2>13. Covered'
    BY <1>1, <1>2, <1>4, <2>1 DEF Covered, n
  <2>14. ArchiveHead'
    BY <1>1, <1>4 DEF ArchiveHead, n
  <2>15. NothingLost'
    <3>1. \A r \in rows : r \in kept \/ r \in archive
      BY <2>1 DEF Covered, n
    <3>. QED
      BY <1>1, <1>4, <3>1 DEF NothingLost, Has
  <2>. QED
    BY <2>4, <2>6, <2>9, <2>10, <2>11, <2>12, <2>13, <2>14, <2>15
<1>. QED
  BY <1>3, <1>4 DEF Prune

-----------------------------------------------------------------------------
(* The results                                                             *)

(* The inductive invariant of the journal: whoever is about to append      *)
(* holds the lock and the hash of the last row, and no export leaves a row *)
(* behind.                                                                 *)
THEOREM Invariant == Spec => []Inv
<1>1. Inv /\ [Next]_vars => Inv'
  <2> SUFFICES ASSUME Inv, [Next]_vars PROVE Inv'
    OBVIOUS
  <2>1. ASSUME NEW w \in Writers,
               BeginRecord(w) \/ TakeLock(w) \/ ReadLast(w) \/ Insert(w) \/ Commit(w) \/ Abort(w)
        PROVE  Inv'
    BY <2>1, WaitStep, ReadStep, InsertStep, CommitStep, AbortStep
  <2>2. CASE BeginExport \/ ExportBatch \/ VerifyArchive \/ Prune
    BY <2>2, BeginExportStep, ExportBatchStep, VerifyArchiveStep, PruneStep
  <2>3. CASE UNCHANGED vars
    <3>1. UNCHANGED <<rows, archive, export, anchor, emptied>>
      BY <2>3 DEF vars
    <3>2. AllRows' = AllRows /\ Ordered' /\ LiveVerifies' /\ EmptyStart' /\ Covered' /\ ArchiveHead'
      BY <3>1, TablesSame
    <3>3. UNCHANGED <<nextSeq, lock, writer>>
      BY <2>3 DEF vars
    <3>4. LockHeld' /\ SeqBounds'
      BY <3>2, <3>3, WritersSame
    <3>5. TypeOK' /\ PrevFresh' /\ NothingLost'
      BY <3>1, <3>3 DEF Inv, TypeOK, PrevFresh, NothingLost
    <3>. QED
      BY <3>2, <3>4, <3>5 DEF Inv
  <2>. QED
    BY <2>1, <2>2, <2>3 DEF Next
<1>. QED
  BY InitInv, <1>1, PTL DEF Spec

(* The chain never forks, for any number of concurrent writers: the table  *)
(* verifies from the head recorded at the last prune                       *)
(* (PostgresAuditSink.record).                                             *)
THEOREM ChainNeverForks == Spec => []LiveVerifies
<1>1. Inv => LiveVerifies
  BY DEF Inv
<1>. QED
  BY Invariant, <1>1, PTL

(* An event whose record call returned is in the table or in an archive,   *)
(* for any batch size of the exports that run meanwhile.                   *)
THEOREM AcknowledgedEventsStay == Spec => []NothingLost
<1>1. Inv => NothingLost
  BY DEF Inv
<1>. QED
  BY Invariant, <1>1, PTL

(* Every finished export verifies from the head of the archive before it:  *)
(* its queries, with appends in between, leave no gap.                     *)
THEOREM ExportsAreWhole == Spec => []ExportsVerify
<1>1. ASSUME Inv PROVE ExportsVerify
  <2> SUFFICES ASSUME ~emptied, export.pc = "verify", NEW r \in export.out
               PROVE  /\ r.prev = HeadHash(Below(export.out, r.seq), HeadHash(archive, Genesis))
                      /\ r.hash = ComputeHash(r.prev, r.event)
    BY DEF ExportsVerify, VerifyRows
  <2> USE <1>1 DEF Inv
  <2> DEFINE n      == LastSeq(archive)
             before == Below(rows, r.seq)
             out    == Below(export.out, r.seq)
  <2>1. r \in rows /\ r.seq > n /\ export.out \subseteq rows
    BY DEF Covered
  <2>2. /\ rows \in SUBSET RowType /\ n \in Nat
        /\ \A q \in rows \cup archive : q.seq \in Nat
    BY LastSeqIn, RowSeq DEF TypeOK, Ordered
  <2>3. r.hash = ComputeHash(r.prev, r.event) /\ r.prev = HeadHash(before, anchor)
    BY <2>1 DEF LiveVerifies, VerifyRows
  <2>4. before \in SUBSET RowType /\ UniqueSeq(before) /\ HasLast(before)
    BY <2>1, <2>2 DEF Below, Ordered, UniqueSeq, AllRows
  <2>5. r.seq <= export.last
    <3>1. Last(export.out) \in export.out /\ r.seq <= Last(export.out).seq
      BY LastProp DEF Ordered
    <3>. QED
      BY <3>1 DEF Covered, LastSeq
  <2>6. \A q \in archive : q.seq <= n
    BY LastProp DEF Ordered, LastSeq
  <2>7. export.last \in Nat
    BY DEF TypeOK, ExportRec
  <2>8. out = {q \in before : q.seq > n}
    <3>1. \A q \in before : q.seq > n => q \in export.out
      <4> SUFFICES ASSUME NEW q \in before, q.seq > n PROVE q \in export.out
        OBVIOUS
      <4>1. q \in rows /\ q.seq <= export.last
        BY <2>1, <2>2, <2>5, <2>7 DEF Below
      <4>2. q \in archive \cup export.out
        BY <4>1 DEF Covered
      <4>3. q \notin archive
        BY <2>2, <2>6
      <4>. QED
        BY <4>2, <4>3
    <3>. QED
      BY <3>1, <2>1 DEF Below, Covered
  <2>9. CASE out # {}
    <3>1. HeadHash(out, HeadHash(archive, Genesis)) = HeadHash(before, anchor)
      BY <2>2, <2>4, <2>8, <2>9, Suffix
    <3>. QED
      BY <2>3, <3>1
  <2>10. CASE out = {}
    <3>1. HeadHash(out, HeadHash(archive, Genesis)) = HeadHash(archive, Genesis)
      BY <2>10 DEF HeadHash
    <3>2. HeadHash(before, anchor) = HeadHash(archive, Genesis)
      <4>1. CASE HeadHash(archive, Genesis) = anchor /\ \A q \in rows : q.seq > n
        <5>1. before = {}
          BY <2>8, <2>10, <4>1 DEF Below
        <5>. QED
          BY <4>1, <5>1 DEF HeadHash
      <4>2. CASE archive # {} /\ Last(archive) \in rows
        <5>1. Last(archive).seq = n /\ HeadHash(archive, Genesis) = Last(archive).hash
          BY <4>2 DEF LastSeq, HeadHash
        <5>2. Last(archive) \in before
          BY <2>1, <2>2, <4>2, <5>1 DEF Below
        <5>3. \A q \in before : q.seq <= Last(archive).seq
          BY <2>2, <2>4, <2>8, <2>10, <5>1 DEF Below
        <5>. QED
          BY <2>4, <5>1, <5>2, <5>3, LastIs
      <4>. QED
        BY <4>1, <4>2 DEF ArchiveHead
    <3>. QED
      BY <2>3, <3>1, <3>2
  <2>. QED
    BY <2>3, <2>9, <2>10
<1>. QED
  BY Invariant, <1>1, PTL

=============================================================================
