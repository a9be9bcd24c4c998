----------------------- MODULE CatalogLedger_proofs -----------------------
(***************************************************************************)
(* Proofs about CatalogLedger, for every set of commands, sequences,       *)
(* digests and stamps and for every number of faults.                      *)
(*                                                                         *)
(* LedgerInv is inductive: one lemma per action (actions that only end a   *)
(* command share EndOfCommand, those that only jump to "done" share        *)
(* Conclusion), and in each lemma one step per conjunct of the invariant.  *)
(***************************************************************************)
EXTENDS CatalogLedger, TLAPS

\* An approval sequence is a number.
LEMMA SnapSeq == \A s \in Snap : s.seq \in Nat
  BY SeqsAssumption DEF Snap

\* The initial state, an empty profile, satisfies the invariant.
LEMMA InitInv == Init => LedgerInv
<1> SUFFICES ASSUME Init PROVE LedgerInv
  OBVIOUS
<1> USE DistinctAssumption, FaultsAssumption DEF Init
<1>1. TypeOK
  BY DEF TypeOK, Labels, LockedOps
<1>2. ControlFlow
  BY DEF ControlFlow, WritingLabels
<1>3. LockOwner
  BY DEF LockOwner, InTransaction, LockedOps
<1>4. Grounded
  BY DEF Grounded, OnePerSequence
<1>5. \A p \in Procs : InTransaction(p) => Progress(p)
  BY DEF InTransaction
<1>6. FaultFree
  BY DEF FaultFree, Complete, Settled, InTransaction
<1> QED
  BY <1>1, <1>2, <1>3, <1>4, <1>5, <1>6 DEF LedgerInv

\* A command that changed nothing since it verified ends and releases its lock.
LEMMA EndOfCommand ==
  ASSUME LedgerInv, NEW p \in Procs, Exits(p), UNCHANGED <<files, faults>>,
         pc[p] \notin WritingLabels
  PROVE  LedgerInv'
<1> USE DistinctAssumption, FaultsAssumption, SnapSeq DEF LedgerInv, Exits, Forgets, Goto, files
<1>1. TypeOK'
  BY DEF TypeOK, Labels, LockedOps, ControlFlow, WritingLabels
<1>2. ControlFlow'
  BY DEF TypeOK, ControlFlow, WritingLabels, LockOwner, InTransaction, LockedOps
<1>3. LockOwner'
  BY DEF TypeOK, ControlFlow, LockOwner, InTransaction, LockedOps, WritingLabels
<1>4. Grounded'
  BY DEF TypeOK, Grounded, ControlFlow, WritingLabels, LockOwner, InTransaction,
         LockedOps, Progress, OnePerSequence, Settled, UpToDate, Successor, HighWaterOf
<1>5. (\A q \in Procs : InTransaction(q) => Progress(q))'
  BY DEF TypeOK, Grounded, ControlFlow, LockOwner, InTransaction, LockedOps, Progress,
         WritingLabels, Settled, UpToDate, Successor, HighWaterOf
<1>6. FaultFree'
  BY DEF TypeOK, Grounded, ControlFlow, LockOwner, LockedOps, Progress, FaultFree, Complete,
         Settled, UpToDate, InTransaction, WritingLabels, HighWaterOf
<1> QED
  BY <1>1, <1>2, <1>3, <1>4, <1>5, <1>6

\* A loading command jumps to its end.
LEMMA Conclusion ==
  ASSUME LedgerInv, NEW p \in Procs, op[p] \notin {"none", "ingest"}, Goto(p, "done"),
         pc[p] = "decide", UNCHANGED <<lock, files, locals, faults>>
  PROVE  LedgerInv'
<1> USE DistinctAssumption, FaultsAssumption, SnapSeq DEF LedgerInv, Goto, files, locals
<1>1. TypeOK'
  BY DEF TypeOK, Labels, LockedOps, ControlFlow, WritingLabels
<1>2. ControlFlow'
  BY DEF TypeOK, ControlFlow, WritingLabels, LockOwner, InTransaction, LockedOps
<1>3. LockOwner'
  BY DEF TypeOK, ControlFlow, LockOwner, InTransaction, LockedOps, WritingLabels
<1>4. Grounded'
  BY DEF TypeOK, Grounded, ControlFlow, WritingLabels, LockOwner, InTransaction,
         LockedOps, Progress, OnePerSequence, Settled, UpToDate, Successor, HighWaterOf
<1>5. (\A q \in Procs : InTransaction(q) => Progress(q))'
  BY DEF TypeOK, Grounded, ControlFlow, LockOwner, InTransaction, LockedOps, Progress,
         WritingLabels, Settled, UpToDate, Successor, HighWaterOf
<1>6. FaultFree'
  BY DEF TypeOK, Grounded, ControlFlow, LockOwner, LockedOps, Progress, FaultFree, Complete,
         Settled, UpToDate, InTransaction, WritingLabels, HighWaterOf
<1> QED
  BY <1>1, <1>2, <1>3, <1>4, <1>5, <1>6

\* A command starts.
LEMMA StartInv ==
  ASSUME LedgerInv, NEW p \in Procs, Start(p)
  PROVE  LedgerInv'
<1> USE DistinctAssumption, FaultsAssumption, SnapSeq DEF LedgerInv, Start, Goto, files
<1>1. TypeOK'
  BY DEF TypeOK, Labels, LockedOps, ControlFlow, WritingLabels
<1>2. ControlFlow'
  BY DEF TypeOK, ControlFlow, WritingLabels, LockOwner, InTransaction, LockedOps
<1>3. LockOwner'
  BY DEF TypeOK, ControlFlow, LockOwner, InTransaction, LockedOps, WritingLabels
<1>4. Grounded'
  BY DEF TypeOK, Grounded, ControlFlow, WritingLabels, LockOwner, InTransaction,
         LockedOps, Progress, OnePerSequence, Settled, UpToDate, Successor, HighWaterOf
<1>5. (\A q \in Procs : InTransaction(q) => Progress(q))'
  BY DEF TypeOK, Grounded, ControlFlow, LockOwner, InTransaction, LockedOps, Progress,
         WritingLabels, Settled, UpToDate, Successor, HighWaterOf
<1>6. FaultFree'
  BY DEF TypeOK, Grounded, ControlFlow, LockOwner, LockedOps, Progress, FaultFree, Complete,
         Settled, UpToDate, InTransaction, WritingLabels, HighWaterOf
<1> QED
  BY <1>1, <1>2, <1>3, <1>4, <1>5, <1>6

\* The lock is taken.
LEMMA AcquireInv ==
  ASSUME LedgerInv, NEW p \in Procs, Acquire(p)
  PROVE  LedgerInv'
<1> USE DistinctAssumption, FaultsAssumption, SnapSeq DEF LedgerInv, Acquire, Goto, files, locals
<1>1. TypeOK'
  BY DEF TypeOK, Labels, LockedOps, ControlFlow, WritingLabels
<1>2. ControlFlow'
  BY DEF TypeOK, ControlFlow, WritingLabels, LockOwner, InTransaction, LockedOps
<1>3. LockOwner'
  BY DEF TypeOK, ControlFlow, LockOwner, InTransaction, LockedOps, WritingLabels
<1>4. Grounded'
  BY DEF TypeOK, Grounded, ControlFlow, WritingLabels, LockOwner, InTransaction,
         LockedOps, Progress, OnePerSequence, Settled, UpToDate, Successor, HighWaterOf
<1>5. (\A q \in Procs : InTransaction(q) => Progress(q))'
  BY DEF TypeOK, Grounded, ControlFlow, LockOwner, InTransaction, LockedOps, Progress,
         WritingLabels, Settled, UpToDate, Successor, HighWaterOf
<1>6. FaultFree'
  BY DEF TypeOK, Grounded, ControlFlow, LockOwner, LockedOps, Progress, FaultFree, Complete,
         Settled, UpToDate, InTransaction, WritingLabels, HighWaterOf
<1> QED
  BY <1>1, <1>2, <1>3, <1>4, <1>5, <1>6

\* The pointer is read.
LEMMA ReadPointerInv ==
  ASSUME LedgerInv, NEW p \in Procs, ReadPointer(p)
  PROVE  LedgerInv'
<1> USE DistinctAssumption, FaultsAssumption, SnapSeq DEF LedgerInv, ReadPointer, Goto, files
<1>1. TypeOK'
  BY DEF TypeOK, Labels, LockedOps, ControlFlow, WritingLabels
<1>2. ControlFlow'
  BY DEF TypeOK, ControlFlow, WritingLabels, LockOwner, InTransaction, LockedOps
<1>3. LockOwner'
  BY DEF TypeOK, ControlFlow, LockOwner, InTransaction, LockedOps, WritingLabels
<1>4. Grounded'
  BY DEF TypeOK, Grounded, ControlFlow, WritingLabels, LockOwner, InTransaction,
         LockedOps, Progress, OnePerSequence, Settled, UpToDate, Successor, HighWaterOf
<1>5. (\A q \in Procs : InTransaction(q) => Progress(q))'
  BY DEF TypeOK, Grounded, ControlFlow, LockOwner, InTransaction, LockedOps, Progress,
         WritingLabels, Settled, UpToDate, Successor, HighWaterOf
<1>6. FaultFree'
  BY DEF TypeOK, Grounded, ControlFlow, LockOwner, LockedOps, Progress, FaultFree, Complete,
         Settled, UpToDate, InTransaction, WritingLabels, HighWaterOf
<1> QED
  BY <1>1, <1>2, <1>3, <1>4, <1>5, <1>6

\* The sequence records are read and accepted.
LEMMA ReadRecordsInv ==
  ASSUME LedgerInv, NEW p \in Procs, ReadRecords(p), pc'[p] = "snapshots"
  PROVE  LedgerInv'
<1> USE DistinctAssumption, FaultsAssumption, SnapSeq DEF LedgerInv, ReadRecords, Readable, Exits, Forgets, Goto, files
<1>1. TypeOK'
  BY DEF TypeOK, Labels, LockedOps, ControlFlow, WritingLabels
<1>2. ControlFlow'
  BY DEF TypeOK, ControlFlow, WritingLabels, LockOwner, InTransaction, LockedOps
<1>3. LockOwner'
  BY DEF TypeOK, ControlFlow, LockOwner, InTransaction, LockedOps, WritingLabels
<1>4. Grounded'
  BY DEF TypeOK, Grounded, ControlFlow, WritingLabels, LockOwner, InTransaction,
         LockedOps, Progress, OnePerSequence, Settled, UpToDate, Successor, HighWaterOf
<1>5. (\A q \in Procs : InTransaction(q) => Progress(q))'
  BY DEF TypeOK, Grounded, ControlFlow, LockOwner, InTransaction, LockedOps, Progress,
         WritingLabels, Settled, UpToDate, Successor, HighWaterOf
<1>6. FaultFree'
  BY DEF TypeOK, Grounded, ControlFlow, LockOwner, LockedOps, Progress, FaultFree, Complete,
         Settled, UpToDate, InTransaction, WritingLabels, HighWaterOf
<1> QED
  BY <1>1, <1>2, <1>3, <1>4, <1>5, <1>6

\* An empty history verifies.
LEMMA VerifyEmptyInv ==
  ASSUME LedgerInv, NEW p \in Procs, VerifyEmpty(p)
  PROVE  LedgerInv'
<1> USE DistinctAssumption, FaultsAssumption, SnapSeq DEF LedgerInv, VerifyEmpty, HistoriesAgree, Readable, Goto, files
<1>1. TypeOK'
  BY DEF TypeOK, Labels, LockedOps, ControlFlow, WritingLabels
<1>2. ControlFlow'
  BY DEF TypeOK, ControlFlow, WritingLabels, LockOwner, InTransaction, LockedOps
<1>3. LockOwner'
  BY DEF TypeOK, ControlFlow, LockOwner, InTransaction, LockedOps, WritingLabels
<1>4. Grounded'
  BY DEF TypeOK, Grounded, ControlFlow, WritingLabels, LockOwner, InTransaction,
         LockedOps, Progress, OnePerSequence, Settled, UpToDate, Successor, HighWaterOf
<1>5. (\A q \in Procs : InTransaction(q) => Progress(q))'
  BY DEF TypeOK, Grounded, ControlFlow, LockOwner, InTransaction, LockedOps, Progress,
         WritingLabels, Settled, UpToDate, Successor, HighWaterOf
<1>6. FaultFree'
  BY DEF TypeOK, Grounded, ControlFlow, LockOwner, LockedOps, Progress, FaultFree, Complete,
         Settled, UpToDate, InTransaction, WritingLabels, HighWaterOf
<1> QED
  BY <1>1, <1>2, <1>3, <1>4, <1>5, <1>6

\* A history whose pointer is its high-water verifies.
LEMMA VerifyCurrentInv ==
  ASSUME LedgerInv, NEW p \in Procs, VerifyCurrent(p)
  PROVE  LedgerInv'
<1> USE DistinctAssumption, FaultsAssumption, SnapSeq DEF LedgerInv, VerifyCurrent, HistoriesAgree, Readable, Goto, files
<1>1. TypeOK'
  BY DEF TypeOK, Labels, LockedOps, ControlFlow, WritingLabels
<1>2. ControlFlow'
  BY DEF TypeOK, ControlFlow, WritingLabels, LockOwner, InTransaction, LockedOps
<1>3. LockOwner'
  BY DEF TypeOK, ControlFlow, LockOwner, InTransaction, LockedOps, WritingLabels
<1>4. Grounded'
  BY DEF TypeOK, Grounded, ControlFlow, WritingLabels, LockOwner, InTransaction,
         LockedOps, Progress, OnePerSequence, Settled, UpToDate, Successor, HighWaterOf
<1>5. (\A q \in Procs : InTransaction(q) => Progress(q))'
  BY DEF TypeOK, Grounded, ControlFlow, LockOwner, InTransaction, LockedOps, Progress,
         WritingLabels, Settled, UpToDate, Successor, HighWaterOf
<1>6. FaultFree'
  BY DEF TypeOK, Grounded, ControlFlow, LockOwner, LockedOps, Progress, FaultFree, Complete,
         Settled, UpToDate, InTransaction, WritingLabels, HighWaterOf
<1> QED
  BY <1>1, <1>2, <1>3, <1>4, <1>5, <1>6

\* A history without its pointer verifies and is to be repaired.
LEMMA VerifyMissingInv ==
  ASSUME LedgerInv, NEW p \in Procs, VerifyMissingPointer(p)
  PROVE  LedgerInv'
<1> USE DistinctAssumption, FaultsAssumption, SnapSeq DEF LedgerInv, VerifyMissingPointer, HistoriesAgree, Readable, Goto, files
<1>0. PICK h \in HighWaterOf(snapshots) : observed' = [observed EXCEPT ![p] = h]
  OBVIOUS
<1>1. TypeOK'
  BY <1>0 DEF TypeOK, Labels, LockedOps, ControlFlow, WritingLabels, HighWaterOf
<1>2. ControlFlow'
  BY <1>0 DEF TypeOK, ControlFlow, WritingLabels, LockOwner, InTransaction, LockedOps,
         HighWaterOf
<1>3. LockOwner'
  BY DEF TypeOK, ControlFlow, LockOwner, InTransaction, LockedOps, WritingLabels
<1>4. Grounded'
  BY DEF TypeOK, Grounded, ControlFlow, WritingLabels, LockOwner, InTransaction,
         LockedOps, Progress, OnePerSequence, Settled, UpToDate, Successor, HighWaterOf
<1>5. (\A q \in Procs : InTransaction(q) => Progress(q))'
  BY DEF TypeOK, Grounded, ControlFlow, LockOwner, InTransaction, LockedOps, Progress,
         WritingLabels, Settled, UpToDate, Successor, HighWaterOf
<1>6. FaultFree'
  BY DEF TypeOK, Grounded, ControlFlow, LockOwner, LockedOps, Progress, FaultFree, Complete,
         Settled, UpToDate, InTransaction, WritingLabels, HighWaterOf
<1> QED
  BY <1>1, <1>2, <1>3, <1>4, <1>5, <1>6

\* The missing pointer is written, by a command that may not hold the lock.
LEMMA RepairInv ==
  ASSUME LedgerInv, NEW p \in Procs, Repair(p)
  PROVE  LedgerInv'
<1> USE DistinctAssumption, FaultsAssumption, SnapSeq DEF LedgerInv, Repair, Goto, locals
<1>1. TypeOK'
  BY DEF TypeOK, Labels, LockedOps, ControlFlow, WritingLabels
<1>2. ControlFlow'
  BY DEF TypeOK, ControlFlow, WritingLabels, LockOwner, InTransaction, LockedOps
<1>3. LockOwner'
  BY DEF TypeOK, ControlFlow, LockOwner, InTransaction, LockedOps, WritingLabels
<1>4. Grounded'
  BY DEF TypeOK, Grounded, ControlFlow, WritingLabels, LockOwner, InTransaction,
         LockedOps, Progress, OnePerSequence, Settled, UpToDate, Successor, HighWaterOf
<1>5. (\A q \in Procs : InTransaction(q) => Progress(q))'
  BY DEF TypeOK, Grounded, ControlFlow, LockOwner, InTransaction, LockedOps, Progress,
         WritingLabels, Settled, UpToDate, Successor, HighWaterOf
<1>6. FaultFree'
  BY DEF TypeOK, Grounded, ControlFlow, LockOwner, LockedOps, Progress, FaultFree, Complete,
         Settled, UpToDate, InTransaction, WritingLabels, HighWaterOf
<1> QED
  BY <1>1, <1>2, <1>3, <1>4, <1>5, <1>6

\* The next sequence is accepted.
LEMMA IngestNextInv ==
  ASSUME LedgerInv, NEW p \in Procs, IngestNext(p)
  PROVE  LedgerInv'
<1> USE DistinctAssumption, FaultsAssumption, SnapSeq DEF LedgerInv, IngestNext, IsNext, Goto, files, locals
<1>0. ~ \E r \in records : r.seq = cand[p].seq
  BY DEF TypeOK, ControlFlow, LockOwner, InTransaction, LockedOps, Progress, Settled, UpToDate,
         HighWaterOf, Grounded
<1>1. TypeOK'
  BY DEF TypeOK, Labels, LockedOps, ControlFlow, WritingLabels
<1>2. ControlFlow'
  BY <1>0 DEF TypeOK, ControlFlow, WritingLabels, LockOwner, InTransaction, LockedOps
<1>3. LockOwner'
  BY DEF TypeOK, ControlFlow, LockOwner, InTransaction, LockedOps, WritingLabels
<1>4. Grounded'
  BY DEF TypeOK, Grounded, ControlFlow, WritingLabels, LockOwner, InTransaction,
         LockedOps, Progress, OnePerSequence, Settled, UpToDate, Successor, HighWaterOf
<1>5. (\A q \in Procs : InTransaction(q) => Progress(q))'
  BY DEF TypeOK, Grounded, ControlFlow, LockOwner, InTransaction, LockedOps, Progress,
         WritingLabels, Settled, UpToDate, Successor, HighWaterOf
<1>6. FaultFree'
  BY DEF TypeOK, Grounded, ControlFlow, LockOwner, LockedOps, Progress, FaultFree, Complete,
         Settled, UpToDate, InTransaction, WritingLabels, HighWaterOf
<1> QED
  BY <1>1, <1>2, <1>3, <1>4, <1>5, <1>6

\* The current approval is ingested again.
LEMMA IngestCurrentInv ==
  ASSUME LedgerInv, NEW p \in Procs, IngestCurrent(p)
  PROVE  LedgerInv'
<1> USE DistinctAssumption, FaultsAssumption, SnapSeq DEF LedgerInv, IngestCurrent, IsNext, IsCurrent, Goto, files
<1>1. TypeOK'
  BY DEF TypeOK, Labels, LockedOps, ControlFlow, WritingLabels
<1>2. ControlFlow'
  BY DEF TypeOK, ControlFlow, WritingLabels, LockOwner, InTransaction, LockedOps
<1>3. LockOwner'
  BY DEF TypeOK, ControlFlow, LockOwner, InTransaction, LockedOps, WritingLabels
<1>4. Grounded'
  BY DEF TypeOK, Grounded, ControlFlow, WritingLabels, LockOwner, InTransaction,
         LockedOps, Progress, OnePerSequence, Settled, UpToDate, Successor, HighWaterOf
<1>5. (\A q \in Procs : InTransaction(q) => Progress(q))'
  BY DEF TypeOK, Grounded, ControlFlow, LockOwner, InTransaction, LockedOps, Progress,
         WritingLabels, Settled, UpToDate, Successor, HighWaterOf
<1>6. FaultFree'
  BY DEF TypeOK, Grounded, ControlFlow, LockOwner, LockedOps, Progress, FaultFree, Complete,
         Settled, UpToDate, InTransaction, WritingLabels, HighWaterOf
<1> QED
  BY <1>1, <1>2, <1>3, <1>4, <1>5, <1>6

\* The snapshot path is created.
LEMMA CreateSnapshotInv ==
  ASSUME LedgerInv, NEW p \in Procs, CreateSnapshot(p)
  PROVE  LedgerInv'
<1> USE DistinctAssumption, FaultsAssumption, SnapSeq DEF LedgerInv, CreateSnapshot, Goto, locals
<1>a. cand[p] \in Snap
  BY DEF ControlFlow, WritingLabels
<1>0. cand[p] \notin snapshots \cup tornSnapshots
  BY DEF TypeOK, ControlFlow, WritingLabels, LockOwner, InTransaction, LockedOps, Progress,
         Settled, UpToDate, Successor, HighWaterOf, Grounded
<1>1. TypeOK'
  <2>1. tornSnapshots' \subseteq Snap
    BY <1>a, <1>0 DEF TypeOK
  <2>2. dirs' \subseteq {"snapshots", "approval-sequences"}
    BY <1>0 DEF TypeOK
  <2> QED
    BY <1>0, <2>1, <2>2 DEF TypeOK, Labels, LockedOps
<1>2. ControlFlow'
  BY <1>0 DEF TypeOK, ControlFlow, WritingLabels, LockOwner, InTransaction, LockedOps
<1>3. LockOwner'
  BY <1>0 DEF TypeOK, ControlFlow, LockOwner, InTransaction, LockedOps, WritingLabels
<1>4. Grounded'
  BY <1>0 DEF TypeOK, Grounded, ControlFlow, WritingLabels, LockOwner, InTransaction,
         LockedOps, Progress, OnePerSequence, Settled, UpToDate, Successor, HighWaterOf
<1>5. (\A q \in Procs : InTransaction(q) => Progress(q))'
  BY <1>0 DEF TypeOK, Grounded, ControlFlow, LockOwner, InTransaction, LockedOps, Progress,
         WritingLabels, Settled, UpToDate, Successor, HighWaterOf
<1>6. FaultFree'
  BY <1>0 DEF TypeOK, Grounded, ControlFlow, LockOwner, LockedOps, Progress, FaultFree, Complete,
         Settled, UpToDate, InTransaction, WritingLabels, HighWaterOf
<1> QED
  BY <1>1, <1>2, <1>3, <1>4, <1>5, <1>6

\* The snapshot is complete.
LEMMA FillSnapshotInv ==
  ASSUME LedgerInv, NEW p \in Procs, FillSnapshot(p)
  PROVE  LedgerInv'
<1> USE DistinctAssumption, FaultsAssumption, SnapSeq DEF LedgerInv, FillSnapshot, Goto, locals
<1>1. TypeOK'
  BY DEF TypeOK, Labels, LockedOps, ControlFlow, WritingLabels
<1>2. ControlFlow'
  BY DEF TypeOK, ControlFlow, WritingLabels, LockOwner, InTransaction, LockedOps
<1>3. LockOwner'
  BY DEF TypeOK, ControlFlow, LockOwner, InTransaction, LockedOps, WritingLabels
<1>4. Grounded'
  BY DEF TypeOK, Grounded, ControlFlow, WritingLabels, LockOwner, InTransaction,
         LockedOps, Progress, OnePerSequence, Settled, UpToDate, Successor, HighWaterOf
<1>5. (\A q \in Procs : InTransaction(q) => Progress(q))'
  BY DEF TypeOK, Grounded, ControlFlow, LockOwner, InTransaction, LockedOps, Progress,
         WritingLabels, Settled, UpToDate, Successor, HighWaterOf
<1>6. FaultFree'
  BY DEF TypeOK, Grounded, ControlFlow, LockOwner, LockedOps, Progress, FaultFree, Complete,
         Settled, UpToDate, InTransaction, WritingLabels, HighWaterOf
<1> QED
  BY <1>1, <1>2, <1>3, <1>4, <1>5, <1>6

\* The record path is created.
LEMMA CreateRecordInv ==
  ASSUME LedgerInv, NEW p \in Procs, CreateRecord(p)
  PROVE  LedgerInv'
<1> USE DistinctAssumption, FaultsAssumption, SnapSeq DEF LedgerInv, CreateRecord, Goto, locals
<1>a. cand[p] \in Snap
  BY DEF ControlFlow, WritingLabels
<1>0. ~ \E r \in records \cup tornRecords : r.seq = cand[p].seq
  BY DEF TypeOK, ControlFlow, WritingLabels, LockOwner, InTransaction, LockedOps, Progress,
         Grounded, OnePerSequence
<1>1. TypeOK'
  <2>1. tornRecords' \subseteq Snap
    BY <1>a, <1>0 DEF TypeOK
  <2>2. dirs' \subseteq {"snapshots", "approval-sequences"}
    BY <1>0 DEF TypeOK
  <2> QED
    BY <1>0, <2>1, <2>2 DEF TypeOK, Labels, LockedOps
<1>2. ControlFlow'
  BY <1>0 DEF TypeOK, ControlFlow, WritingLabels, LockOwner, InTransaction, LockedOps
<1>3. LockOwner'
  BY <1>0 DEF TypeOK, ControlFlow, LockOwner, InTransaction, LockedOps, WritingLabels
<1>4. Grounded'
  BY <1>0 DEF TypeOK, Grounded, ControlFlow, WritingLabels, LockOwner, InTransaction,
         LockedOps, Progress, OnePerSequence, Settled, UpToDate, Successor, HighWaterOf
<1>5. (\A q \in Procs : InTransaction(q) => Progress(q))'
  BY <1>0 DEF TypeOK, Grounded, ControlFlow, LockOwner, InTransaction, LockedOps, Progress,
         WritingLabels, Settled, UpToDate, Successor, HighWaterOf
<1>6. FaultFree'
  BY <1>0 DEF TypeOK, Grounded, ControlFlow, LockOwner, LockedOps, Progress, FaultFree, Complete,
         Settled, UpToDate, InTransaction, WritingLabels, HighWaterOf
<1> QED
  BY <1>1, <1>2, <1>3, <1>4, <1>5, <1>6

\* The record is complete: the snapshot is promoted.
LEMMA FillRecordInv ==
  ASSUME LedgerInv, NEW p \in Procs, FillRecord(p)
  PROVE  LedgerInv'
<1> USE DistinctAssumption, FaultsAssumption, SnapSeq DEF LedgerInv, FillRecord, Goto, locals
<1>1. TypeOK'
  BY DEF TypeOK, Labels, LockedOps, ControlFlow, WritingLabels
<1>2. ControlFlow'
  BY DEF TypeOK, ControlFlow, WritingLabels, LockOwner, InTransaction, LockedOps
<1>3. LockOwner'
  BY DEF TypeOK, ControlFlow, LockOwner, InTransaction, LockedOps, WritingLabels
<1>4. Grounded'
  BY DEF TypeOK, Grounded, ControlFlow, WritingLabels, LockOwner, InTransaction,
         LockedOps, Progress, OnePerSequence, Settled, UpToDate, Successor, HighWaterOf
<1>5. (\A q \in Procs : InTransaction(q) => Progress(q))'
  BY DEF TypeOK, Grounded, ControlFlow, LockOwner, InTransaction, LockedOps, Progress,
         WritingLabels, Settled, UpToDate, Successor, HighWaterOf
<1>6. FaultFree'
  BY DEF TypeOK, Grounded, ControlFlow, LockOwner, LockedOps, Progress, FaultFree, Complete,
         Settled, UpToDate, InTransaction, WritingLabels, HighWaterOf
<1> QED
  BY <1>1, <1>2, <1>3, <1>4, <1>5, <1>6

\* The pointer follows.
LEMMA WritePointerInv ==
  ASSUME LedgerInv, NEW p \in Procs, WritePointer(p)
  PROVE  LedgerInv'
<1> USE DistinctAssumption, FaultsAssumption, SnapSeq DEF LedgerInv, WritePointer, Goto, locals
<1>1. TypeOK'
  BY DEF TypeOK, Labels, LockedOps, ControlFlow, WritingLabels
<1>2. ControlFlow'
  BY DEF TypeOK, ControlFlow, WritingLabels, LockOwner, InTransaction, LockedOps
<1>3. LockOwner'
  BY DEF TypeOK, ControlFlow, LockOwner, InTransaction, LockedOps, WritingLabels
<1>4. Grounded'
  BY DEF TypeOK, Grounded, ControlFlow, WritingLabels, LockOwner, InTransaction,
         LockedOps, Progress, OnePerSequence, Settled, UpToDate, Successor, HighWaterOf
<1>5. (\A q \in Procs : InTransaction(q) => Progress(q))'
  BY DEF TypeOK, Grounded, ControlFlow, LockOwner, InTransaction, LockedOps, Progress,
         WritingLabels, Settled, UpToDate, Successor, HighWaterOf
<1>6. FaultFree'
  BY DEF TypeOK, Grounded, ControlFlow, LockOwner, LockedOps, Progress, FaultFree, Complete,
         Settled, UpToDate, InTransaction, WritingLabels, HighWaterOf
<1> QED
  BY <1>1, <1>2, <1>3, <1>4, <1>5, <1>6

\* The pin path is created.
LEMMA CreatePinInv ==
  ASSUME LedgerInv, NEW p \in Procs, CreatePin(p)
  PROVE  LedgerInv'
<1> USE DistinctAssumption, FaultsAssumption, SnapSeq DEF LedgerInv, CreatePin, Goto, locals
<1>1. TypeOK'
  BY DEF TypeOK, Labels, LockedOps, ControlFlow, WritingLabels
<1>2. ControlFlow'
  BY DEF TypeOK, ControlFlow, WritingLabels, LockOwner, InTransaction, LockedOps
<1>3. LockOwner'
  BY DEF TypeOK, ControlFlow, LockOwner, InTransaction, LockedOps, WritingLabels
<1>4. Grounded'
  BY DEF TypeOK, Grounded, ControlFlow, WritingLabels, LockOwner, InTransaction,
         LockedOps, Progress, OnePerSequence, Settled, UpToDate, Successor, HighWaterOf
<1>5. (\A q \in Procs : InTransaction(q) => Progress(q))'
  BY DEF TypeOK, Grounded, ControlFlow, LockOwner, InTransaction, LockedOps, Progress,
         WritingLabels, Settled, UpToDate, Successor, HighWaterOf
<1>6. FaultFree'
  BY DEF TypeOK, Grounded, ControlFlow, LockOwner, LockedOps, Progress, FaultFree, Complete,
         Settled, UpToDate, InTransaction, WritingLabels, HighWaterOf
<1> QED
  BY <1>1, <1>2, <1>3, <1>4, <1>5, <1>6

\* The pin is complete.
LEMMA FillPinInv ==
  ASSUME LedgerInv, NEW p \in Procs, FillPin(p)
  PROVE  LedgerInv'
<1> USE DistinctAssumption, FaultsAssumption, SnapSeq DEF LedgerInv, FillPin, Goto, locals
<1>1. TypeOK'
  BY DEF TypeOK, Labels, LockedOps, ControlFlow, WritingLabels
<1>2. ControlFlow'
  BY DEF TypeOK, ControlFlow, WritingLabels, LockOwner, InTransaction, LockedOps
<1>3. LockOwner'
  BY DEF TypeOK, ControlFlow, LockOwner, InTransaction, LockedOps, WritingLabels
<1>4. Grounded'
  BY DEF TypeOK, Grounded, ControlFlow, WritingLabels, LockOwner, InTransaction,
         LockedOps, Progress, OnePerSequence, Settled, UpToDate, Successor, HighWaterOf
<1>5. (\A q \in Procs : InTransaction(q) => Progress(q))'
  BY DEF TypeOK, Grounded, ControlFlow, LockOwner, InTransaction, LockedOps, Progress,
         WritingLabels, Settled, UpToDate, Successor, HighWaterOf
<1>6. FaultFree'
  BY DEF TypeOK, Grounded, ControlFlow, LockOwner, LockedOps, Progress, FaultFree, Complete,
         Settled, UpToDate, InTransaction, WritingLabels, HighWaterOf
<1> QED
  BY <1>1, <1>2, <1>3, <1>4, <1>5, <1>6

\* A write fails and is undone.
LEMMA WriteFailsInv ==
  ASSUME LedgerInv, NEW p \in Procs, WriteFails(p)
  PROVE  LedgerInv'
<1> USE DistinctAssumption, FaultsAssumption, SnapSeq DEF LedgerInv, WriteFails, Exits, Forgets, Goto
<1>0. ASSUME NEW q \in Procs, InTransaction(q)'
      PROVE  q # p /\ InTransaction(q) /\ pc[p] = "repair"
  BY <1>0 DEF TypeOK, ControlFlow, LockOwner, InTransaction, LockedOps, WritingLabels
<1>1. TypeOK'
  BY DEF TypeOK, Labels, LockedOps, ControlFlow, WritingLabels
<1>2. ControlFlow'
  BY DEF TypeOK, ControlFlow, WritingLabels, LockOwner, InTransaction, LockedOps
<1>3. LockOwner'
  BY DEF TypeOK, ControlFlow, LockOwner, InTransaction, LockedOps, WritingLabels
<1>4. Grounded'
  BY DEF TypeOK, Grounded, ControlFlow, WritingLabels, LockOwner, InTransaction,
         LockedOps, Progress, OnePerSequence, Settled, UpToDate, Successor, HighWaterOf
<1>5. (\A q \in Procs : InTransaction(q) => Progress(q))'
  <2> SUFFICES ASSUME NEW q \in Procs, InTransaction(q)'
               PROVE  Progress(q)'
    OBVIOUS
  <2>1. /\ q # p /\ Progress(q)
        /\ UNCHANGED <<snapshots, tornSnapshots, records, tornRecords>>
        /\ UNCHANGED <<pc[q], cand[q], seenRecords[q], observed[q]>>
    BY <1>0 DEF TypeOK
  <2> QED
    BY <2>1 DEF Progress, Settled, UpToDate, Successor, HighWaterOf
<1>6. FaultFree'
  BY DEF TypeOK, Grounded, ControlFlow, LockOwner, LockedOps, Progress, FaultFree, Complete,
         Settled, UpToDate, InTransaction, WritingLabels, HighWaterOf
<1> QED
  BY <1>1, <1>2, <1>3, <1>4, <1>5, <1>6

\* A command dies.
LEMMA CrashInv ==
  ASSUME LedgerInv, NEW p \in Procs, Crash(p)
  PROVE  LedgerInv'
<1> USE DistinctAssumption, FaultsAssumption, SnapSeq DEF LedgerInv, Crash, Forgets, Goto, files
<1>1. TypeOK'
  BY DEF TypeOK, Labels, LockedOps, ControlFlow, WritingLabels
<1>2. ControlFlow'
  BY DEF TypeOK, ControlFlow, WritingLabels, LockOwner, InTransaction, LockedOps
<1>3. LockOwner'
  BY DEF TypeOK, ControlFlow, LockOwner, InTransaction, LockedOps, WritingLabels
<1>4. Grounded'
  BY DEF TypeOK, Grounded, ControlFlow, WritingLabels, LockOwner, InTransaction,
         LockedOps, Progress, OnePerSequence, Settled, UpToDate, Successor, HighWaterOf
<1>5. (\A q \in Procs : InTransaction(q) => Progress(q))'
  BY DEF TypeOK, Grounded, ControlFlow, LockOwner, InTransaction, LockedOps, Progress,
         WritingLabels, Settled, UpToDate, Successor, HighWaterOf
<1>6. FaultFree'
  BY DEF TypeOK, Grounded, ControlFlow, LockOwner, LockedOps, Progress, FaultFree, Complete,
         Settled, UpToDate, InTransaction, WritingLabels, HighWaterOf
<1> QED
  BY <1>1, <1>2, <1>3, <1>4, <1>5, <1>6

\* The operator removes a stale lock.
LEMMA RemoveStaleLockInv ==
  ASSUME LedgerInv, RemoveStaleLock
  PROVE  LedgerInv'
<1> USE DistinctAssumption, FaultsAssumption, SnapSeq DEF LedgerInv, RemoveStaleLock, files, locals
<1>1. TypeOK'
  BY DEF TypeOK, Labels, LockedOps, ControlFlow, WritingLabels
<1>2. ControlFlow'
  BY DEF TypeOK, ControlFlow, WritingLabels, LockOwner, InTransaction, LockedOps
<1>3. LockOwner'
  BY DEF TypeOK, ControlFlow, LockOwner, InTransaction, LockedOps, WritingLabels
<1>4. Grounded'
  BY DEF TypeOK, Grounded, ControlFlow, WritingLabels, LockOwner, InTransaction,
         LockedOps, Progress, OnePerSequence, Settled, UpToDate, Successor, HighWaterOf
<1>5. (\A q \in Procs : InTransaction(q) => Progress(q))'
  BY DEF TypeOK, Grounded, ControlFlow, LockOwner, InTransaction, LockedOps, Progress,
         WritingLabels, Settled, UpToDate, Successor, HighWaterOf
<1>6. FaultFree'
  BY DEF TypeOK, Grounded, ControlFlow, LockOwner, LockedOps, Progress, FaultFree, Complete,
         Settled, UpToDate, InTransaction, WritingLabels, HighWaterOf
<1> QED
  BY <1>1, <1>2, <1>3, <1>4, <1>5, <1>6

-----------------------------------------------------------------------------
(* The invariant.                                                          *)

\* Every step of every command, and every fault, preserves the invariant.
LEMMA NextInv == LedgerInv /\ [Next]_vars => LedgerInv'
<1> SUFFICES ASSUME LedgerInv, [Next]_vars PROVE LedgerInv'
  OBVIOUS
<1>1. CASE UNCHANGED vars
  BY <1>1 DEF vars, files, locals, LedgerInv, TypeOK, ControlFlow, LockOwner, Grounded, Progress,
              FaultFree, InTransaction, Settled, UpToDate, Successor, Complete, HighWaterOf,
              OnePerSequence
<1>2. CASE RemoveStaleLock
  BY <1>2, RemoveStaleLockInv
<1>3. ASSUME NEW p \in Procs, Start(p) \/ WriteFails(p) \/ Crash(p) PROVE LedgerInv'
  BY <1>3, StartInv, WriteFailsInv, CrashInv
<1>4. ASSUME NEW p \in Procs, Acquire(p) \/ GiveUp(p) PROVE LedgerInv'
  BY <1>4, AcquireInv, EndOfCommand DEF GiveUp, WritingLabels
<1>5. ASSUME NEW p \in Procs, Verification(p) PROVE LedgerInv'
  <2>1. ASSUME ReadRecords(p) PROVE LedgerInv'
    <3>1. CASE Readable("approval-sequences", records, tornRecords)
      <4>1. pc'[p] = "snapshots"
        BY <2>1, <3>1 DEF ReadRecords, Goto, LedgerInv, TypeOK
      <4> QED
        BY <2>1, <4>1, ReadRecordsInv
    <3>2. CASE ~Readable("approval-sequences", records, tornRecords)
      BY <2>1, <3>2, EndOfCommand DEF ReadRecords, WritingLabels
    <3> QED
      BY <3>1, <3>2
  <2>2. ASSUME VerifyFails(p) PROVE LedgerInv'
    BY <2>2, EndOfCommand DEF VerifyFails, WritingLabels
  <2> QED
    BY <1>5, <2>1, <2>2, ReadPointerInv, VerifyEmptyInv, VerifyCurrentInv, VerifyMissingInv,
       RepairInv DEF Verification
<1>6. ASSUME NEW p \in Procs, Ingestion(p) PROVE LedgerInv'
  <2>1. ASSUME IngestRejected(p) PROVE LedgerInv'
    BY <2>1, EndOfCommand DEF IngestRejected, WritingLabels
  <2> QED
    BY <1>6, <2>1, IngestNextInv, IngestCurrentInv, CreateSnapshotInv, FillSnapshotInv,
       CreateRecordInv, FillRecordInv, WritePointerInv DEF Ingestion
<1>7. ASSUME NEW p \in Procs, Loading(p) PROVE LedgerInv'
  <2>1. ASSUME LoadSucceeds(p) PROVE LedgerInv'
    BY <2>1, Conclusion DEF LoadSucceeds
  <2>2. ASSUME LoadPinned(p) PROVE LedgerInv'
    <3>1. CASE cand[p] \in snapshots
      BY <2>2, <3>1, Conclusion DEF LoadPinned, files, locals
    <3>2. CASE cand[p] \notin snapshots
      BY <2>2, <3>2, EndOfCommand DEF LoadPinned, WritingLabels
    <3> QED
      BY <3>1, <3>2
  <2>3. ASSUME PreflightIneligible(p) PROVE LedgerInv'
    BY <2>3, Conclusion DEF PreflightIneligible
  <2>4. ASSUME LoadFails(p) \/ PinExists(p) \/ Return(p) PROVE LedgerInv'
    BY <2>4, EndOfCommand DEF LoadFails, PinExists, Return, WritingLabels
  <2> QED
    BY <1>7, <2>1, <2>2, <2>3, <2>4, CreatePinInv, FillPinInv DEF Loading
<1> QED
  BY <1>1, <1>2, <1>3, <1>4, <1>5, <1>6, <1>7 DEF Next, Step

\* The evidence of a profile stays well formed: types, lock ownership, no two
\* snapshots at a sequence, everything named was promoted, and what the owner of
\* the lock established still holds at each of its steps.
THEOREM LedgerInvariant == Spec => []LedgerInv
  BY InitInv, NextInv, PTL DEF Spec

\* At most one command is inside the profile transaction.
THEOREM MutualExclusion ==
  Spec => [](\A p, q \in Procs : InTransaction(p) /\ InTransaction(q) => p = q)
<1>1. LedgerInv => \A p, q \in Procs : InTransaction(p) /\ InTransaction(q) => p = q
  BY DEF LedgerInv, LockOwner
<1> QED
  BY <1>1, LedgerInvariant, PTL

\* No two snapshot documents, complete or torn, share an approval sequence.
THEOREM NoFork == Spec => []OneSnapshotPerSequence
<1>1. LedgerInv => OneSnapshotPerSequence
  BY DEF LedgerInv, Grounded, OneSnapshotPerSequence
<1> QED
  BY <1>1, LedgerInvariant, PTL

\* The branch for an existing record and both collision branches are dead code.
THEOREM DeadBranches == Spec => []NoDeadBranch
<1>1. LedgerInv => NoDeadBranch
  BY DEF LedgerInv, ControlFlow, NoDeadBranch
<1> QED
  BY <1>1, LedgerInvariant, PTL

\* Without faults the evidence of an unlocked profile is complete.
THEOREM Completeness == Spec => []CompleteAtRest
<1>1. LedgerInv => CompleteAtRest
  BY DEF LedgerInv, FaultFree, Complete, Settled, CompleteAtRest
<1> QED
  BY <1>1, LedgerInvariant, PTL

-----------------------------------------------------------------------------
(* Steps.                                                                  *)

\* A verification that succeeds saw the whole histories, and they agreed.
LEMMA VerifiedAligned ==
  ASSUME LedgerInv, NEW p \in Procs, pc[p] = "snapshots", HistoriesAgree(p)
  PROVE  records = snapshots /\ tornSnapshots = {}
  BY DEF LedgerInv, Grounded, HistoriesAgree, Readable

\* The program counter of one command is moved by that command alone.
LEMMA StepMoves ==
  ASSUME LedgerInv, NEW p \in Procs, Start(p) \/ Step(p) \/ WriteFails(p) \/ Crash(p)
  PROVE  \A q \in Procs \ {p} : pc'[q] = pc[q]
<1> USE DEF LedgerInv, TypeOK
<1>1. CASE Start(p) \/ WriteFails(p) \/ Crash(p)
  BY <1>1 DEF Start, WriteFails, Crash, Exits, Forgets, Goto
<1>2. CASE Acquire(p) \/ GiveUp(p)
  BY <1>2 DEF Acquire, GiveUp, Exits, Forgets, Goto
<1>3. CASE Verification(p)
  BY <1>3 DEF Verification, ReadPointer, ReadRecords, VerifyEmpty, VerifyCurrent,
              VerifyMissingPointer, VerifyFails, Repair, Exits, Forgets, Goto
<1>4. CASE Ingestion(p)
  BY <1>4 DEF Ingestion, IngestNext, IngestCurrent, IngestRejected, CreateSnapshot,
              FillSnapshot, CreateRecord, FillRecord, WritePointer, Exits, Forgets, Goto
<1>5. CASE Loading(p)
  BY <1>5 DEF Loading, LoadSucceeds, LoadPinned, LoadFails, PreflightIneligible, CreatePin,
              FillPin, PinExists, Return, Exits, Forgets, Goto
<1> QED
  BY <1>1, <1>2, <1>3, <1>4, <1>5 DEF Step

LEMMA OnlyOwnSteps ==
  ASSUME LedgerInv, NEW p \in Procs, Next, pc'[p] # pc[p]
  PROVE  Start(p) \/ Step(p) \/ WriteFails(p) \/ Crash(p)
<1>1. ~RemoveStaleLock
  BY DEF RemoveStaleLock
<1>2. PICK q \in Procs : Start(q) \/ Step(q) \/ WriteFails(q) \/ Crash(q)
  BY <1>1 DEF Next
<1> QED
  BY <1>2, StepMoves

\* Verification never accepts a history with leftovers of an interrupted promotion.
THEOREM AlignedVerification == Spec => VerifiedMeansAligned
<1>1. ASSUME LedgerInv, [Next]_vars, NEW p \in Procs,
             pc[p] = "snapshots", pc'[p] \in {"decide", "repair"}
      PROVE  records = snapshots /\ tornSnapshots = {}
  <2>1. pc'[p] # pc[p] /\ Next
    BY <1>1 DEF vars
  <2>2. Start(p) \/ Step(p) \/ WriteFails(p) \/ Crash(p)
    BY <1>1, <2>1, OnlyOwnSteps
  <2>3. ~Start(p) /\ ~WriteFails(p) /\ ~Crash(p) /\ ~Acquire(p) /\ ~GiveUp(p)
    BY <1>1 DEF Start, WriteFails, Crash, Acquire, GiveUp, Forgets, Goto, LedgerInv, TypeOK
  <2>4. ~Ingestion(p) /\ ~Loading(p)
    BY <1>1 DEF Ingestion, IngestNext, IngestCurrent, IngestRejected, CreateSnapshot,
                FillSnapshot, CreateRecord, FillRecord, WritePointer, Loading, LoadSucceeds,
                LoadPinned, LoadFails, PreflightIneligible, CreatePin, FillPin, PinExists, Return
  <2>5. Verification(p)
    BY <2>2, <2>3, <2>4 DEF Step
  <2>6. HistoriesAgree(p)
    BY <1>1, <2>5 DEF Verification, ReadPointer, ReadRecords, VerifyEmpty, VerifyCurrent,
                VerifyMissingPointer, VerifyFails, Repair, Exits, Forgets, Goto, LedgerInv, TypeOK
  <2> QED
    BY <1>1, <2>6, VerifiedAligned
<1>2. LedgerInv /\ [Next]_vars =>
        [\A p \in Procs :
           pc[p] = "snapshots" /\ pc'[p] \in {"decide", "repair"} =>
             records = snapshots /\ tornSnapshots = {}]_vars
  BY <1>1
<1> QED
  BY <1>2, LedgerInvariant, PTL DEF Spec, VerifiedMeansAligned

\* The pin of a run names a promoted snapshot and never changes.
THEOREM PinStability == Spec => PinnedForGood
<1>1. ASSUME LedgerInv, LedgerInv', [Next]_vars
      PROVE  (pin' \in Snap => pin' \in records) /\ (pin \in Snap => pin' = pin)
  <2> USE <1>1, DistinctAssumption
  <2>1. ASSUME pin' # pin PROVE \E p \in Procs : CreatePin(p) \/ FillPin(p) \/ WriteFails(p)
    BY <2>1 DEF vars, files, Next, Start, Crash, RemoveStaleLock, Step, Acquire, GiveUp,
                Verification, ReadPointer, ReadRecords, VerifyEmpty, VerifyCurrent,
                VerifyMissingPointer, VerifyFails, Repair, Ingestion, IngestNext, IngestCurrent,
                IngestRejected, CreateSnapshot, FillSnapshot, CreateRecord, FillRecord,
                WritePointer, Loading, LoadSucceeds, LoadPinned, LoadFails, PreflightIneligible,
                PinExists, Return
  <2>2. ASSUME NEW p \in Procs, CreatePin(p) PROVE pin \notin Snap /\ pin' \notin Snap
    BY <2>2 DEF CreatePin
  <2>3. ASSUME NEW p \in Procs, FillPin(p) PROVE pin \notin Snap /\ pin' \in records
    BY <2>3, SnapSeq DEF FillPin, LedgerInv, ControlFlow, Grounded, LockOwner, InTransaction, LockedOps,
               Progress, Settled
  <2>4. ASSUME NEW p \in Procs, WriteFails(p), pin' # pin PROVE pin \notin Snap /\ pin' \notin Snap
    BY <2>4 DEF WriteFails, LedgerInv, ControlFlow
  <2> QED
    BY <2>1, <2>2, <2>3, <2>4 DEF LedgerInv, Grounded
<1>2. LedgerInv /\ LedgerInv' /\ [Next]_vars =>
        [(pin' \in Snap => pin' \in records) /\ (pin \in Snap => pin' = pin)]_vars
  BY <1>1
<1> QED
  BY <1>2, LedgerInvariant, PTL DEF Spec, PinnedForGood

\* The high-water among the promoted snapshots is the only one of its sequence.
LEMMA ReplacedByHighWater ==
  ASSUME LedgerInv, NEW s \in HighWaterOf(records), pointer # Nothing, s # pointer
  PROVE  s.seq > pointer.seq
<1>1. s \in records /\ pointer \in records /\ pointer.seq <= s.seq
  BY DEF LedgerInv, Grounded, HighWaterOf
<1>2. s.seq # pointer.seq
  BY <1>1 DEF LedgerInv, Grounded, OnePerSequence
<1>3. s.seq \in Nat /\ pointer.seq \in Nat
  BY <1>1, SnapSeq DEF LedgerInv, TypeOK
<1> QED
  BY <1>1, <1>2, <1>3

\* The pointer moves up to the newest record, except by the unlocked repair.
THEOREM PointerDiscipline == Spec => PointerMovesUp
<1> DEFINE Up == /\ pointer' \in HighWaterOf(records)
                 /\ pointer'.seq > pointer.seq
           ByList == \E p \in Procs : op[p] = "list" /\ pc[p] = "repair"
<1>1. ASSUME LedgerInv, [Next]_vars, pointer' # pointer
      PROVE  pointer = Nothing \/ Up \/ ByList
  <2> USE <1>1
  <2>1. PICK p \in Procs : Repair(p) \/ WritePointer(p)
    BY DEF vars, files, Next, Start, Crash, WriteFails, RemoveStaleLock, Step, Acquire, GiveUp,
           Verification, ReadPointer, ReadRecords, VerifyEmpty, VerifyCurrent,
           VerifyMissingPointer, VerifyFails, Ingestion, IngestNext, IngestCurrent,
           IngestRejected, CreateSnapshot, FillSnapshot, CreateRecord, FillRecord,
           Loading, LoadSucceeds, LoadPinned, LoadFails, PreflightIneligible,
           CreatePin, FillPin, PinExists, Return
  <2>2. CASE WritePointer(p)
    <3>1. InTransaction(p) /\ pointer' \in HighWaterOf(records)
      BY <2>2 DEF WritePointer, LedgerInv, ControlFlow, WritingLabels, InTransaction, LockedOps,
                  Progress
    <3> QED
      BY <3>1, ReplacedByHighWater
  <2>3. CASE Repair(p)
    <3>1. CASE op[p] = "list"
      BY <2>3, <3>1 DEF Repair
    <3>2. CASE op[p] # "list"
      <4>1. InTransaction(p)
        BY <2>3, <3>2 DEF Repair, LedgerInv, TypeOK, ControlFlow, InTransaction
      <4>2. pointer' \in HighWaterOf(records)
        BY <2>3, <4>1 DEF Repair, LedgerInv, ControlFlow, Grounded, Progress, UpToDate
      <4> QED
        BY <4>2, ReplacedByHighWater
    <3> QED
      BY <3>1, <3>2
  <2> QED
    BY <2>1, <2>2, <2>3
<1>2. LedgerInv /\ [Next]_vars => [pointer = Nothing \/ Up \/ ByList]_pointer
  BY <1>1
<1> QED
  BY <1>2, LedgerInvariant, PTL DEF Spec, PointerMovesUp

-----------------------------------------------------------------------------
(* Refinement.                                                             *)

\* A command that ends is a command of the register that forgets.
LEMMA ForgetsRefines ==
  ASSUME LedgerInv, NEW p \in Procs, Forgets(p), UNCHANGED records
  PROVE  Register!RegisterNext
  BY DEF Forgets, Register!RegisterNext, Register!Forget

\* A verification that succeeds observes the register's high-water.
LEMMA VerifyRefines ==
  ASSUME LedgerInv, NEW p \in Procs,
         VerifyEmpty(p) \/ VerifyCurrent(p) \/ VerifyMissingPointer(p)
  PROVE  Register!RegisterNext
<1>1. records = snapshots /\ UNCHANGED records
  BY VerifiedAligned DEF VerifyEmpty, VerifyCurrent, VerifyMissingPointer, files
<1>2. Register!Observe(p)
  BY <1>1 DEF VerifyEmpty, VerifyCurrent, VerifyMissingPointer, HighWaterOf,
              Register!Observe, Register!HighWaterOf
<1> QED
  BY <1>2 DEF Register!RegisterNext

\* Completing the record promotes the successor of what was observed.
LEMMA FillRecordRefines ==
  ASSUME LedgerInv, NEW p \in Procs, FillRecord(p)
  PROVE  Register!RegisterNext
<1>1. cand[p] \in Snap /\ InTransaction(p)
  BY DEF FillRecord, LedgerInv, ControlFlow, WritingLabels, InTransaction, LockedOps
<1>2. UpToDate(p) /\ Successor(p)
  BY <1>1 DEF FillRecord, LedgerInv, Progress, WritingLabels
<1>3. Register!Promote(p, cand[p])
  BY <1>2 DEF FillRecord, locals, UpToDate, Successor, HighWaterOf, Register!Promote,
              Register!HighWaterOf
<1> QED
  BY <1>1, <1>3 DEF Register!RegisterNext

\* Every step of the ledger is a step of the register or leaves it unchanged.
LEMMA StepRefines ==
  ASSUME LedgerInv, [Next]_vars
  PROVE  [Register!RegisterNext]_(Register!regVars)
<1> USE DEF Register!regVars
<1>1. CASE UNCHANGED vars \/ RemoveStaleLock
  BY <1>1 DEF vars, files, locals, RemoveStaleLock
<1>2. ASSUME NEW p \in Procs, Start(p) \/ WriteFails(p) \/ Crash(p)
      PROVE  [Register!RegisterNext]_(Register!regVars)
  BY <1>2, ForgetsRefines DEF Start, WriteFails, Crash, Exits, files
<1>3. ASSUME NEW p \in Procs, Acquire(p) \/ GiveUp(p)
      PROVE  [Register!RegisterNext]_(Register!regVars)
  BY <1>3, ForgetsRefines DEF Acquire, GiveUp, Exits, files, locals
<1>4. ASSUME NEW p \in Procs, Verification(p)
      PROVE  [Register!RegisterNext]_(Register!regVars)
  <2>1. CASE ReadRecords(p)
    BY <2>1, ForgetsRefines DEF ReadRecords, Exits, files
  <2> QED
    BY <1>4, <2>1, ForgetsRefines, VerifyRefines
       DEF Verification, ReadPointer, VerifyFails, Repair, Exits, files, locals
<1>5. ASSUME NEW p \in Procs, Ingestion(p)
      PROVE  [Register!RegisterNext]_(Register!regVars)
  BY <1>5, ForgetsRefines, FillRecordRefines
     DEF Ingestion, IngestNext, IngestCurrent, IngestRejected, CreateSnapshot, FillSnapshot,
         CreateRecord, WritePointer, Exits, files, locals
<1>6. ASSUME NEW p \in Procs, Loading(p)
      PROVE  [Register!RegisterNext]_(Register!regVars)
  <2>1. CASE LoadPinned(p)
    BY <2>1, ForgetsRefines DEF LoadPinned, Exits, files, locals
  <2> QED
    BY <1>6, <2>1, ForgetsRefines
       DEF Loading, LoadSucceeds, LoadFails, PreflightIneligible, CreatePin, FillPin, PinExists,
           Return, Exits, files, locals
<1> QED
  BY <1>1, <1>2, <1>3, <1>4, <1>5, <1>6 DEF Next, Step

\* The file protocol implements the compare-and-append register.
THEOREM Refinement == Spec => ImplementsRegister
<1>1. Init => Register!RegisterInit
  BY DEF Init, Register!RegisterInit
<1> QED
  BY <1>1, StepRefines, LedgerInvariant, PTL
     DEF Spec, ImplementsRegister, Register!RegisterSpec

-----------------------------------------------------------------------------
(* The transaction lock.                                                   *)

\* A command that ends gives back what it owns.
LEMMA ExitsOwned ==
  ASSUME NEW p \in Procs, Exits(p)
  PROVE  UNCHANGED lock \/ Lock!GiveBack(p)
  BY DEF Exits, Lock!GiveBack

LEMMA LockIsOwned ==
  ASSUME [Next]_vars
  PROVE  [(\E p \in Procs : Lock!Take(p) \/ Lock!GiveBack(p) \/ Lock!Abandon(p)) \/ Lock!Clear]_lock
<1>1. ASSUME NEW p \in Procs, Start(p) \/ WriteFails(p) \/ Crash(p) \/ Acquire(p) \/ GiveUp(p)
      PROVE  UNCHANGED lock \/ Lock!Take(p) \/ Lock!GiveBack(p) \/ Lock!Abandon(p)
  BY <1>1, ExitsOwned DEF Start, WriteFails, Crash, Acquire, GiveUp, Lock!Take, Lock!Abandon
<1>2. ASSUME NEW p \in Procs, Verification(p)
      PROVE  UNCHANGED lock \/ Lock!GiveBack(p)
  BY <1>2, ExitsOwned
  DEF Verification, ReadPointer, ReadRecords, VerifyEmpty, VerifyCurrent, VerifyMissingPointer,
      VerifyFails, Repair
<1>3. ASSUME NEW p \in Procs, Ingestion(p)
      PROVE  UNCHANGED lock \/ Lock!GiveBack(p)
  BY <1>3, ExitsOwned
  DEF Ingestion, IngestNext, IngestCurrent, IngestRejected, CreateSnapshot, FillSnapshot,
      CreateRecord, FillRecord, WritePointer
<1>4. ASSUME NEW p \in Procs, Loading(p)
      PROVE  UNCHANGED lock \/ Lock!GiveBack(p)
  BY <1>4, ExitsOwned
  DEF Loading, LoadSucceeds, LoadPinned, LoadFails, PreflightIneligible, CreatePin, FillPin,
      PinExists, Return
<1>5. CASE RemoveStaleLock \/ UNCHANGED vars
  BY <1>5 DEF RemoveStaleLock, Lock!Clear, vars
<1> QED
  BY <1>1, <1>2, <1>3, <1>4, <1>5 DEF Next, Step

\* Only a command inside the transaction writes.
LEMMA WriterOwns ==
  ASSUME LedgerInv, NEW p \in Procs, Start(p) \/ Step(p) \/ WriteFails(p) \/ Crash(p),
         evidence' # evidence
  PROVE  lock = p
<1>1. \/ pc[p] \in WritingLabels \cup {"fillPin"}
      \/ pc[p] = "decide" /\ op[p] = "preflight"
  <2>1. CASE Start(p) \/ WriteFails(p) \/ Crash(p) \/ Acquire(p) \/ GiveUp(p)
    BY <2>1 DEF Start, WriteFails, Crash, Acquire, GiveUp, files, evidence, WritingLabels
  <2>2. CASE Verification(p)
    BY <2>2
    DEF Verification, ReadPointer, ReadRecords, VerifyEmpty, VerifyCurrent, VerifyMissingPointer,
        VerifyFails, Repair, files, evidence
  <2>3. CASE Ingestion(p)
    BY <2>3
    DEF Ingestion, IngestNext, IngestCurrent, IngestRejected, CreateSnapshot, FillSnapshot,
        CreateRecord, FillRecord, WritePointer, files, evidence, WritingLabels
  <2>4. CASE Loading(p)
    BY <2>4
    DEF Loading, LoadSucceeds, LoadPinned, LoadFails, PreflightIneligible, CreatePin, FillPin,
        PinExists, Return, files, evidence
  <2> QED
    BY <2>1, <2>2, <2>3, <2>4 DEF Step
<1>2. InTransaction(p)
  BY <1>1 DEF LedgerInv, ControlFlow, InTransaction, WritingLabels, LockedOps
<1> QED
  BY <1>2 DEF LedgerInv, LockOwner

LEMMA OwnerWrites ==
  ASSUME LedgerInv, [Next]_vars, evidence' # evidence
  PROVE  \E p \in Procs : lock = p /\ \A q \in Procs \ {p} : pc'[q] = pc[q]
<1>1. Next
  BY DEF vars, files, evidence
<1>2. PICK p \in Procs : Start(p) \/ Step(p) \/ WriteFails(p) \/ Crash(p)
  BY <1>1 DEF Next, RemoveStaleLock, files, evidence
<1>3. lock = p
  BY <1>2, WriterOwns
<1> QED
  BY <1>2, <1>3, StepMoves

\* Promotions, preflights and resumed loads run as transactions (snapshot.py under
\* transaction_lock): the lock has one owner, a failure leaves it stale, and while a
\* command owns it no other one changes the evidence, the pointer excepted, which
\* list_rules repairs without the lock.
THEOREM Transactions == Spec => Transactional
<1>1. Init => lock = Free
  BY DEF Init
<1>2. [Next]_vars => [(\E p \in Procs : Lock!Take(p) \/ Lock!GiveBack(p) \/ Lock!Abandon(p)) \/ Lock!Clear]_lock
  BY LockIsOwned
<1>3. LedgerInv /\ [Next]_vars =>
        [evidence' # evidence => \E p \in Procs : lock = p /\ \A q \in Procs \ {p} : pc'[q] = pc[q]]_vars
  BY OwnerWrites
<1> QED
  BY <1>1, <1>2, <1>3, LedgerInvariant, PTL DEF Spec, Transactional, OwnersWrite, Lock!LockSpec
=============================================================================
