----------------------- MODULE JudgmentHistory_proofs -----------------------
(***************************************************************************)
(* Proofs about JudgmentHistory, for every set of commands, sequences,     *)
(* assessments and choices and every number of faults.                     *)
(*                                                                         *)
(* JudgmentInv is inductive.  Its conjunct History says what the files     *)
(* hold: a decided chain under the head, at most one record after it, and  *)
(* one sealed assessment that all of them are about.  A step that writes   *)
(* no file keeps it (HistoryKept); each write has a lemma of its own.      *)
(***************************************************************************)
EXTENDS JudgmentHistory, TLAPS

\* A sequence is a positive number.
LEMMA RecordType ==
  \A r \in Record : r.seq \in Nat /\ r.seq >= 1 /\ r.assessment \in Assessments
                    /\ r.action \in {"approve", "revoke"}
<1>1. \A r \in Approval : r.seq \in Seqs /\ r.assessment \in Assessments /\ r.action = "approve"
  BY DEF Approval
<1>2. \A r \in Revocation : r.seq \in Seqs /\ r.assessment \in Assessments /\ r.action = "revoke"
  BY DEF Revocation
<1>3. \A n \in Seqs : n \in Nat /\ n >= 1
  BY SeqsAssumption
<1> QED
  BY <1>1, <1>2, <1>3 DEF Record

\* Permissions tell the two operations apart.
LEMMA RequestType ==
  /\ Approval \subseteq Record /\ \A r \in Approval : r.action = "approve"
  /\ Revocation \subseteq Record /\ \A r \in Revocation : r.action = "revoke"
  BY DEF Record, Approval, Revocation

\* A run without any decision satisfies the invariant.
LEMMA InitInv == Init => JudgmentInv
<1> SUFFICES ASSUME Init PROVE JudgmentInv
  OBVIOUS
<1> USE DistinctAssumption, FaultsAssumption DEF Init
<1>1. TypeOK
  BY DEF TypeOK, Labels
<1>2. ControlFlow /\ LockOwner
  BY DEF ControlFlow, LockOwner, InTransaction, LockedOps, StoringLabels, RecordingLabels
<1>3. History
  BY DEF History, decided, Chain
<1>4. \A p \in Procs : InTransaction(p) => Progress(p)
  BY DEF InTransaction
<1> QED
  BY <1>1, <1>2, <1>3, <1>4 DEF JudgmentInv

\* A step that writes no file keeps what the files say.
LEMMA HistoryKept ==
  ASSUME History, UNCHANGED files, \A p \in Procs : seen'[p] \subseteq records
  PROVE  History'
  BY DEF History, files, decided, Chain, Follows

\* While no record is there, whole or torn, the artifact may change.
LEMMA HistoryEmpty ==
  ASSUME JudgmentInv, stored \notin Assessments
  PROVE  records = {} /\ torn = {} /\ head = Nothing
  BY RecordType DEF JudgmentInv, TypeOK, History

\* Without a record after the head, a complete history is the decided one.
LEMMA WholeIsDecided ==
  ASSUME JudgmentInv, Whole PROVE records = decided
<1> USE DEF JudgmentInv, Whole, Complete
<1>1. CASE head = Nothing
  BY <1>1 DEF decided
<1>2. CASE head # Nothing
  BY <1>2 DEF decided, LastOf
<1> QED
  BY <1>1, <1>2

\* The permission that comes next in a complete history follows the head.
LEMMA NextFollows ==
  ASSUME JudgmentInv, Whole, NEW r \in Record, IsNext(r),
         Active(head) <=> r.action = "revoke"
  PROVE  Follows(r) /\ r \notin records
<1> USE DEF JudgmentInv, TypeOK, Whole, Complete
<1>1. CASE head = Nothing
  BY <1>1, RecordType DEF IsNext, Follows, Active
<1>2. CASE head # Nothing
  <2>1. head \in LastOf(records) /\ head \in Record /\ head \in records
    BY <1>2 DEF LastOf
  <2>2. PICK s \in LastOf(records) : r.seq = s.seq + 1
    BY <2>1 DEF IsNext
  <2>3. s \in Record /\ s.seq = head.seq
    BY <2>1, <2>2, RecordType DEF LastOf
  <2>4. r.action # head.action
    BY <1>2, <2>1, RecordType DEF Active
  <2>5. r \notin records
    BY <2>2, <2>3, RecordType DEF LastOf
  <2> QED
    BY <1>2, <2>2, <2>3, <2>4, <2>5 DEF Follows
<1> QED
  BY <1>1, <1>2

\* The last record of an interrupted history is the one after the head.
LEMMA PartialFollows ==
  ASSUME JudgmentInv, NEW r \in Record, Partial(r)
  PROVE  Follows(r) /\ r \in records /\ torn = {} /\ records \subseteq decided \cup {r}
<1> USE DEF JudgmentInv, TypeOK, Partial, Interrupted
<1>1. r \in records
  BY DEF LastOf
<1>2. r \notin decided
  <2>1. CASE head = Nothing
    BY <2>1 DEF decided
  <2>2. CASE head # Nothing
    BY <2>2, RecordType DEF decided
  <2> QED
    BY <2>1, <2>2
<1> QED
  BY <1>1, <1>2 DEF History

\* A command that writes no file ends and releases its lock.
LEMMA EndOfCommand ==
  ASSUME JudgmentInv, NEW p \in Procs, pc[p] # "idle", Exits(p), UNCHANGED <<files, faults>>
  PROVE  JudgmentInv'
<1> USE DistinctAssumption, FaultsAssumption DEF JudgmentInv, Exits, Forgets, Goto
<1>1. TypeOK'
  BY DEF TypeOK, Labels, files, locals, ControlFlow, LockedOps
<1>2. ControlFlow'
  BY DEF TypeOK, ControlFlow, StoringLabels, RecordingLabels, LockedOps, InTransaction, LockOwner, locals
<1>3. LockOwner'
  BY DEF TypeOK, ControlFlow, StoringLabels, RecordingLabels, LockedOps, InTransaction, LockOwner, locals
<1>4. History'
  BY HistoryKept DEF TypeOK, History, files, locals
<1>5. (\A q \in Procs : InTransaction(q) => Progress(q))'
  BY DEF TypeOK, ControlFlow, StoringLabels, RecordingLabels, LockedOps, InTransaction, LockOwner, Progress, Follows, decided, files, locals
<1> QED
  BY <1>1, <1>2, <1>3, <1>4, <1>5

\* A command starts.
LEMMA StartInv ==
  ASSUME JudgmentInv, NEW p \in Procs, Start(p)
  PROVE  JudgmentInv'
<1> USE DistinctAssumption, FaultsAssumption DEF JudgmentInv, Start, Goto
<1>1. TypeOK'
  BY RequestType DEF TypeOK, Labels, files, locals, ControlFlow, LockedOps
<1>2. ControlFlow'
  BY DEF TypeOK, ControlFlow, StoringLabels, RecordingLabels, LockedOps, InTransaction, LockOwner, locals
<1>3. LockOwner'
  BY DEF TypeOK, ControlFlow, StoringLabels, RecordingLabels, LockedOps, InTransaction, LockOwner, locals
<1>4. History'
  BY HistoryKept DEF TypeOK, History, files, locals
<1>5. (\A q \in Procs : InTransaction(q) => Progress(q))'
  BY DEF TypeOK, ControlFlow, StoringLabels, RecordingLabels, LockedOps, InTransaction, LockOwner, Progress, Follows, decided, files, locals
<1> QED
  BY <1>1, <1>2, <1>3, <1>4, <1>5

\* The lock is taken.
LEMMA AcquireInv ==
  ASSUME JudgmentInv, NEW p \in Procs, Acquire(p)
  PROVE  JudgmentInv'
<1> USE DistinctAssumption, FaultsAssumption DEF JudgmentInv, Acquire, Goto
<1>1. TypeOK'
  BY DEF TypeOK, Labels, files, locals, ControlFlow, LockedOps
<1>2. ControlFlow'
  BY DEF TypeOK, ControlFlow, StoringLabels, RecordingLabels, LockedOps, InTransaction, LockOwner, locals
<1>3. LockOwner'
  BY DEF TypeOK, ControlFlow, StoringLabels, RecordingLabels, LockedOps, InTransaction, LockOwner, locals
<1>4. History'
  BY HistoryKept DEF TypeOK, History, files, locals
<1>5. (\A q \in Procs : InTransaction(q) => Progress(q))'
  BY DEF TypeOK, ControlFlow, StoringLabels, RecordingLabels, LockedOps, InTransaction, LockOwner, Progress, Follows, decided, files, locals
<1> QED
  BY <1>1, <1>2, <1>3, <1>4, <1>5

\* A retry of the decision in force changes nothing.
LEMMA AgainInv ==
  ASSUME JudgmentInv, NEW p \in Procs, ApplyAgain(p) \/ RevokeAgain(p)
  PROVE  JudgmentInv'
<1> USE DistinctAssumption, FaultsAssumption DEF JudgmentInv, ApplyAgain, RevokeAgain, Goto
<1>1. TypeOK'
  BY DEF TypeOK, Labels, files, locals, ControlFlow, LockedOps
<1>2. ControlFlow'
  BY DEF TypeOK, ControlFlow, StoringLabels, RecordingLabels, LockedOps, InTransaction, LockOwner, locals
<1>3. LockOwner'
  BY DEF TypeOK, ControlFlow, StoringLabels, RecordingLabels, LockedOps, InTransaction, LockOwner, locals
<1>4. History'
  BY HistoryKept DEF TypeOK, History, files, locals
<1>5. (\A q \in Procs : InTransaction(q) => Progress(q))'
  BY DEF TypeOK, ControlFlow, StoringLabels, RecordingLabels, LockedOps, InTransaction, LockOwner, Progress, Follows, decided, files, locals
<1> QED
  BY <1>1, <1>2, <1>3, <1>4, <1>5

\* An approval is accepted after a complete history.
LEMMA ApplyNextInv ==
  ASSUME JudgmentInv, NEW p \in Procs, ApplyNext(p)
  PROVE  JudgmentInv'
<1> USE DistinctAssumption, FaultsAssumption DEF JudgmentInv, ApplyNext, Goto
<1>1. TypeOK'
  BY DEF TypeOK, Labels, files, locals, ControlFlow, LockedOps
<1>2. ControlFlow'
  BY DEF TypeOK, ControlFlow, StoringLabels, RecordingLabels, LockedOps, InTransaction, LockOwner, locals
<1>3. LockOwner'
  BY DEF TypeOK, ControlFlow, StoringLabels, RecordingLabels, LockedOps, InTransaction, LockOwner, locals
<1>4. History'
  BY HistoryKept DEF TypeOK, History, files, locals
<1>5. (\A q \in Procs : InTransaction(q) => Progress(q))'
  <2>1. \A q \in Procs : InTransaction(q)' => q = p
    BY DEF TypeOK, ControlFlow, StoringLabels, RecordingLabels, LockedOps, InTransaction, LockOwner, locals
  <2>2. pc'[p] = "store" /\ request'[p] = request[p] /\ UNCHANGED files
    BY DEF TypeOK, locals
  <2>3. Follows(request[p]) /\ torn = {} /\ records = decided
    BY NextFollows, WholeIsDecided, RequestType DEF Whole, ControlFlow
  <2>9. Progress(p)'
    BY <2>2, <2>3 DEF Progress, StoringLabels, RecordingLabels, Follows, decided, files
  <2> QED
    BY <2>1, <2>9
<1> QED
  BY <1>1, <1>2, <1>3, <1>4, <1>5

\* An interrupted approval is resumed.
LEMMA ApplyResumeInv ==
  ASSUME JudgmentInv, NEW p \in Procs, ApplyResume(p)
  PROVE  JudgmentInv'
<1> USE DistinctAssumption, FaultsAssumption DEF JudgmentInv, ApplyResume, Goto
<1>1. TypeOK'
  BY DEF TypeOK, Labels, files, locals, ControlFlow, LockedOps
<1>2. ControlFlow'
  BY DEF TypeOK, ControlFlow, StoringLabels, RecordingLabels, LockedOps, InTransaction, LockOwner, locals
<1>3. LockOwner'
  BY DEF TypeOK, ControlFlow, StoringLabels, RecordingLabels, LockedOps, InTransaction, LockOwner, locals
<1>4. History'
  BY HistoryKept DEF TypeOK, History, files, locals
<1>5. (\A q \in Procs : InTransaction(q) => Progress(q))'
  <2>1. \A q \in Procs : InTransaction(q)' => q = p
    BY DEF TypeOK, ControlFlow, StoringLabels, RecordingLabels, LockedOps, InTransaction, LockOwner, locals
  <2>2. pc'[p] = "store" /\ request'[p] = request[p] /\ UNCHANGED files
    BY DEF TypeOK, locals
  <2>3. Follows(request[p]) /\ torn = {} /\ records \subseteq decided \cup {request[p]}
    BY PartialFollows, RequestType DEF ControlFlow
  <2>9. Progress(p)'
    BY <2>2, <2>3 DEF Progress, StoringLabels, RecordingLabels, Follows, decided, files
  <2> QED
    BY <2>1, <2>9
<1> QED
  BY <1>1, <1>2, <1>3, <1>4, <1>5

\* The artifact of the run is created.
LEMMA CreateAssessmentInv ==
  ASSUME JudgmentInv, NEW p \in Procs, CreateAssessment(p)
  PROVE  JudgmentInv'
<1> USE DistinctAssumption, FaultsAssumption DEF JudgmentInv, CreateAssessment, Goto
<1>a. Progress(p) /\ request[p] \in Record /\ op[p] = "apply"
  BY RequestType DEF ControlFlow, InTransaction, LockedOps, StoringLabels, RecordingLabels
<1>b. records = {} /\ torn = {} /\ head = Nothing
  BY HistoryEmpty
<1>1. TypeOK'
  BY DEF TypeOK, Labels, files, locals, ControlFlow, LockedOps
<1>2. ControlFlow'
  BY DEF TypeOK, ControlFlow, StoringLabels, RecordingLabels, LockedOps, InTransaction, LockOwner, locals
<1>3. LockOwner'
  BY DEF TypeOK, ControlFlow, StoringLabels, RecordingLabels, LockedOps, InTransaction, LockOwner, locals
<1>4. History'
  BY <1>b DEF History, decided, Chain, locals
<1>5. (\A q \in Procs : InTransaction(q) => Progress(q))'
  <2>1. \A q \in Procs : InTransaction(q)' => q = p
    BY DEF TypeOK, ControlFlow, StoringLabels, RecordingLabels, LockedOps, InTransaction, LockOwner, locals
  <2>2. request'[p] = request[p] /\ op'[p] = op[p]
    BY DEF TypeOK, locals
  <2>9. Progress(p)'
    BY <1>a, <1>b, <2>2 DEF Progress, StoringLabels, RecordingLabels, Follows, decided
  <2> QED
    BY <2>1, <2>9
<1> QED
  BY <1>1, <1>2, <1>3, <1>4, <1>5

\* The artifact of the run is sealed.
LEMMA FillAssessmentInv ==
  ASSUME JudgmentInv, NEW p \in Procs, FillAssessment(p)
  PROVE  JudgmentInv'
<1> USE DistinctAssumption, FaultsAssumption DEF JudgmentInv, FillAssessment, RecordNext, Goto
<1>a. Progress(p) /\ request[p] \in Record /\ op[p] = "apply"
  BY RequestType DEF ControlFlow, InTransaction, LockedOps, StoringLabels, RecordingLabels
<1>b. records = {} /\ torn = {} /\ head = Nothing
  BY <1>a, HistoryEmpty DEF Progress
<1>1. TypeOK'
  BY <1>a, RecordType DEF TypeOK, Labels, files, locals, ControlFlow, LockedOps
<1>2. ControlFlow'
  BY <1>a DEF TypeOK, ControlFlow, StoringLabels, RecordingLabels, LockedOps, InTransaction, LockOwner, locals
<1>3. LockOwner'
  BY <1>a DEF TypeOK, ControlFlow, StoringLabels, RecordingLabels, LockedOps, InTransaction, LockOwner, locals
<1>4. History'
  BY <1>b DEF History, decided, Chain, locals
<1>5. (\A q \in Procs : InTransaction(q) => Progress(q))'
  <2>1. \A q \in Procs : InTransaction(q)' => q = p
    BY DEF TypeOK, ControlFlow, StoringLabels, RecordingLabels, LockedOps, InTransaction, LockOwner, locals
  <2>2. request'[p] = request[p] /\ op'[p] = op[p]
    BY DEF TypeOK, locals
  <2>9. Progress(p)'
    BY <1>a, <1>b, <2>2 DEF Progress, StoringLabels, RecordingLabels, Follows, decided, TypeOK
  <2> QED
    BY <2>1, <2>9
<1> QED
  BY <1>1, <1>2, <1>3, <1>4, <1>5

\* The artifact of the run exists and is the same.
LEMMA AssessmentExistsInv ==
  ASSUME JudgmentInv, NEW p \in Procs, AssessmentExists(p), stored = request[p].assessment
  PROVE  JudgmentInv'
<1> USE DistinctAssumption, FaultsAssumption DEF JudgmentInv, AssessmentExists, RecordNext, Goto
<1>a. Progress(p) /\ request[p] \in Record /\ op[p] = "apply"
  BY RequestType DEF ControlFlow, InTransaction, LockedOps, StoringLabels, RecordingLabels
<1>1. TypeOK'
  BY DEF TypeOK, Labels, files, locals, ControlFlow, LockedOps
<1>2. ControlFlow'
  BY <1>a DEF TypeOK, ControlFlow, StoringLabels, RecordingLabels, LockedOps, InTransaction, LockOwner, locals
<1>3. LockOwner'
  BY <1>a DEF TypeOK, ControlFlow, StoringLabels, RecordingLabels, LockedOps, InTransaction, LockOwner, locals
<1>4. History'
  BY HistoryKept DEF TypeOK, History, files, locals
<1>5. (\A q \in Procs : InTransaction(q) => Progress(q))'
  <2>1. \A q \in Procs : InTransaction(q)' => q = p
    BY DEF TypeOK, ControlFlow, StoringLabels, RecordingLabels, LockedOps, InTransaction, LockOwner, locals
  <2>2. request'[p] = request[p] /\ op'[p] = op[p]
    BY DEF TypeOK, locals
  <2>9. Progress(p)'
    BY <1>a, <2>2 DEF Progress, StoringLabels, RecordingLabels, Follows, decided, files, TypeOK
  <2> QED
    BY <2>1, <2>9
<1> QED
  BY <1>1, <1>2, <1>3, <1>4, <1>5

\* A revocation is accepted after a complete history.
LEMMA RevokeNextInv ==
  ASSUME JudgmentInv, NEW p \in Procs, RevokeNext(p)
  PROVE  JudgmentInv'
<1> USE DistinctAssumption, FaultsAssumption DEF JudgmentInv, RevokeNext, Goto
<1>1. TypeOK'
  BY DEF TypeOK, Labels, files, locals, ControlFlow, LockedOps
<1>2. ControlFlow'
  BY DEF TypeOK, ControlFlow, StoringLabels, RecordingLabels, LockedOps, InTransaction, LockOwner, locals
<1>3. LockOwner'
  BY DEF TypeOK, ControlFlow, StoringLabels, RecordingLabels, LockedOps, InTransaction, LockOwner, locals
<1>4. History'
  BY HistoryKept DEF TypeOK, History, files, locals
<1>5. (\A q \in Procs : InTransaction(q) => Progress(q))'
  <2>1. \A q \in Procs : InTransaction(q)' => q = p
    BY DEF TypeOK, ControlFlow, StoringLabels, RecordingLabels, LockedOps, InTransaction, LockOwner, locals
  <2>2. pc'[p] = "createRecord" /\ request'[p] = request[p] /\ UNCHANGED files
    BY DEF TypeOK, locals
  <2>3. Follows(request[p]) /\ torn = {} /\ records = decided /\ request[p] \notin records
    BY NextFollows, WholeIsDecided, RequestType DEF Whole, ControlFlow
  <2>9. Progress(p)'
    BY <2>2, <2>3 DEF Progress, StoringLabels, RecordingLabels, Follows, decided, files
  <2> QED
    BY <2>1, <2>9
<1> QED
  BY <1>1, <1>2, <1>3, <1>4, <1>5

\* An interrupted revocation is resumed.
LEMMA RevokeResumeInv ==
  ASSUME JudgmentInv, NEW p \in Procs, RevokeResume(p)
  PROVE  JudgmentInv'
<1> USE DistinctAssumption, FaultsAssumption DEF JudgmentInv, RevokeResume, Goto
<1>1. TypeOK'
  BY DEF TypeOK, Labels, files, locals, ControlFlow, LockedOps
<1>2. ControlFlow'
  BY DEF TypeOK, ControlFlow, StoringLabels, RecordingLabels, LockedOps, InTransaction, LockOwner, locals
<1>3. LockOwner'
  BY DEF TypeOK, ControlFlow, StoringLabels, RecordingLabels, LockedOps, InTransaction, LockOwner, locals
<1>4. History'
  BY HistoryKept DEF TypeOK, History, files, locals
<1>5. (\A q \in Procs : InTransaction(q) => Progress(q))'
  <2>1. \A q \in Procs : InTransaction(q)' => q = p
    BY DEF TypeOK, ControlFlow, StoringLabels, RecordingLabels, LockedOps, InTransaction, LockOwner, locals
  <2>2. pc'[p] = "writeHead" /\ request'[p] = request[p] /\ UNCHANGED files
    BY DEF TypeOK, locals
  <2>3. Follows(request[p]) /\ torn = {} /\ request[p] \in records
    BY PartialFollows, RequestType DEF ControlFlow
  <2>9. Progress(p)'
    BY <2>2, <2>3 DEF Progress, StoringLabels, RecordingLabels, Follows, decided, files, Evidenced
  <2> QED
    BY <2>1, <2>9
<1> QED
  BY <1>1, <1>2, <1>3, <1>4, <1>5

\* The file of a record is created.
LEMMA CreateRecordInv ==
  ASSUME JudgmentInv, NEW p \in Procs, CreateRecord(p)
  PROVE  JudgmentInv'
<1> USE DistinctAssumption, FaultsAssumption DEF JudgmentInv, CreateRecord, Goto
<1>a. Progress(p) /\ request[p] \in Record /\ op[p] \in LockedOps
  BY RequestType DEF ControlFlow, InTransaction, LockedOps, StoringLabels, RecordingLabels
<1>1. TypeOK'
  BY <1>a DEF TypeOK, Labels, files, locals, ControlFlow, LockedOps
<1>2. ControlFlow'
  BY DEF TypeOK, ControlFlow, StoringLabels, RecordingLabels, LockedOps, InTransaction, LockOwner, locals
<1>3. LockOwner'
  BY DEF TypeOK, ControlFlow, StoringLabels, RecordingLabels, LockedOps, InTransaction, LockOwner, locals
<1>4. History'
  <2>1. /\ Follows(request[p]) /\ torn = {} /\ records \subseteq decided \cup {request[p]}
        /\ request[p] \notin records /\ stored = request[p].assessment
    BY <1>a DEF Progress, StoringLabels, RecordingLabels
  <2>2. decided' = decided /\ torn' = {request[p]}
    BY <2>1 DEF decided
  <2> QED
    BY <1>a, <2>1, <2>2 DEF History, Chain, Follows, locals
<1>5. (\A q \in Procs : InTransaction(q) => Progress(q))'
  <2>1. \A q \in Procs : InTransaction(q)' => q = p
    BY DEF TypeOK, ControlFlow, StoringLabels, RecordingLabels, LockedOps, InTransaction, LockOwner, locals
  <2>2. request'[p] = request[p] /\ op'[p] = op[p]
    BY DEF TypeOK, locals
  <2>9. Progress(p)'
    BY <1>a, <2>2 DEF Progress, StoringLabels, RecordingLabels, Follows, decided, TypeOK
  <2> QED
    BY <2>1, <2>9
<1> QED
  BY <1>1, <1>2, <1>3, <1>4, <1>5

\* A record is sealed.
LEMMA FillRecordInv ==
  ASSUME JudgmentInv, NEW p \in Procs, FillRecord(p)
  PROVE  JudgmentInv'
<1> USE DistinctAssumption, FaultsAssumption DEF JudgmentInv, FillRecord, Goto
<1>a. Progress(p) /\ request[p] \in Record /\ op[p] \in LockedOps
  BY RequestType DEF ControlFlow, InTransaction, LockedOps, StoringLabels, RecordingLabels
<1>1. TypeOK'
  BY <1>a DEF TypeOK, Labels, files, locals, ControlFlow, LockedOps
<1>2. ControlFlow'
  BY DEF TypeOK, ControlFlow, StoringLabels, RecordingLabels, LockedOps, InTransaction, LockOwner, locals
<1>3. LockOwner'
  BY DEF TypeOK, ControlFlow, StoringLabels, RecordingLabels, LockedOps, InTransaction, LockOwner, locals
<1>4. History'
  <2>1. /\ Follows(request[p]) /\ torn = {request[p]} /\ request[p] \notin records
        /\ stored = request[p].assessment
    BY <1>a DEF Progress, StoringLabels, RecordingLabels
  <2>2. decided' = decided
    BY <1>a, <2>1, RecordType DEF decided, Follows, TypeOK, History
  <2>3. records' \cup torn' = records \cup torn /\ torn' = {}
    BY <2>1
  <2>4. \A r : Follows(r)' <=> Follows(r)
    BY DEF Follows
  <2>5. Chain(decided)'
    BY <2>2 DEF History, Chain
  <2> QED
    BY <1>a, <2>1, <2>2, <2>3, <2>4, <2>5 DEF History, locals
<1>5. (\A q \in Procs : InTransaction(q) => Progress(q))'
  <2>1. \A q \in Procs : InTransaction(q)' => q = p
    BY DEF TypeOK, ControlFlow, StoringLabels, RecordingLabels, LockedOps, InTransaction, LockOwner, locals
  <2>2. request'[p] = request[p] /\ op'[p] = op[p]
    BY DEF TypeOK, locals
  <2>9. Progress(p)'
    BY <1>a, <2>2 DEF Progress, StoringLabels, RecordingLabels, Follows, decided, TypeOK
  <2> QED
    BY <2>1, <2>9
<1> QED
  BY <1>1, <1>2, <1>3, <1>4, <1>5

\* The head moves to the record after it.
LEMMA WriteHeadDecides ==
  ASSUME JudgmentInv, NEW p \in Procs, WriteHead(p)
  PROVE  /\ decided' = decided \cup {request[p]}
         /\ request[p] \in Record /\ request[p] \in records /\ torn = {}
         /\ records \subseteq decided \cup {request[p]}
         /\ Follows(request[p])
<1> USE DEF JudgmentInv, WriteHead
<1>1. Progress(p) /\ request[p] \in Record
  BY RequestType DEF ControlFlow, InTransaction, LockedOps, StoringLabels, RecordingLabels
<1>2. Follows(request[p]) /\ torn = {} /\ request[p] \in records
  BY <1>1 DEF Progress, RecordingLabels
<1>3. request[p] \notin decided
  BY <1>1, <1>2, RecordType DEF decided, Follows, TypeOK, History
<1>4. records \subseteq decided \cup {request[p]}
  BY <1>2, <1>3 DEF History
<1>5. \A r \in decided : r \in records /\ r.seq <= request[p].seq
  BY <1>1, <1>2, RecordType DEF decided, Follows, TypeOK, History
<1>6. decided' = decided \cup {request[p]}
  <2>1. \A r : r \in decided' <=> r \in records /\ r.seq <= request[p].seq
    BY <1>1, DistinctAssumption DEF decided
  <2> QED
    BY <1>1, <1>2, <1>4, <1>5, <2>1, RecordType
<1> QED
  BY <1>1, <1>2, <1>4, <1>6

\* A decision takes effect.
LEMMA WriteHeadInv ==
  ASSUME JudgmentInv, NEW p \in Procs, WriteHead(p)
  PROVE  JudgmentInv'
<1> USE DistinctAssumption, FaultsAssumption DEF JudgmentInv, WriteHead, Goto
<1>a. Progress(p) /\ request[p] \in Record /\ op[p] \in LockedOps
  BY RequestType DEF ControlFlow, InTransaction, LockedOps, StoringLabels, RecordingLabels
<1>1. TypeOK'
  BY <1>a DEF TypeOK, Labels, files, locals, ControlFlow, LockedOps
<1>2. ControlFlow'
  BY DEF TypeOK, ControlFlow, StoringLabels, RecordingLabels, LockedOps, InTransaction, LockOwner, locals
<1>3. LockOwner'
  BY DEF TypeOK, ControlFlow, StoringLabels, RecordingLabels, LockedOps, InTransaction, LockOwner, locals
<1>4. History'
  <2>1. decided' = decided \cup {request[p]} /\ records \subseteq decided' /\ torn' = {}
    BY WriteHeadDecides
  <2>2. Chain(decided \cup {request[p]})
    <3>1. CASE head = Nothing
      <4>1. decided = {} /\ request[p].seq = 1 /\ request[p].action = "approve"
        BY <3>1, WriteHeadDecides DEF decided, Follows
      <4> QED
        BY <4>1 DEF Chain
    <3>2. CASE head # Nothing
      <4>1. /\ head \in decided /\ head \in Record /\ request[p].seq = head.seq + 1
            /\ request[p].action # head.action
        BY <3>2, WriteHeadDecides, RecordType DEF decided, Follows, History, TypeOK
      <4>2. \A r \in decided : r \in Record /\ r.seq <= head.seq
        BY DEF decided, TypeOK
      <4>3. \A r \in decided : r.seq # request[p].seq
        BY <4>1, <4>2, RecordType
      <4>4. /\ head.seq = request[p].seq - 1 /\ request[p].seq # 1
            /\ request[p].action = "revoke" => head.action = "approve"
        BY <1>a, <4>1, RecordType
      <4>5. Chain(decided)
        BY DEF History
      <4>6. \A r, s \in decided \cup {request[p]} : r.seq = s.seq => r = s
        BY <4>3, <4>5 DEF Chain
      <4>7. ASSUME NEW r \in decided, r.seq # 1
            PROVE  \E s \in decided : /\ s.seq = r.seq - 1
                                      /\ r.action = "revoke" => s.action = "approve"
        BY <4>5, <4>7 DEF Chain
      <4>8. \A r \in decided : r.seq = 1 => r.action = "approve"
        BY <4>5 DEF Chain
      <4> QED
        BY <4>1, <4>4, <4>6, <4>7, <4>8 DEF Chain
    <3> QED
      BY <3>1, <3>2
  <2> QED
    BY <1>a, <2>1, <2>2, WriteHeadDecides DEF History, locals, Chain
<1>5. (\A q \in Procs : InTransaction(q) => Progress(q))'
  <2>1. \A q \in Procs : InTransaction(q)' => q = p
    BY DEF TypeOK, ControlFlow, StoringLabels, RecordingLabels, LockedOps, InTransaction, LockOwner, locals
  <2>2. request'[p] = request[p] /\ op'[p] = op[p]
    BY DEF TypeOK, locals
  <2>9. Progress(p)'
    BY <1>a, <2>2 DEF Progress, StoringLabels, RecordingLabels, TypeOK
  <2> QED
    BY <2>1, <2>9
<1> QED
  BY <1>1, <1>2, <1>3, <1>4, <1>5

\* The verifying read succeeds.
LEMMA VerifyInv ==
  ASSUME JudgmentInv, NEW p \in Procs, Verify(p), UNCHANGED <<lock, locals>>, pc' = [pc EXCEPT ![p] = "done"]
  PROVE  JudgmentInv'
<1> USE DistinctAssumption, FaultsAssumption DEF JudgmentInv, Verify, Goto
<1>1. TypeOK'
  BY DEF TypeOK, Labels, files, locals, ControlFlow, LockedOps
<1>2. ControlFlow'
  BY DEF TypeOK, ControlFlow, StoringLabels, RecordingLabels, LockedOps, InTransaction, LockOwner, locals
<1>3. LockOwner'
  BY DEF TypeOK, ControlFlow, StoringLabels, RecordingLabels, LockedOps, InTransaction, LockOwner, locals
<1>4. History'
  BY HistoryKept DEF TypeOK, History, files, locals
<1>5. (\A q \in Procs : InTransaction(q) => Progress(q))'
  BY DEF TypeOK, ControlFlow, StoringLabels, RecordingLabels, LockedOps, InTransaction, LockOwner, Progress, Follows, decided, files, locals
<1> QED
  BY <1>1, <1>2, <1>3, <1>4, <1>5

\* A reader without the lock reads the records.
LEMMA ReadRecordsInv ==
  ASSUME JudgmentInv, NEW p \in Procs, ReadRecords(p), seen' = [seen EXCEPT ![p] = records], pc' = [pc EXCEPT ![p] = "head"], UNCHANGED <<lock, op, request, observed>>
  PROVE  JudgmentInv'
<1> USE DistinctAssumption, FaultsAssumption DEF JudgmentInv, ReadRecords, Goto
<1>1. TypeOK'
  BY DEF TypeOK, Labels, files, locals, ControlFlow, LockedOps
<1>2. ControlFlow'
  BY DEF TypeOK, ControlFlow, StoringLabels, RecordingLabels, LockedOps, InTransaction, LockOwner, locals
<1>3. LockOwner'
  BY DEF TypeOK, ControlFlow, StoringLabels, RecordingLabels, LockedOps, InTransaction, LockOwner, locals
<1>4. History'
  BY HistoryKept DEF TypeOK, History, files, locals
<1>5. (\A q \in Procs : InTransaction(q) => Progress(q))'
  BY DEF TypeOK, ControlFlow, StoringLabels, RecordingLabels, LockedOps, InTransaction, LockOwner, Progress, Follows, decided, files, locals
<1> QED
  BY <1>1, <1>2, <1>3, <1>4, <1>5

\* A reader without the lock reads the head.
LEMMA ReadHeadInv ==
  ASSUME JudgmentInv, NEW p \in Procs, ReadHead(p), observed' = [observed EXCEPT ![p] = head], UNCHANGED <<lock, op, request, seen>>,
         pc' = [pc EXCEPT ![p] = IF op[p] = "status" THEN "assessment" ELSE "done"]
  PROVE  JudgmentInv'
<1> USE DistinctAssumption, FaultsAssumption DEF JudgmentInv, ReadHead, Goto
<1>1. TypeOK'
  BY DEF TypeOK, Labels, files, locals, ControlFlow, LockedOps
<1>2. ControlFlow'
  BY DEF TypeOK, ControlFlow, StoringLabels, RecordingLabels, LockedOps, InTransaction, LockOwner, locals
<1>3. LockOwner'
  BY DEF TypeOK, ControlFlow, StoringLabels, RecordingLabels, LockedOps, InTransaction, LockOwner, locals
<1>4. History'
  BY HistoryKept DEF TypeOK, History, files, locals
<1>5. (\A q \in Procs : InTransaction(q) => Progress(q))'
  BY DEF TypeOK, ControlFlow, StoringLabels, RecordingLabels, LockedOps, InTransaction, LockOwner, Progress, Follows, decided, files, locals
<1> QED
  BY <1>1, <1>2, <1>3, <1>4, <1>5

\* The status reads the artifact.
LEMMA ReadAssessmentInv ==
  ASSUME JudgmentInv, NEW p \in Procs, ReadAssessment(p), UNCHANGED <<lock, locals>>, pc' = [pc EXCEPT ![p] = "done"]
  PROVE  JudgmentInv'
<1> USE DistinctAssumption, FaultsAssumption DEF JudgmentInv, ReadAssessment, Goto
<1>1. TypeOK'
  BY DEF TypeOK, Labels, files, locals, ControlFlow, LockedOps
<1>2. ControlFlow'
  BY DEF TypeOK, ControlFlow, StoringLabels, RecordingLabels, LockedOps, InTransaction, LockOwner, locals
<1>3. LockOwner'
  BY DEF TypeOK, ControlFlow, StoringLabels, RecordingLabels, LockedOps, InTransaction, LockOwner, locals
<1>4. History'
  BY HistoryKept DEF TypeOK, History, files, locals
<1>5. (\A q \in Procs : InTransaction(q) => Progress(q))'
  BY DEF TypeOK, ControlFlow, StoringLabels, RecordingLabels, LockedOps, InTransaction, LockOwner, Progress, Follows, decided, files, locals
<1> QED
  BY <1>1, <1>2, <1>3, <1>4, <1>5

\* A write raises.
LEMMA WriteFailsInv ==
  ASSUME JudgmentInv, NEW p \in Procs, WriteFails(p)
  PROVE  JudgmentInv'
<1> USE DistinctAssumption, FaultsAssumption DEF JudgmentInv, WriteFails, Exits, Forgets, Goto
<1>1. TypeOK'
  BY DEF TypeOK, Labels, files, locals, ControlFlow, LockedOps
<1>2. ControlFlow'
  BY DEF TypeOK, ControlFlow, StoringLabels, RecordingLabels, LockedOps, InTransaction, LockOwner, locals
<1>3. LockOwner'
  BY DEF TypeOK, ControlFlow, StoringLabels, RecordingLabels, LockedOps, InTransaction, LockOwner, locals
<1>4. History'
  <2>1. Progress(p) /\ op[p] \in LockedOps
    BY DEF ControlFlow, InTransaction, LockedOps, StoringLabels, RecordingLabels
  <2>2. CASE pc[p] = "fillAssessment"
    <3>1. records = {} /\ torn = {} /\ head = Nothing
      BY <2>1, <2>2, HistoryEmpty DEF Progress
    <3> QED
      BY <2>2, <3>1 DEF History, decided, Chain, TypeOK
  <2>3. CASE pc[p] # "fillAssessment"
    <3>1. decided' = decided /\ torn' \subseteq torn
      BY DEF decided
    <3> QED
      BY <2>3, <3>1 DEF History, Chain, Follows, TypeOK
  <2> QED
    BY <2>2, <2>3
<1>5. (\A q \in Procs : InTransaction(q) => Progress(q))'
  BY DEF TypeOK, ControlFlow, StoringLabels, RecordingLabels, LockedOps, InTransaction, LockOwner, Progress, Follows, decided, files, locals
<1> QED
  BY <1>1, <1>2, <1>3, <1>4, <1>5

\* A command dies.
LEMMA CrashInv ==
  ASSUME JudgmentInv, NEW p \in Procs, Crash(p)
  PROVE  JudgmentInv'
<1> USE DistinctAssumption, FaultsAssumption DEF JudgmentInv, Crash, Forgets, Goto
<1>1. TypeOK'
  BY DEF TypeOK, Labels, files, locals, ControlFlow, LockedOps
<1>2. ControlFlow'
  BY DEF TypeOK, ControlFlow, StoringLabels, RecordingLabels, LockedOps, InTransaction, LockOwner, locals
<1>3. LockOwner'
  BY DEF TypeOK, ControlFlow, StoringLabels, RecordingLabels, LockedOps, InTransaction, LockOwner, locals
<1>4. History'
  BY HistoryKept DEF TypeOK, History, files, locals
<1>5. (\A q \in Procs : InTransaction(q) => Progress(q))'
  BY DEF TypeOK, ControlFlow, StoringLabels, RecordingLabels, LockedOps, InTransaction, LockOwner, Progress, Follows, decided, files, locals
<1> QED
  BY <1>1, <1>2, <1>3, <1>4, <1>5

\* An operator removes a stale lock.
LEMMA RemoveStaleLockInv ==
  ASSUME JudgmentInv, RemoveStaleLock
  PROVE  JudgmentInv'
<1> USE DistinctAssumption, FaultsAssumption DEF JudgmentInv, RemoveStaleLock, Goto
<1>1. TypeOK'
  BY DEF TypeOK, Labels, files, locals, ControlFlow, LockedOps
<1>2. ControlFlow'
  BY DEF TypeOK, ControlFlow, StoringLabels, RecordingLabels, LockedOps, InTransaction, LockOwner, locals
<1>3. LockOwner'
  BY DEF TypeOK, ControlFlow, StoringLabels, RecordingLabels, LockedOps, InTransaction, LockOwner, locals
<1>4. History'
  BY HistoryKept DEF TypeOK, History, files, locals
<1>5. (\A q \in Procs : InTransaction(q) => Progress(q))'
  BY DEF TypeOK, ControlFlow, StoringLabels, RecordingLabels, LockedOps, InTransaction, LockOwner, Progress, Follows, decided, files, locals
<1> QED
  BY <1>1, <1>2, <1>3, <1>4, <1>5

\* Every step of the history preserves the invariant.
LEMMA NextInv == JudgmentInv /\ [Next]_vars => JudgmentInv'
<1> SUFFICES ASSUME JudgmentInv, [Next]_vars PROVE JudgmentInv'
  OBVIOUS
<1>1. CASE UNCHANGED vars
  BY <1>1 DEF vars, files, locals, JudgmentInv, TypeOK, ControlFlow, LockOwner, InTransaction,
     History, decided, Chain, Follows, Progress
<1>2. ASSUME NEW p \in Procs, Start(p) \/ WriteFails(p) \/ Crash(p) \/ Acquire(p) \/ GiveUp(p)
      PROVE  JudgmentInv'
  BY <1>2, StartInv, WriteFailsInv, CrashInv, AcquireInv, EndOfCommand DEF GiveUp
<1>3. ASSUME NEW p \in Procs, Applying(p) PROVE JudgmentInv'
  <2>1. ASSUME AssessmentExists(p) PROVE JudgmentInv'
    BY <2>1, AssessmentExistsInv, EndOfCommand DEF AssessmentExists
  <2>2. ASSUME ApplyRefused(p) PROVE JudgmentInv'
    BY <2>2, EndOfCommand DEF ApplyRefused
  <2> QED
    BY <1>3, <2>1, <2>2, AgainInv, ApplyNextInv, ApplyResumeInv, CreateAssessmentInv,
       FillAssessmentInv DEF Applying
<1>4. ASSUME NEW p \in Procs, Revoking(p) PROVE JudgmentInv'
  <2>1. ASSUME RevokeRefused(p) PROVE JudgmentInv'
    BY <2>1, EndOfCommand DEF RevokeRefused
  <2> QED
    BY <1>4, <2>1, AgainInv, RevokeNextInv, RevokeResumeInv DEF Revoking
<1>5. ASSUME NEW p \in Procs, Writing(p) PROVE JudgmentInv'
  <2>1. ASSUME Verify(p) PROVE JudgmentInv'
    BY <2>1, VerifyInv, EndOfCommand DEF Verify, Goto
  <2> QED
    BY <1>5, <2>1, CreateRecordInv, FillRecordInv, WriteHeadInv DEF Writing
<1>6. ASSUME NEW p \in Procs, Reading(p) \/ Return(p) PROVE JudgmentInv'
  <2>1. ASSUME ReadRecords(p) PROVE JudgmentInv'
    BY <2>1, ReadRecordsInv, EndOfCommand DEF ReadRecords, Goto
  <2>2. ASSUME ReadHead(p) PROVE JudgmentInv'
    BY <2>2, ReadHeadInv, EndOfCommand DEF ReadHead, Goto
  <2>3. ASSUME ReadAssessment(p) PROVE JudgmentInv'
    BY <2>3, ReadAssessmentInv, EndOfCommand DEF ReadAssessment, Goto
  <2>4. ASSUME Return(p) PROVE JudgmentInv'
    BY <2>4, EndOfCommand DEF Return
  <2> QED
    BY <1>6, <2>1, <2>2, <2>3, <2>4 DEF Reading
<1> QED
  BY <1>1, <1>2, <1>3, <1>4, <1>5, <1>6, RemoveStaleLockInv DEF Next, Step

\* Types, lock ownership, one chain of decisions with at most one record after
\* the head, one assessment, and what the owner of the lock has established.
THEOREM JudgmentInvariant == Spec => []JudgmentInv
  BY InitInv, NextInv, PTL DEF Spec

\* Whatever fails in between, no record exists without its sealed assessment.
THEOREM Evidence == Spec => []EvidenceBeforeDecision
<1>1. JudgmentInv => EvidenceBeforeDecision
  BY DEF JudgmentInv, History, EvidenceBeforeDecision
<1> QED
  BY <1>1, JudgmentInvariant, PTL

\* A history without torn files is complete, or its last record completes it.
LEMMA InvRecoverable == JudgmentInv => Recoverable
<1> SUFFICES ASSUME JudgmentInv, torn = {} PROVE
      Complete(records, head) \/ \E r \in records : Partial(r) /\ stored = r.assessment
  BY DEF Recoverable
<1> USE DEF JudgmentInv
<1>1. Chain(decided) /\ decided \subseteq records /\ records \subseteq Record
      /\ head \in records \cup {Nothing} /\ head \in Record \cup {Nothing}
  BY DEF History, decided, TypeOK
<1>2. head # Nothing => head \in decided /\ \A s \in decided : s.seq <= head.seq
  BY <1>1, RecordType DEF decided
<1>3. CASE records = decided
  <2>1. head = Nothing => records = {}
    BY <1>3 DEF decided
  <2>2. head # Nothing => head \in LastOf(records)
    BY <1>2, <1>3 DEF LastOf
  <2> QED
    BY <1>1, <1>3, <2>1, <2>2 DEF Complete
<1>4. CASE records # decided
  <2>1. PICK r \in records \ decided : records = decided \cup {r}
    <3>1. PICK r \in records \ decided : TRUE
      BY <1>1, <1>4
    <3>2. \A s \in records \ decided : s = r
      BY <3>1 DEF History
    <3> QED
      BY <1>1, <3>1, <3>2
  <2>2. Follows(r) /\ stored = r.assessment
    BY <2>1 DEF History
  <2>3. \A s \in decided : s.seq < r.seq
    BY <1>1, <1>2, <2>1, <2>2, RecordType DEF Follows, decided
  <2>4. r \in LastOf(records)
    BY <1>1, <2>1, <2>3, RecordType DEF LastOf
  <2>5. Chain(records)
    <3>1. CASE head = Nothing
      BY <1>1, <2>1, <2>2, <3>1 DEF decided, Chain, Follows
    <3>2. CASE head # Nothing
      <4>1. head.seq = r.seq - 1 /\ r.seq # 1 /\ (r.action = "revoke" => head.action = "approve")
        BY <1>1, <1>2, <2>1, <2>2, <3>2, RecordType DEF Follows
      <4>2. \A s \in decided : s.seq # r.seq
        BY <1>1, <2>1, <2>3, RecordType
      <4>3. \A s, t \in records : s.seq = t.seq => s = t
        BY <1>1, <2>1, <4>2 DEF Chain
      <4>4. ASSUME NEW s \in decided, s.seq # 1
            PROVE  \E t \in records : t.seq = s.seq - 1 /\ (s.action = "revoke" => t.action = "approve")
        BY <1>1, <4>4 DEF Chain
      <4>5. \A s \in decided : s.seq = 1 => s.action = "approve"
        BY <1>1 DEF Chain
      <4> QED
        BY <1>2, <2>1, <3>2, <4>1, <4>3, <4>4, <4>5 DEF Chain
    <3> QED
      BY <3>1, <3>2
  <2>6. Interrupted(records, head, r)
    <3>1. CASE head = Nothing
      BY <2>1, <2>2, <2>4, <2>5, <3>1 DEF Interrupted, Follows, decided
    <3>2. CASE head # Nothing
      <4>1. head.seq = r.seq - 1 /\ r.action # head.action
        BY <1>1, <2>1, <2>2, <3>2, RecordType DEF Follows
      <4>2. \A s \in records : s.assessment = head.assessment
        BY <1>1, <3>2 DEF History
      <4> QED
        BY <1>1, <2>4, <2>5, <3>2, <4>1, <4>2 DEF Interrupted
    <3> QED
      BY <3>1, <3>2
  <2> QED
    BY <2>1, <2>2, <2>6 DEF Partial
<1> QED
  BY <1>3, <1>4

\* One retry with the permission of the last record completes any history
\* without torn files.
THEOREM Completable == Spec => []Recoverable
  BY InvRecoverable, JudgmentInvariant, PTL

-----------------------------------------------------------------------------
(* What a single step reports.                                             *)

\* A command's own steps are the only ones that move it.
LEMMA OnlyOwnSteps ==
  ASSUME JudgmentInv, NEW p \in Procs, NEW q \in Procs, q # p,
         Start(q) \/ Step(q) \/ WriteFails(q) \/ Crash(q)
  PROVE  pc'[p] = pc[p]
<1> USE DEF JudgmentInv, TypeOK, Goto, Exits, Forgets
<1>1. CASE Start(q) \/ WriteFails(q) \/ Crash(q) \/ Acquire(q) \/ GiveUp(q)
  BY <1>1 DEF Start, WriteFails, Crash, Acquire, GiveUp
<1>2. CASE Applying(q)
  BY <1>2 DEF Applying, ApplyAgain, ApplyNext, ApplyResume, ApplyRefused, CreateAssessment,
     FillAssessment, AssessmentExists, RecordNext
<1>3. CASE Revoking(q)
  BY <1>3 DEF Revoking, RevokeAgain, RevokeNext, RevokeResume, RevokeRefused
<1>4. CASE Writing(q)
  BY <1>4 DEF Writing, CreateRecord, FillRecord, WriteHead, Verify
<1>5. CASE Reading(q) \/ Return(q)
  BY <1>5 DEF Reading, ReadRecords, ReadHead, ReadAssessment, Return
<1> QED
  BY <1>1, <1>2, <1>3, <1>4, <1>5 DEF Step

\* Only five steps end in "done".
LEMMA DoneSteps ==
  ASSUME JudgmentInv, [Next]_vars, NEW p \in Procs, pc[p] # "done", pc'[p] = "done"
  PROVE  ApplyAgain(p) \/ RevokeAgain(p) \/ Verify(p) \/ ReadHead(p) \/ ReadAssessment(p)
<1> USE DEF JudgmentInv, TypeOK, Goto
<1>1. ASSUME NEW q \in Procs, q # p, Start(q) \/ Step(q) \/ WriteFails(q) \/ Crash(q)
      PROVE  FALSE
  BY <1>1, OnlyOwnSteps
<1>2. ~Start(p) /\ ~WriteFails(p) /\ ~Crash(p) /\ ~Acquire(p) /\ ~GiveUp(p)
  BY DEF Start, WriteFails, Crash, Acquire, GiveUp, Exits, Forgets
<1>3. Applying(p) => ApplyAgain(p)
  BY DEF Applying, ApplyNext, ApplyResume, ApplyRefused, CreateAssessment, FillAssessment,
     AssessmentExists, RecordNext, Exits, Forgets
<1>4. Revoking(p) => RevokeAgain(p)
  BY DEF Revoking, RevokeNext, RevokeResume, RevokeRefused, Exits, Forgets
<1>5. Writing(p) => Verify(p)
  BY DEF Writing, CreateRecord, FillRecord, WriteHead
<1>6. Reading(p) => ReadHead(p) \/ ReadAssessment(p)
  BY DEF Reading, ReadRecords, Exits, Forgets
<1>7. ~Return(p) /\ ~RemoveStaleLock /\ ~UNCHANGED vars
  BY DEF Return, RemoveStaleLock, vars, Exits, Forgets
<1> QED
  BY <1>1, <1>2, <1>3, <1>4, <1>5, <1>6, <1>7 DEF Next, Step

\* A command that reports success has its decision in force.
THEOREM Success == Spec => SuccessMeansInForce
<1>1. ASSUME JudgmentInv, [Next]_vars, NEW p \in Procs,
             pc[p] \in {"decide", "verify"}, pc'[p] = "done"
      PROVE  head = request[p]
  <2>1. ApplyAgain(p) \/ RevokeAgain(p) \/ Verify(p)
    BY <1>1, DoneSteps DEF ReadHead, ReadAssessment
  <2>2. Verify(p) => head = request[p]
    BY <1>1 DEF Verify, JudgmentInv, ControlFlow, InTransaction, LockedOps, Progress
  <2> QED
    BY <2>1, <2>2 DEF ApplyAgain, RevokeAgain
<1>2. JudgmentInv /\ [Next]_vars =>
        [\A p \in Procs :
           pc[p] \in {"decide", "verify"} /\ pc'[p] = "done" => head = request[p]]_vars
  BY <1>1
<1> QED
  BY <1>2, JudgmentInvariant, PTL DEF Spec, SuccessMeansInForce

\* The status of a run without records is never reported over a record that a
\* concurrent command is writing: the artifact, read last, is written first.
THEOREM NotAssessed == Spec => NotAssessedIsTrue
<1>1. ASSUME JudgmentInv, [Next]_vars, NEW p \in Procs, op[p] = "status",
             pc[p] # "done", pc'[p] = "done", seen'[p] = {}
      PROVE  records \cup torn = {}
  <2>1. ReadAssessment(p)
    <3>1. ApplyAgain(p) \/ RevokeAgain(p) \/ Verify(p) \/ ReadHead(p) \/ ReadAssessment(p)
      BY <1>1, DoneSteps
    <3>2. ~ApplyAgain(p) /\ ~RevokeAgain(p)
      BY <1>1 DEF ApplyAgain, RevokeAgain
    <3>3. ~Verify(p)
      BY <1>1 DEF Verify, JudgmentInv, ControlFlow, LockedOps
    <3>4. ~ReadHead(p)
      BY <1>1 DEF ReadHead, JudgmentInv, TypeOK, Goto, Exits, Forgets
    <3> QED
      BY <3>1, <3>2, <3>3, <3>4
  <2>2. seen[p] = {} /\ stored = Nothing
    BY <1>1, <2>1 DEF ReadAssessment, JudgmentInv, TypeOK, locals, Goto, Exits, Forgets
  <2> QED
    BY <1>1, <2>2, HistoryEmpty, DistinctAssumption
<1>2. JudgmentInv /\ [Next]_vars =>
        [\A p \in Procs :
           op[p] = "status" /\ pc[p] # "done" /\ pc'[p] = "done" /\ seen'[p] = {}
           => records \cup torn = {}]_vars
  BY <1>1
<1> QED
  BY <1>2, JudgmentInvariant, PTL DEF Spec, NotAssessedIsTrue

-----------------------------------------------------------------------------
(* The register.                                                           *)

\* The head is the last decision.
LEMMA HeadIsLast ==
  ASSUME JudgmentInv
  PROVE  IF head = Nothing THEN decided = {} ELSE head \in Register!LastOf(decided)
<1> USE DEF JudgmentInv, TypeOK, History
<1>1. CASE head = Nothing
  BY <1>1 DEF decided
<1>2. CASE head # Nothing
  BY <1>2, RecordType DEF decided, Register!LastOf
<1> QED
  BY <1>1, <1>2

\* The head decides what follows the last decision.
LEMMA WriteHeadRefines ==
  ASSUME JudgmentInv, NEW p \in Procs, WriteHead(p)
  PROVE  Register!RegisterNext
<1>1. decided' = decided \cup {request[p]} /\ request[p] \in Record /\ Follows(request[p])
      /\ request[p] \in records
  BY WriteHeadDecides
<1>2. CASE decided = {}
  <2>1. head = Nothing
    BY <1>2, HeadIsLast DEF Register!LastOf
  <2> QED
    BY <1>1, <1>2, <2>1 DEF Follows, Register!RegisterNext, Register!Decide, WriteHead, locals
<1>3. CASE decided # {}
  <2>1. head # Nothing /\ head \in Register!LastOf(decided)
    BY <1>3, HeadIsLast
  <2>2. request[p].assessment = head.assessment
    BY <1>1, <2>1 DEF JudgmentInv, History
  <2> QED
    BY <1>1, <1>3, <2>1, <2>2 DEF Follows, Register!RegisterNext, Register!Decide, WriteHead, locals
<1> QED
  BY <1>2, <1>3

\* Every step of the files is a step of the register or a stutter.
LEMMA StepRefines ==
  ASSUME JudgmentInv, [Next]_vars
  PROVE  [Register!RegisterNext]_(Register!registerVars)
<1> USE DEF Register!registerVars
<1>1. ASSUME UNCHANGED <<records, head, observed>> PROVE UNCHANGED Register!registerVars
  BY <1>1 DEF decided
<1>2. ASSUME NEW p \in Procs, Forgets(p), UNCHANGED <<records, head>>
      PROVE  Register!RegisterNext
  <2>1. decided' = decided
    BY <1>2 DEF decided
  <2> QED
    BY <1>2, <2>1 DEF Forgets, Register!RegisterNext, Register!Forget
<1>3. CASE UNCHANGED vars \/ RemoveStaleLock
  BY <1>1, <1>3 DEF vars, files, locals, RemoveStaleLock
<1>4. ASSUME NEW p \in Procs, Start(p) \/ WriteFails(p) \/ Crash(p) \/ Acquire(p) \/ GiveUp(p)
      PROVE  [Register!RegisterNext]_(Register!registerVars)
  BY <1>1, <1>2, <1>4 DEF Start, WriteFails, Crash, Acquire, GiveUp, Exits, files, locals
<1>5. ASSUME NEW p \in Procs, Applying(p)
      PROVE  [Register!RegisterNext]_(Register!registerVars)
  BY <1>1, <1>2, <1>5 DEF Applying, ApplyAgain, ApplyNext, ApplyResume, ApplyRefused,
     CreateAssessment, FillAssessment, AssessmentExists, Exits, files, locals
<1>6. ASSUME NEW p \in Procs, Revoking(p)
      PROVE  [Register!RegisterNext]_(Register!registerVars)
  BY <1>1, <1>2, <1>6 DEF Revoking, RevokeAgain, RevokeNext, RevokeResume, RevokeRefused, Exits,
     files, locals
<1>7. ASSUME NEW p \in Procs, Writing(p)
      PROVE  [Register!RegisterNext]_(Register!registerVars)
  <2>1. ASSUME FillRecord(p) PROVE UNCHANGED Register!registerVars
    <3>1. Progress(p) /\ request[p] \in Record
      BY <2>1, RequestType DEF FillRecord, JudgmentInv, ControlFlow, InTransaction, LockedOps,
         StoringLabels, RecordingLabels
    <3>2. Follows(request[p])
      BY <2>1, <3>1 DEF FillRecord, Progress, RecordingLabels
    <3>3. decided' = decided
      BY <2>1, <3>1, <3>2, RecordType DEF FillRecord, decided, Follows, JudgmentInv, TypeOK
    <3> QED
      BY <2>1, <3>3 DEF FillRecord, locals
  <2>2. ASSUME CreateRecord(p) \/ Verify(p)
        PROVE  [Register!RegisterNext]_(Register!registerVars)
    BY <1>1, <1>2, <2>2 DEF CreateRecord, Verify, Exits, files, locals
  <2> QED
    BY <1>7, <2>1, <2>2, WriteHeadRefines DEF Writing
<1>8. ASSUME NEW p \in Procs, Reading(p) \/ Return(p)
      PROVE  [Register!RegisterNext]_(Register!registerVars)
  <2>1. ASSUME ReadHead(p), Complete(seen[p], head)
        PROVE  Register!RegisterNext
    <3>1. decided' = decided /\ observed' = [observed EXCEPT ![p] = head]
      BY <2>1 DEF ReadHead, decided, files
    <3>2. Register!Observe(p)
      BY <3>1, HeadIsLast DEF Register!Observe
    <3> QED
      BY <3>2 DEF Register!RegisterNext
  <2>2. ASSUME ReadHead(p), ~Complete(seen[p], head)
        PROVE  Register!RegisterNext
    BY <1>2, <2>2 DEF ReadHead, Exits, files
  <2>3. ASSUME ReadRecords(p) \/ ReadAssessment(p) \/ Return(p)
        PROVE  [Register!RegisterNext]_(Register!registerVars)
    BY <1>1, <1>2, <2>3 DEF ReadRecords, ReadAssessment, Return, Exits, files, locals
  <2> QED
    BY <1>8, <2>1, <2>2, <2>3 DEF Reading
<1> QED
  BY <1>3, <1>4, <1>5, <1>6, <1>7, <1>8 DEF Next, Step

\* The files, lock, retries and lock-free readers are one decision register.
THEOREM Refinement == Spec => ImplementsRegister
<1>1. Init => Register!RegisterInit
  BY DEF Init, Register!RegisterInit, decided
<1> QED
  BY <1>1, StepRefines, JudgmentInvariant, PTL
     DEF Spec, ImplementsRegister, Register!RegisterSpec

-----------------------------------------------------------------------------
(* The transaction lock.                                                   *)

\* A command that ends gives back what it owns.
LEMMA ExitsOwned ==
  ASSUME NEW p \in Procs, Exits(p)
  PROVE  UNCHANGED lock \/ Lock!GiveBack(p)
  BY DEF Exits, Lock!GiveBack

LEMMA LockIsOwned ==
  ASSUME [Next]_vars
  PROVE  [(\E p \in Procs : Lock!Take(p) \/ Lock!GiveBack(p) \/ Lock!Abandon(p)) \/ Lock!Clear]_lock
<1>1. ASSUME NEW p \in Procs, Start(p) \/ WriteFails(p) \/ Crash(p) \/ Acquire(p) \/ GiveUp(p)
      PROVE  UNCHANGED lock \/ Lock!Take(p) \/ Lock!GiveBack(p) \/ Lock!Abandon(p)
  BY <1>1, ExitsOwned DEF Start, WriteFails, Crash, Acquire, GiveUp, Lock!Take, Lock!Abandon
<1>2. ASSUME NEW p \in Procs, Applying(p) \/ Revoking(p)
      PROVE  UNCHANGED lock \/ Lock!GiveBack(p)
  BY <1>2, ExitsOwned
  DEF Applying, ApplyAgain, ApplyNext, ApplyResume, ApplyRefused, CreateAssessment,
      FillAssessment, AssessmentExists, Revoking, RevokeAgain, RevokeNext, RevokeResume,
      RevokeRefused
<1>3. ASSUME NEW p \in Procs, Writing(p) \/ Reading(p) \/ Return(p)
      PROVE  UNCHANGED lock \/ Lock!GiveBack(p)
  BY <1>3, ExitsOwned
  DEF Writing, CreateRecord, FillRecord, WriteHead, Verify, Reading, ReadRecords, ReadHead,
      ReadAssessment, Return
<1>4. CASE RemoveStaleLock \/ UNCHANGED vars
  BY <1>4 DEF RemoveStaleLock, Lock!Clear, vars
<1> QED
  BY <1>1, <1>2, <1>3, <1>4 DEF Next, Step

\* Only a command inside the transaction writes.
LEMMA WriterOwns ==
  ASSUME JudgmentInv, NEW p \in Procs, Start(p) \/ Step(p) \/ WriteFails(p) \/ Crash(p),
         files' # files
  PROVE  lock = p
<1>1. pc[p] \in StoringLabels \cup RecordingLabels
  <2>1. CASE Start(p) \/ WriteFails(p) \/ Crash(p) \/ Acquire(p) \/ GiveUp(p)
    BY <2>1 DEF Start, WriteFails, Crash, Acquire, GiveUp, files, StoringLabels, RecordingLabels
  <2>2. CASE Applying(p) \/ Revoking(p)
    BY <2>2
    DEF Applying, ApplyAgain, ApplyNext, ApplyResume, ApplyRefused, CreateAssessment,
        FillAssessment, AssessmentExists, Revoking, RevokeAgain, RevokeNext, RevokeResume,
        RevokeRefused, StoringLabels
  <2>3. CASE Writing(p) \/ Reading(p) \/ Return(p)
    BY <2>3
    DEF Writing, CreateRecord, FillRecord, WriteHead, Verify, Reading, ReadRecords, ReadHead,
        ReadAssessment, Return, RecordingLabels
  <2> QED
    BY <2>1, <2>2, <2>3 DEF Step
<1>2. InTransaction(p)
  BY <1>1 DEF JudgmentInv, ControlFlow, InTransaction, StoringLabels, RecordingLabels, LockedOps
<1> QED
  BY <1>2 DEF JudgmentInv, LockOwner

LEMMA OwnerWrites ==
  ASSUME JudgmentInv, [Next]_vars, files' # files
  PROVE  \E p \in Procs : lock = p /\ \A q \in Procs \ {p} : pc'[q] = pc[q]
<1>1. PICK p \in Procs : Start(p) \/ Step(p) \/ WriteFails(p) \/ Crash(p)
  BY DEF Next, RemoveStaleLock, vars
<1> QED
  BY <1>1, WriterOwns, OnlyOwnSteps

\* Apply and revoke run as transactions (judgment_decisions.py under transaction_lock):
\* the lock has one owner, a failure leaves it stale, and while a command owns it no
\* other one changes the history, so that a load under the lock is one step.
THEOREM Transactions == Spec => Transactional
<1>1. Init => lock = Free
  BY DEF Init
<1>2. [Next]_vars => [(\E p \in Procs : Lock!Take(p) \/ Lock!GiveBack(p) \/ Lock!Abandon(p)) \/ Lock!Clear]_lock
  BY LockIsOwned
<1>3. JudgmentInv /\ [Next]_vars =>
        [files' # files => \E p \in Procs : lock = p /\ \A q \in Procs \ {p} : pc'[q] = pc[q]]_vars
  BY OwnerWrites
<1> QED
  BY <1>1, <1>2, <1>3, JudgmentInvariant, PTL DEF Spec, Transactional, OwnersWrite, Lock!LockSpec
=============================================================================
