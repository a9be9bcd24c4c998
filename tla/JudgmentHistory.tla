-------------------------- MODULE JudgmentHistory --------------------------
(***************************************************************************)
(* The judgment decisions of one run (guardian_core/judgment_decisions.py):*)
(* the create-once sealed assessment, the append-only decision records and *)
(* the head that names the last one, one step per file operation and two   *)
(* per exclusive write.                                                    *)
(*                                                                         *)
(* Operations: "apply" (apply_judgment_decision), "revoke"                 *)
(* (revoke_judgment_decision), and without the lock "status"               *)
(* (read_judgment_status) and "preview" (preview_judgment_decision).       *)
(* Under the lock a read of the history is one step.                       *)
(*                                                                         *)
(* A record is known by the permission it was written for.  A permission   *)
(* names the record before it; nothing that a permission could name is     *)
(* ever removed, so its sequence stands for that name.  The run's own      *)
(* artifacts do not change: an assessment is one that can be rebuilt from  *)
(* them and is eligible for a decision.                                    *)
(***************************************************************************)
EXTENDS Integers

CONSTANTS Procs,        \* command processes
          Seqs,         \* sequences of records
          Assessments,  \* eligible assessments, one per candidate of the run
          Choices,      \* selected findings and reason of an approval
          Ops,          \* the operations commands are started with
          MaxFaults,    \* bound on crashes and failed writes
          Nothing,      \* no head, no assessment, no decision
          Torn,         \* an assessment file that is not complete
          Free,         \* no lock file
          Stale         \* a lock file whose owner died

LockedOps == {"apply", "revoke"}

ASSUME SeqsAssumption == Seqs \subseteq Nat \ {0}
ASSUME OpsAssumption == Ops \subseteq {"apply", "revoke", "status", "preview"}
ASSUME FaultsAssumption == MaxFaults \in Nat

Approval == [seq : Seqs, action : {"approve"}, assessment : Assessments, choice : Choices]

Revocation == [seq : Seqs, action : {"revoke"}, assessment : Assessments]

Record == Approval \cup Revocation

ASSUME DistinctAssumption ==
  /\ Nothing \notin Record
  /\ Nothing \notin Assessments /\ Torn \notin Assessments /\ Torn # Nothing
  /\ Free \notin Procs /\ Stale \notin Procs /\ Free # Stale

VARIABLES
  lock,      \* transaction.lock of the profile: Free, Stale or its owner
  stored,    \* the sealed judgment-assessment artifact of the run
  records,   \* sealed decision records
  torn,      \* record files created but not complete
  head,      \* the record that the head names, or Nothing
  pc,        \* the next step of each command
  op,        \* its operation
  request,   \* the granted permission it was given
  seen,      \* the records that a reader without the lock has read
  observed,  \* the decision that reader was told is in force
  faults     \* crashes and failed writes so far

files == <<stored, records, torn, head>>
locals == <<op, request, seen, observed>>
vars == <<lock, files, pc, locals, faults>>

Init ==
  /\ lock = Free
  /\ stored = Nothing
  /\ records = {} /\ torn = {}
  /\ head = Nothing
  /\ pc = [p \in Procs |-> "idle"]
  /\ op = [p \in Procs |-> "none"]
  /\ request = [p \in Procs |-> Nothing]
  /\ seen = [p \in Procs |-> {}]
  /\ observed = [p \in Procs |-> Nothing]
  /\ faults = 0

Goto(p, label) == pc' = [pc EXCEPT ![p] = label]

\* The command is over: its local state is gone.
Forgets(p) ==
  /\ Goto(p, "idle")
  /\ op' = [op EXCEPT ![p] = "none"]
  /\ request' = [request EXCEPT ![p] = Nothing]
  /\ seen' = [seen EXCEPT ![p] = {}]
  /\ observed' = [observed EXCEPT ![p] = Nothing]

\* Leaving the `with` block, on return or on an error, removes an owned lock.
Exits(p) ==
  /\ Forgets(p)
  /\ lock' = IF lock = p THEN Free ELSE lock

-----------------------------------------------------------------------------
(* _read_history.                                                          *)

LastOf(S) == {r \in S : \A s \in S : s.seq <= r.seq}

\* No gap, no fork, the first record is an approval and a revocation follows
\* an approval.
Chain(S) ==
  /\ \A r, s \in S : r.seq = s.seq => r = s
  /\ \A r \in S : IF r.seq = 1
                    THEN r.action = "approve"
                    ELSE \E s \in S : /\ s.seq = r.seq - 1
                                      /\ r.action = "revoke" => s.action = "approve"

\* The head h covers the records S.
Complete(S, h) == Chain(S) /\ (IF h = Nothing THEN S = {} ELSE h \in LastOf(S))

\* allow_partial: the last record r of S is there, but the head not yet.
Interrupted(S, h, r) ==
  /\ Chain(S) /\ r \in LastOf(S)
  /\ IF h = Nothing
       THEN S = {r} /\ r.action = "approve"
       ELSE /\ h \in S /\ h.seq = r.seq - 1
            /\ r.action # h.action
            /\ \A s \in S : s.assessment = h.assessment

Active(h) == h # Nothing /\ h.action = "approve"

Whole == torn = {} /\ Complete(records, head)

Partial(r) == torn = {} /\ Interrupted(records, head, r)

\* The sealed assessment is whole and every record of S is about it.
Evidenced(S) == stored \in Assessments /\ \A r \in S : r.assessment = stored

IsNext(r) ==
  IF records = {} THEN r.seq = 1 ELSE \E s \in LastOf(records) : r.seq = s.seq + 1

-----------------------------------------------------------------------------
(* Starting a command and taking the profile transaction lock.             *)

\* A bundle can hold any permission: a rival one, or one that was used before.
Start(p) ==
  /\ pc[p] = "idle"
  /\ \E o \in Ops :
       /\ op' = [op EXCEPT ![p] = o]
       /\ \/ /\ o = "apply"
             /\ \E r \in Approval : request' = [request EXCEPT ![p] = r]
             /\ Goto(p, "lock")
          \/ /\ o = "revoke"
             /\ \E r \in Revocation : request' = [request EXCEPT ![p] = r]
             /\ Goto(p, "lock")
          \/ /\ o \in {"status", "preview"}
             /\ UNCHANGED request
             /\ Goto(p, "records")
  /\ UNCHANGED <<lock, files, seen, observed, faults>>

\* Fault variant: the lock file is opened without O_EXCL.
Mut_AcquireShared(p) ==
  /\ pc[p] = "lock"
  /\ lock' = p
  /\ Goto(p, "decide")
  /\ UNCHANGED <<files, locals, faults>>

Acquire(p) ==
  /\ pc[p] = "lock"
  /\ lock = Free
  /\ lock' = p
  /\ Goto(p, "decide")
  /\ UNCHANGED <<files, locals, faults>>

\* The five-second deadline passed: TimeoutError, the lock is left alone.
GiveUp(p) ==
  /\ pc[p] = "lock"
  /\ lock # Free
  /\ Exits(p)
  /\ UNCHANGED <<files, faults>>

-----------------------------------------------------------------------------
(* apply_judgment_decision under the lock.                                 *)

\* Fault variant: any decision in force is taken for the requested one.
Mut_ApplyAgainUnchecked(p) ==
  /\ pc[p] = "decide" /\ op[p] = "apply"
  /\ Whole /\ Active(head)
  /\ Goto(p, "done")
  /\ UNCHANGED <<lock, files, locals, faults>>

\* An exact retry of the decision in force.
ApplyAgain(p) ==
  /\ pc[p] = "decide" /\ op[p] = "apply"
  /\ Whole /\ Active(head) /\ head = request[p]
  /\ Goto(p, "done")
  /\ UNCHANGED <<lock, files, locals, faults>>

ApplyNext(p) ==
  /\ pc[p] = "decide" /\ op[p] = "apply"
  /\ Whole /\ ~Active(head)
  /\ IsNext(request[p])
  /\ Goto(p, "store")
  /\ UNCHANGED <<lock, files, locals, faults>>

\* An interrupted approval is resumed by the exact permission only.
ApplyResume(p) ==
  /\ pc[p] = "decide" /\ op[p] = "apply"
  /\ Partial(request[p])
  /\ Goto(p, "store")
  /\ UNCHANGED <<lock, files, locals, faults>>

ApplyRefused(p) ==
  /\ pc[p] = "decide" /\ op[p] = "apply"
  /\ ~Partial(request[p])
  /\ Whole => IF Active(head) THEN head # request[p] ELSE ~IsNext(request[p])
  /\ Exits(p)
  /\ UNCHANGED <<files, faults>>

\* The retained record is used, or a new one is written.
RecordNext(p) == Goto(p, IF request[p] \in records THEN "writeHead" ELSE "createRecord")

CreateAssessment(p) ==
  /\ pc[p] = "store"
  /\ stored = Nothing
  /\ stored' = Torn
  /\ Goto(p, "fillAssessment")
  /\ UNCHANGED <<lock, records, torn, head, locals, faults>>

FillAssessment(p) ==
  /\ pc[p] = "fillAssessment"
  /\ stored' = request[p].assessment
  /\ RecordNext(p)
  /\ UNCHANGED <<lock, records, torn, head, locals, faults>>

\* Fault variant: an existing artifact is not compared.
Mut_AssessmentExistsUnchecked(p) ==
  /\ pc[p] = "store"
  /\ stored # Nothing
  /\ RecordNext(p)
  /\ UNCHANGED <<lock, files, locals, faults>>

\* write_run_artifact keeps an identical artifact and rejects another one.
AssessmentExists(p) ==
  /\ pc[p] = "store"
  /\ stored # Nothing
  /\ IF stored = request[p].assessment
       THEN RecordNext(p) /\ UNCHANGED <<lock, locals>>
       ELSE Exits(p)
  /\ UNCHANGED <<files, faults>>

-----------------------------------------------------------------------------
(* revoke_judgment_decision under the lock.                                *)

RevokeAgain(p) ==
  /\ pc[p] = "decide" /\ op[p] = "revoke"
  /\ Whole /\ head = request[p]
  /\ Evidenced(records)
  /\ Goto(p, "done")
  /\ UNCHANGED <<lock, files, locals, faults>>

\* The permission is the one that the status of the run reports.
RevokeNext(p) ==
  /\ pc[p] = "decide" /\ op[p] = "revoke"
  /\ Whole /\ Active(head)
  /\ Evidenced(records) /\ request[p].assessment = stored
  /\ IsNext(request[p])
  /\ Goto(p, "createRecord")
  /\ UNCHANGED <<lock, files, locals, faults>>

RevokeResume(p) ==
  /\ pc[p] = "decide" /\ op[p] = "revoke"
  /\ Partial(request[p])
  /\ Evidenced(records)
  /\ Goto(p, "writeHead")
  /\ UNCHANGED <<lock, files, locals, faults>>

RevokeRefused(p) ==
  /\ pc[p] = "decide" /\ op[p] = "revoke"
  /\ Evidenced(records) =>
       /\ ~Partial(request[p])
       /\ Whole => IF Active(head) THEN \/ request[p].assessment # stored
                                        \/ ~IsNext(request[p])
                                   ELSE head # request[p]
  /\ Exits(p)
  /\ UNCHANGED <<files, faults>>

-----------------------------------------------------------------------------
(* The writes of both: record, head; then a verifying read.                *)

\* Fault variant: the head is written before the record.
Mut_CreateRecordAfterHead(p) ==
  /\ pc[p] = "createRecord"
  /\ torn' = torn \cup {request[p]}
  /\ head' = request[p]
  /\ Goto(p, "fillRecord")
  /\ UNCHANGED <<lock, stored, records, locals, faults>>

CreateRecord(p) ==
  /\ pc[p] = "createRecord"
  /\ torn' = torn \cup {request[p]}
  /\ Goto(p, "fillRecord")
  /\ UNCHANGED <<lock, stored, records, head, locals, faults>>

FillRecord(p) ==
  /\ pc[p] = "fillRecord"
  /\ torn' = torn \ {request[p]}
  /\ records' = records \cup {request[p]}
  /\ Goto(p, "writeHead")
  /\ UNCHANGED <<lock, stored, head, locals, faults>>

WriteHead(p) ==
  /\ pc[p] = "writeHead"
  /\ head' = request[p]
  /\ Goto(p, "verify")
  /\ UNCHANGED <<lock, stored, records, torn, locals, faults>>

Verify(p) ==
  /\ pc[p] = "verify"
  /\ IF Whole /\ request[p] \in LastOf(records)
       THEN Goto(p, "done") /\ UNCHANGED <<lock, locals>>
       ELSE Exits(p)
  /\ UNCHANGED <<files, faults>>

-----------------------------------------------------------------------------
(* read_judgment_status and preview_judgment_decision: no lock.            *)

ReadRecords(p) ==
  /\ pc[p] = "records"
  /\ IF torn = {} /\ Chain(records)
       THEN /\ seen' = [seen EXCEPT ![p] = records]
            /\ Goto(p, "head")
            /\ UNCHANGED <<lock, op, request, observed>>
       ELSE Exits(p)
  /\ UNCHANGED <<files, faults>>

\* Fault variant: a history without records is reported at once.
Mut_ReadHeadOnly(p) ==
  /\ pc[p] = "head"
  /\ IF Complete(seen[p], head)
       THEN /\ observed' = [observed EXCEPT ![p] = head]
            /\ Goto(p, IF seen[p] = {} THEN "done" ELSE "assessment")
            /\ UNCHANGED <<lock, op, request, seen>>
       ELSE Exits(p)
  /\ UNCHANGED <<files, faults>>

\* Fault variant: the last record is taken for the decision in force.
Mut_ReadHeadIgnored(p) ==
  /\ pc[p] = "head"
  /\ IF Chain(seen[p]) /\ seen[p] # {}
       THEN /\ \E r \in LastOf(seen[p]) : observed' = [observed EXCEPT ![p] = r]
            /\ Goto(p, "assessment")
            /\ UNCHANGED <<lock, op, request, seen>>
       ELSE Exits(p)
  /\ UNCHANGED <<files, faults>>

ReadHead(p) ==
  /\ pc[p] = "head"
  /\ IF Complete(seen[p], head)
       THEN /\ observed' = [observed EXCEPT ![p] = head]
            /\ Goto(p, IF op[p] = "status" THEN "assessment" ELSE "done")
            /\ UNCHANGED <<lock, op, request, seen>>
       ELSE Exits(p)
  /\ UNCHANGED <<files, faults>>

\* Only the status reads the artifact, and it reads it last.
ReadAssessment(p) ==
  /\ pc[p] = "assessment"
  /\ IF IF seen[p] = {} THEN stored = Nothing ELSE Evidenced(seen[p])
       THEN Goto(p, "done") /\ UNCHANGED <<lock, locals>>
       ELSE Exits(p)
  /\ UNCHANGED <<files, faults>>

\* The command returns; the lock file is removed by its owner.
Return(p) ==
  /\ pc[p] = "done"
  /\ Exits(p)
  /\ UNCHANGED <<files, faults>>

-----------------------------------------------------------------------------
(* Faults.                                                                 *)

\* A write raises: exclusive_write_json unlinks the file it created.
WriteFails(p) ==
  /\ faults < MaxFaults
  /\ pc[p] \in {"store", "fillAssessment", "createRecord", "fillRecord", "writeHead"}
  /\ stored' = IF pc[p] = "fillAssessment" THEN Nothing ELSE stored
  /\ torn' = IF pc[p] = "fillRecord" THEN torn \ {request[p]} ELSE torn
  /\ Exits(p)
  /\ faults' = faults + 1
  /\ UNCHANGED <<records, head>>

\* A command dies: files stay as they are, an owned lock becomes stale.
Crash(p) ==
  /\ faults < MaxFaults
  /\ pc[p] # "idle"
  /\ Forgets(p)
  /\ lock' = IF lock = p THEN Stale ELSE lock
  /\ faults' = faults + 1
  /\ UNCHANGED files

\* The operator removes a lock after making sure that its owner is gone.
RemoveStaleLock ==
  /\ lock = Stale
  /\ lock' = Free
  /\ UNCHANGED <<files, pc, locals, faults>>

-----------------------------------------------------------------------------

Applying(p) ==
  \/ ApplyAgain(p) \/ ApplyNext(p) \/ ApplyResume(p) \/ ApplyRefused(p)
  \/ CreateAssessment(p) \/ FillAssessment(p) \/ AssessmentExists(p)

Revoking(p) ==
  \/ RevokeAgain(p) \/ RevokeNext(p) \/ RevokeResume(p) \/ RevokeRefused(p)

Writing(p) == CreateRecord(p) \/ FillRecord(p) \/ WriteHead(p) \/ Verify(p)

Reading(p) == ReadRecords(p) \/ ReadHead(p) \/ ReadAssessment(p)

\* What a started command does by itself.
Step(p) ==
  \/ Acquire(p) \/ GiveUp(p) \/ Applying(p) \/ Revoking(p) \/ Writing(p)
  \/ Reading(p) \/ Return(p)

Next ==
  \/ \E p \in Procs : Start(p) \/ Step(p) \/ WriteFails(p) \/ Crash(p)
  \/ RemoveStaleLock

Spec == Init /\ [][Next]_vars

-----------------------------------------------------------------------------
(* The inductive invariant.                                                *)

Labels == {"idle", "lock", "decide", "store", "fillAssessment", "createRecord",
           "fillRecord", "writeHead", "verify", "records", "head", "assessment", "done"}

TypeOK ==
  /\ lock \in Procs \cup {Free, Stale}
  /\ stored \in Assessments \cup {Nothing, Torn}
  /\ records \subseteq Record /\ torn \subseteq Record
  /\ head \in Record \cup {Nothing}
  /\ pc \in [Procs -> Labels]
  /\ op \in [Procs -> {"apply", "revoke", "status", "preview", "none"}]
  /\ request \in [Procs -> Record \cup {Nothing}]
  /\ seen \in [Procs -> SUBSET Record]
  /\ observed \in [Procs -> Record \cup {Nothing}]
  /\ faults \in 0 .. MaxFaults

InTransaction(p) == op[p] \in LockedOps /\ pc[p] \notin {"idle", "lock"}

StoringLabels == {"store", "fillAssessment"}

RecordingLabels == {"createRecord", "fillRecord", "writeHead"}

\* Which operation can be where in its program.
ControlFlow ==
  \A p \in Procs :
    /\ pc[p] = "idle" <=> op[p] = "none"
    /\ pc[p] \in StoringLabels => op[p] = "apply"
    /\ pc[p] \in {"lock", "decide", "verify"} \cup RecordingLabels => op[p] \in LockedOps
    /\ pc[p] \in {"records", "head"} => op[p] \in {"status", "preview"}
    /\ pc[p] = "assessment" => op[p] = "status"
    /\ op[p] = "apply" => request[p] \in Approval
    /\ op[p] = "revoke" => request[p] \in Revocation
    /\ op[p] \in LockedOps \/ pc[p] \in {"idle", "records"} =>
         seen[p] = {} /\ observed[p] = Nothing

\* The lock file belongs to the one command inside the transaction.
LockOwner == \A p \in Procs : InTransaction(p) <=> lock = p

\* The decisions that the head covers.
decided == {r \in records : head # Nothing /\ r.seq <= head.seq}

Last == IF head = Nothing THEN {} ELSE {head}

\* r may follow what is decided.
Follows(r) ==
  IF head = Nothing
    THEN r.seq = 1 /\ r.action = "approve"
    ELSE r.seq = head.seq + 1 /\ r.action # head.action

\* Approvals and revocations alternate over one assessment, which is sealed;
\* at most one record is not covered by the head yet.
History ==
  /\ head \in records \cup {Nothing}
  /\ Chain(decided)
  /\ \A r \in records \cup torn :
       /\ stored = r.assessment
       /\ r \in decided \/ Follows(r)
  /\ \A r, s \in (records \cup torn) \ decided : r = s
  /\ records \cap torn = {}
  /\ \A p \in Procs : seen[p] \subseteq records

\* What the owner of the lock has established at each of its steps.
Progress(p) ==
  /\ pc[p] \in StoringLabels \cup RecordingLabels => Follows(request[p]) /\ torn \subseteq {request[p]}
  /\ pc[p] \in StoringLabels \cup {"createRecord"} =>
       torn = {} /\ records \subseteq decided \cup {request[p]}
  /\ pc[p] = "fillAssessment" => stored = Torn
  /\ pc[p] \in RecordingLabels => stored = request[p].assessment
  /\ pc[p] \in {"createRecord", "fillRecord"} => request[p] \notin records
  /\ pc[p] = "fillRecord" => torn = {request[p]}
  /\ pc[p] = "writeHead" => torn = {} /\ request[p] \in records
  /\ pc[p] = "verify" => head = request[p]

JudgmentInv ==
  /\ TypeOK
  /\ ControlFlow
  /\ LockOwner
  /\ History
  /\ \A p \in Procs : InTransaction(p) => Progress(p)

-----------------------------------------------------------------------------
(* What the transaction lock is good for.                                  *)

Lock == INSTANCE ProfileLock WITH owner <- lock

\* The lock is owned as ProfileLock promises, and no file changes but by a step of its
\* owner (apply and revoke write under the lock, status and preview write nothing):
\* between two steps of the owner the history stands still.
OwnersWrite ==
  [][files' # files => \E p \in Procs : lock = p /\ \A q \in Procs \ {p} : pc'[q] = pc[q]]_vars
Transactional == Lock!LockSpec /\ OwnersWrite

-----------------------------------------------------------------------------
(* What the history guarantees.                                            *)

Register == INSTANCE DecisionRegister WITH Decisions <- Record

\* The files, the lock, retries and readers without the lock implement one
\* register of decisions: an approval and its revocation alternate, none is
\* taken twice, whatever permissions are presented again, and a status or a
\* preview is told the decision in force at the instant it reads the head.
ImplementsRegister == Register!RegisterSpec

\* Every record, torn or not, is about the one assessment that was sealed
\* before it (apply_judgment_decision writes the artifact first, and it can
\* never be exchanged afterwards).
EvidenceBeforeDecision == \A r \in records \cup torn : stored = r.assessment

\* A history in which no file is torn is complete, or presenting the permission
\* of its last record again completes it: the same operation accepts it.
Recoverable ==
  torn = {} /\ stored # Torn =>
    \/ Complete(records, head)
    \/ \E r \in records : Partial(r) /\ stored = r.assessment

\* A command that reports success has its own decision in force.
SuccessMeansInForce ==
  [][\A p \in Procs :
       pc[p] \in {"decide", "verify"} /\ pc'[p] = "done" => head = request[p]]_vars

\* A run reported as never assessed has no decision record then, not even an
\* unfinished one, although status reads records, head and artifact one after
\* the other without the lock.
NotAssessedIsTrue ==
  [][\A p \in Procs :
       op[p] = "status" /\ pc[p] # "done" /\ pc'[p] = "done" /\ seen'[p] = {}
       => records \cup torn = {}]_vars
=============================================================================
