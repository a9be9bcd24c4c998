--------------------------- MODULE CatalogLedger ---------------------------
(***************************************************************************)
(* The v1 catalog evidence of one profile (guardian_core/snapshot.py):     *)
(* immutable snapshot files, one sealed record per approval sequence, the  *)
(* current-snapshot pointer, and one run pin, read and written by several  *)
(* command processes.  Every file write is a step of its own; an exclusive *)
(* write is two (create the path, fill it), so that a crash can leave a    *)
(* torn file.  A seal or digest that does not verify is a torn file here.  *)
(*                                                                         *)
(* Operations: "ingest" (ingest_snapshot), "preflight"                     *)
(* (preflight_snapshot), "resume" (_load_current_personal_snapshot),       *)
(* "pinned" (load_run_pin), "list" (list_rules before activation) and      *)
(* "reload" (the load_snapshot that ends an idempotent ingestion).         *)
(***************************************************************************)
EXTENDS Integers, FiniteSets

CONSTANTS Procs,      \* command processes
          Seqs,       \* approval sequences, 1 .. _MAX_APPROVAL_SEQUENCE in the code
          Digests,    \* approval digests: what was approved at a sequence
          Stamps,     \* assessment times: they make two ingestions of one
                      \* approval two different snapshot documents
          Ops,        \* the operations commands are started with
          MaxFaults,  \* bound on crashes and failed writes
          Nothing,    \* no snapshot, or an absent pointer or pin
          Torn,       \* a created but not completely written pin
          Free,       \* no lock file
          Stale       \* a lock file whose owner died

LockedOps == {"ingest", "preflight", "resume", "reload"}

ASSUME SeqsAssumption == Seqs \subseteq Nat \ {0}
ASSUME OpsAssumption == Ops \subseteq {"ingest", "preflight", "resume", "pinned", "list"}
ASSUME FaultsAssumption == MaxFaults \in Nat

Snap == [seq : Seqs, digest : Digests, stamp : Stamps]

ASSUME DistinctAssumption ==
  /\ Nothing \notin Snap /\ Torn \notin Snap /\ Torn # Nothing
  /\ Free \notin Procs /\ Stale \notin Procs /\ Free # Stale

VARIABLES
  lock,          \* transaction.lock: Free, Stale or its owner
  dirs,          \* history directories that exist
  snapshots,     \* sealed snapshot documents
  tornSnapshots, \* snapshot paths created but not complete
  records,       \* sealed approval-sequence records (the snapshot each one names)
  tornRecords,   \* record paths created but not complete
  pointer,       \* current-snapshot.json
  pin,           \* the pin of one run
  pc,            \* the next step of each command
  op,            \* its operation
  cand,          \* the snapshot it built, or the pinned one it asks for
  seenPointer,   \* what it read from the pointer
  seenRecords,   \* what it read from the sequence records
  observed,      \* the high-water it verified
  faults         \* crashes and failed writes so far

files == <<dirs, snapshots, tornSnapshots, records, tornRecords, pointer, pin>>
locals == <<op, cand, seenPointer, seenRecords, observed>>
vars == <<lock, files, pc, locals, faults>>

-----------------------------------------------------------------------------

Init ==
  /\ lock = Free
  /\ dirs = {}
  /\ snapshots = {} /\ tornSnapshots = {}
  /\ records = {} /\ tornRecords = {}
  /\ pointer = Nothing
  /\ pin = Nothing
  /\ pc = [p \in Procs |-> "idle"]
  /\ op = [p \in Procs |-> "none"]
  /\ cand = [p \in Procs |-> Nothing]
  /\ seenPointer = [p \in Procs |-> Nothing]
  /\ seenRecords = [p \in Procs |-> {}]
  /\ observed = [p \in Procs |-> Nothing]
  /\ faults = 0

Goto(p, label) == pc' = [pc EXCEPT ![p] = label]

\* The command is over: its local state is gone.
Forgets(p) ==
  /\ Goto(p, "idle")
  /\ op' = [op EXCEPT ![p] = "none"]
  /\ cand' = [cand EXCEPT ![p] = Nothing]
  /\ seenPointer' = [seenPointer EXCEPT ![p] = Nothing]
  /\ seenRecords' = [seenRecords EXCEPT ![p] = {}]
  /\ observed' = [observed EXCEPT ![p] = Nothing]

\* Leaving the `with` block, on return or on an error, removes an owned lock.
Exits(p) ==
  /\ Forgets(p)
  /\ lock' = IF lock = p THEN Free ELSE lock

-----------------------------------------------------------------------------
(* Starting a command and taking the profile transaction lock.             *)

Start(p) ==
  /\ pc[p] = "idle"
  /\ \E o \in Ops :
       /\ op' = [op EXCEPT ![p] = o]
       /\ \/ /\ o = "ingest"
             /\ \E s \in Snap : cand' = [cand EXCEPT ![p] = s]
             /\ Goto(p, "lock")
          \/ /\ o \in {"preflight", "resume"}
             /\ UNCHANGED cand
             /\ Goto(p, "lock")
          \/ /\ o = "list"
             /\ UNCHANGED cand
             /\ Goto(p, "pointer")
          \/ /\ o = "pinned"
             /\ pin \in Snap
             /\ cand' = [cand EXCEPT ![p] = pin]
             /\ Goto(p, "pointer")
  /\ UNCHANGED <<lock, files, seenPointer, seenRecords, observed, faults>>

\* Fault variant: the lock file is opened without O_EXCL.
Mut_AcquireShared(p) ==
  /\ pc[p] = "lock"
  /\ lock' = p
  /\ Goto(p, "pointer")
  /\ UNCHANGED <<files, locals, faults>>

Acquire(p) ==
  /\ pc[p] = "lock"
  /\ lock = Free
  /\ lock' = p
  /\ Goto(p, "pointer")
  /\ UNCHANGED <<files, locals, faults>>

\* The five-second deadline passed: TimeoutError, the lock is left alone.
GiveUp(p) ==
  /\ pc[p] = "lock"
  /\ lock # Free
  /\ Exits(p)
  /\ UNCHANGED <<files, faults>>

-----------------------------------------------------------------------------
(* Verification of the retained history: the pointer, then the sequence    *)
(* records, then the snapshots are read.                                   *)

ReadPointer(p) ==
  /\ pc[p] = "pointer"
  /\ seenPointer' = [seenPointer EXCEPT ![p] = pointer]
  /\ Goto(p, "records")
  /\ UNCHANGED <<lock, files, op, cand, seenRecords, observed, faults>>

\* An existing history directory must hold evidence, and only complete evidence.
Readable(dir, whole, torn) == torn = {} /\ (dir \in dirs => whole # {})

ReadRecords(p) ==
  /\ pc[p] = "records"
  /\ IF Readable("approval-sequences", records, tornRecords)
       THEN /\ seenRecords' = [seenRecords EXCEPT ![p] = records]
            /\ Goto(p, "snapshots")
            /\ UNCHANGED <<lock, op, cand, seenPointer, observed>>
       ELSE Exits(p)
  /\ UNCHANGED <<files, faults>>

OnePerSequence(S) == \A s, t \in S : s.seq = t.seq => s = t

Contiguous(S) ==
  \A s, t \in S : \A n \in Seqs :
    s.seq < n /\ n < t.seq => \E u \in S : u.seq = n

HighWaterOf(S) == {s \in S : \A t \in S : t.seq <= s.seq}

\* Fault variant: only the sets' high-waters are compared.
Mut_HistoriesAgree(p) ==
  /\ Readable("snapshots", snapshots, tornSnapshots)
  /\ HighWaterOf(seenRecords[p]) \subseteq HighWaterOf(snapshots)

\* Both histories hold the same records, one per sequence and without a gap.
HistoriesAgree(p) ==
  /\ Readable("snapshots", snapshots, tornSnapshots)
  /\ seenRecords[p] = snapshots
  /\ OnePerSequence(snapshots)
  /\ Contiguous(snapshots)

VerifyEmpty(p) ==
  /\ pc[p] = "snapshots"
  /\ HistoriesAgree(p) /\ snapshots = {}
  /\ seenPointer[p] = Nothing
  /\ observed' = [observed EXCEPT ![p] = Nothing]
  /\ Goto(p, "decide")
  /\ UNCHANGED <<lock, files, op, cand, seenPointer, seenRecords, faults>>

VerifyCurrent(p) ==
  /\ pc[p] = "snapshots"
  /\ HistoriesAgree(p)
  /\ seenPointer[p] \in HighWaterOf(snapshots)
  /\ observed' = [observed EXCEPT ![p] = seenPointer[p]]
  /\ Goto(p, "decide")
  /\ UNCHANGED <<lock, files, op, cand, seenPointer, seenRecords, faults>>

\* Only the pointer is missing; recover_missing_current decides what follows.
VerifyMissingPointer(p) ==
  /\ pc[p] = "snapshots"
  /\ HistoriesAgree(p)
  /\ seenPointer[p] = Nothing
  /\ op[p] # "pinned"
  /\ \E h \in HighWaterOf(snapshots) : observed' = [observed EXCEPT ![p] = h]
  /\ Goto(p, "repair")
  /\ UNCHANGED <<lock, files, op, cand, seenPointer, seenRecords, faults>>

VerifyFails(p) ==
  /\ pc[p] = "snapshots"
  /\ \/ ~HistoriesAgree(p)
     \/ /\ HistoriesAgree(p)
        /\ seenPointer[p] = Nothing
        /\ op[p] = "pinned"
        /\ snapshots # {}
     \/ /\ HistoriesAgree(p)
        /\ seenPointer[p] # Nothing
        /\ seenPointer[p] \notin HighWaterOf(snapshots)
  /\ Exits(p)
  /\ UNCHANGED <<files, faults>>

Repair(p) ==
  /\ pc[p] = "repair"
  /\ pointer' = observed[p]
  /\ Goto(p, "decide")
  /\ UNCHANGED <<lock, dirs, snapshots, tornSnapshots, records, tornRecords,
                 pin, locals, faults>>

-----------------------------------------------------------------------------
(* ingest_snapshot after verification.                                     *)

IsNext(p) == observed[p] # Nothing => cand[p].seq = observed[p].seq + 1

IsCurrent(p) ==
  /\ observed[p] # Nothing
  /\ cand[p].seq = observed[p].seq
  /\ cand[p].digest = observed[p].digest

\* Fault variant: any later sequence is promoted.
Mut_IngestLater(p) ==
  /\ pc[p] = "decide" /\ op[p] = "ingest"
  /\ (IF observed[p] = Nothing THEN TRUE ELSE cand[p].seq > observed[p].seq)
  /\ Goto(p, IF \E r \in records : r.seq = cand[p].seq THEN "repoint" ELSE "createSnapshot")
  /\ UNCHANGED <<lock, files, locals, faults>>

\* A record already kept for the sequence would only move the pointer ("repoint").
IngestNext(p) ==
  /\ pc[p] = "decide" /\ op[p] = "ingest"
  /\ IsNext(p)
  /\ Goto(p, IF \E r \in records : r.seq = cand[p].seq THEN "repoint" ELSE "createSnapshot")
  /\ UNCHANGED <<lock, files, locals, faults>>

\* The same approval again: the current snapshot is loaded and returned.
IngestCurrent(p) ==
  /\ pc[p] = "decide" /\ op[p] = "ingest"
  /\ ~IsNext(p) /\ IsCurrent(p)
  /\ op' = [op EXCEPT ![p] = "reload"]
  /\ Goto(p, "pointer")
  /\ UNCHANGED <<lock, files, cand, seenPointer, seenRecords, observed, faults>>

\* A gap, a lower sequence, or the current sequence with other content.
IngestRejected(p) ==
  /\ pc[p] = "decide" /\ op[p] = "ingest"
  /\ ~IsNext(p) /\ ~IsCurrent(p)
  /\ Exits(p)
  /\ UNCHANGED <<files, faults>>

\* An existing path would send _store_snapshot_once to its comparison ("collide").
CreateSnapshot(p) ==
  /\ pc[p] = "createSnapshot"
  /\ IF cand[p] \in snapshots \cup tornSnapshots
       THEN Goto(p, "collide") /\ UNCHANGED <<dirs, tornSnapshots>>
       ELSE /\ dirs' = dirs \cup {"snapshots"}
            /\ tornSnapshots' = tornSnapshots \cup {cand[p]}
            /\ Goto(p, "fillSnapshot")
  /\ UNCHANGED <<lock, snapshots, records, tornRecords, pointer, pin, locals, faults>>

FillSnapshot(p) ==
  /\ pc[p] = "fillSnapshot"
  /\ tornSnapshots' = tornSnapshots \ {cand[p]}
  /\ snapshots' = snapshots \cup {cand[p]}
  /\ Goto(p, "createRecord")
  /\ UNCHANGED <<lock, dirs, records, tornRecords, pointer, pin, locals, faults>>

\* The record path is named by the sequence alone.
CreateRecord(p) ==
  /\ pc[p] = "createRecord"
  /\ IF \E r \in records \cup tornRecords : r.seq = cand[p].seq
       THEN Goto(p, "collide") /\ UNCHANGED <<dirs, tornRecords>>
       ELSE /\ dirs' = dirs \cup {"approval-sequences"}
            /\ tornRecords' = tornRecords \cup {cand[p]}
            /\ Goto(p, "fillRecord")
  /\ UNCHANGED <<lock, snapshots, tornSnapshots, records, pointer, pin, locals, faults>>

FillRecord(p) ==
  /\ pc[p] = "fillRecord"
  /\ tornRecords' = tornRecords \ {cand[p]}
  /\ records' = records \cup {cand[p]}
  /\ Goto(p, "writePointer")
  /\ UNCHANGED <<lock, dirs, snapshots, tornSnapshots, pointer, pin, locals, faults>>

WritePointer(p) ==
  /\ pc[p] = "writePointer"
  /\ pointer' = cand[p]
  /\ Goto(p, "done")
  /\ UNCHANGED <<lock, dirs, snapshots, tornSnapshots, records, tornRecords,
                 pin, locals, faults>>

-----------------------------------------------------------------------------
(* The loading commands after verification.                                *)

LoadSucceeds(p) ==
  /\ pc[p] = "decide" /\ op[p] \in {"list", "resume", "reload"}
  /\ observed[p] # Nothing
  /\ Goto(p, "done")
  /\ UNCHANGED <<lock, files, locals, faults>>

\* load_run_pin loads the pinned document, not the current one.
LoadPinned(p) ==
  /\ pc[p] = "decide" /\ op[p] = "pinned"
  /\ IF cand[p] \in snapshots THEN Goto(p, "done") /\ UNCHANGED <<lock, locals>>
                              ELSE Exits(p)
  /\ UNCHANGED <<files, faults>>

\* Nothing was ever promoted.
LoadFails(p) ==
  /\ pc[p] = "decide" /\ op[p] \in {"list", "resume", "reload", "preflight"}
  /\ observed[p] = Nothing
  /\ Exits(p)
  /\ UNCHANGED <<files, faults>>

\* The source state is not allowed: preflight answers without a pin.
PreflightIneligible(p) ==
  /\ pc[p] = "decide" /\ op[p] = "preflight"
  /\ observed[p] # Nothing
  /\ Goto(p, "done")
  /\ UNCHANGED <<lock, files, locals, faults>>

CreatePin(p) ==
  /\ pc[p] = "decide" /\ op[p] = "preflight"
  /\ observed[p] # Nothing
  /\ pin = Nothing
  /\ pin' = Torn
  /\ Goto(p, "fillPin")
  /\ UNCHANGED <<lock, dirs, snapshots, tornSnapshots, records, tornRecords,
                 pointer, locals, faults>>

\* An enterprise run is pinned to the high-water, a personal run to the retained
\* snapshot that its owner selected.
FillPin(p) ==
  /\ pc[p] = "fillPin"
  /\ \E s \in snapshots : pin' = s
  /\ Goto(p, "done")
  /\ UNCHANGED <<lock, dirs, snapshots, tornSnapshots, records, tornRecords,
                 pointer, locals, faults>>

\* Fault variant: a run that is already pinned is pinned again.
Mut_PinRewritten(p) ==
  /\ pc[p] = "decide" /\ op[p] = "preflight"
  /\ observed[p] # Nothing
  /\ pin # Nothing
  /\ pin' = observed[p]
  /\ Exits(p)
  /\ UNCHANGED <<dirs, snapshots, tornSnapshots, records, tornRecords, pointer, faults>>

\* The pin exists: equal to the new one or not, it stays what it is.
PinExists(p) ==
  /\ pc[p] = "decide" /\ op[p] = "preflight"
  /\ observed[p] # Nothing
  /\ pin # Nothing
  /\ Exits(p)
  /\ UNCHANGED <<files, faults>>

\* The command returns; the lock file is removed by its owner.
Return(p) ==
  /\ pc[p] = "done"
  /\ Exits(p)
  /\ UNCHANGED <<files, faults>>

-----------------------------------------------------------------------------
(* Faults.                                                                 *)

\* An exclusive write that raises unlinks its file (not its directory); an
\* atomic replacement that raises leaves the old pointer.
WriteFails(p) ==
  /\ faults < MaxFaults
  /\ pc[p] \in {"fillSnapshot", "fillRecord", "fillPin", "writePointer", "repair"}
  /\ tornSnapshots' = IF pc[p] = "fillSnapshot" THEN tornSnapshots \ {cand[p]}
                                                ELSE tornSnapshots
  /\ tornRecords' = IF pc[p] = "fillRecord" THEN tornRecords \ {cand[p]} ELSE tornRecords
  /\ pin' = IF pc[p] = "fillPin" THEN Nothing ELSE pin
  /\ Exits(p)
  /\ faults' = faults + 1
  /\ UNCHANGED <<dirs, snapshots, records, pointer>>

\* A command dies: files stay as they are, an owned lock becomes stale.
Crash(p) ==
  /\ faults < MaxFaults
  /\ pc[p] # "idle"
  /\ Forgets(p)
  /\ lock' = IF lock = p THEN Stale ELSE lock
  /\ faults' = faults + 1
  /\ UNCHANGED files

\* The operator removes a lock after making sure that its owner is gone.
RemoveStaleLock ==
  /\ lock = Stale
  /\ lock' = Free
  /\ UNCHANGED <<files, pc, locals, faults>>

-----------------------------------------------------------------------------

Verification(p) ==
  \/ ReadPointer(p) \/ ReadRecords(p)
  \/ VerifyEmpty(p) \/ VerifyCurrent(p) \/ VerifyMissingPointer(p) \/ VerifyFails(p)
  \/ Repair(p)

Ingestion(p) ==
  \/ IngestNext(p) \/ IngestCurrent(p) \/ IngestRejected(p)
  \/ CreateSnapshot(p) \/ FillSnapshot(p)
  \/ CreateRecord(p) \/ FillRecord(p) \/ WritePointer(p)

Loading(p) ==
  \/ LoadSucceeds(p) \/ LoadPinned(p) \/ LoadFails(p)
  \/ PreflightIneligible(p) \/ CreatePin(p) \/ FillPin(p) \/ PinExists(p)
  \/ Return(p)

\* What a started command does by itself.
Step(p) == Acquire(p) \/ GiveUp(p) \/ Verification(p) \/ Ingestion(p) \/ Loading(p)

Next ==
  \/ \E p \in Procs : Start(p) \/ Step(p) \/ WriteFails(p) \/ Crash(p)
  \/ RemoveStaleLock

Spec == Init /\ [][Next]_vars

-----------------------------------------------------------------------------
(* Properties.                                                             *)

Labels == {"idle", "lock", "pointer", "records", "snapshots", "repair", "decide",
           "createSnapshot", "fillSnapshot", "createRecord", "fillRecord",
           "writePointer", "fillPin", "done", "repoint", "collide"}

TypeOK ==
  /\ lock \in Procs \cup {Free, Stale}
  /\ dirs \subseteq {"snapshots", "approval-sequences"}
  /\ snapshots \subseteq Snap /\ tornSnapshots \subseteq Snap
  /\ records \subseteq Snap /\ tornRecords \subseteq Snap
  /\ pointer \in Snap \cup {Nothing}
  /\ pin \in Snap \cup {Nothing, Torn}
  /\ pc \in [Procs -> Labels]
  /\ op \in [Procs -> LockedOps \cup {"pinned", "list", "none"}]
  /\ cand \in [Procs -> Snap \cup {Nothing}]
  /\ seenPointer \in [Procs -> Snap \cup {Nothing}]
  /\ seenRecords \in [Procs -> SUBSET Snap]
  /\ observed \in [Procs -> Snap \cup {Nothing}]
  /\ faults \in 0 .. MaxFaults

-----------------------------------------------------------------------------
(* The inductive invariant.                                                *)

InTransaction(p) == op[p] \in LockedOps /\ pc[p] \notin {"idle", "lock"}

WritingLabels == {"createSnapshot", "fillSnapshot", "createRecord", "fillRecord",
                  "writePointer"}

\* Which operation can be where in its program.
ControlFlow ==
  \A p \in Procs :
    /\ pc[p] = "idle" <=> op[p] = "none"
    /\ pc[p] = "lock" => op[p] \in {"ingest", "preflight", "resume"}
    /\ pc[p] \in WritingLabels => op[p] = "ingest"
    /\ pc[p] = "fillPin" => op[p] = "preflight" /\ observed[p] # Nothing /\ pin = Torn
    /\ pc[p] = "repair" => op[p] # "pinned" /\ observed[p] # Nothing
    /\ op[p] \in {"ingest", "pinned"} => cand[p] \in Snap
    /\ pc[p] \notin {"repoint", "collide"}

\* The lock file belongs to the one command inside the transaction.
LockOwner == \A p \in Procs : InTransaction(p) <=> lock = p

\* Everything that names a snapshot names a promoted one.
Grounded ==
  /\ records \subseteq snapshots
  /\ OnePerSequence(snapshots \cup tornSnapshots)
  /\ pointer \in records \cup {Nothing}
  /\ pin \in records \cup {Nothing, Torn}
  /\ \A p \in Procs :
       /\ seenRecords[p] \subseteq records
       /\ seenPointer[p] \in records \cup {Nothing}
       /\ observed[p] \in records \cup {Nothing}

Settled == records = snapshots /\ tornSnapshots = {} /\ tornRecords = {}

\* What p observed is the high-water now.
UpToDate(p) ==
  IF records = {} THEN observed[p] = Nothing ELSE observed[p] \in HighWaterOf(records)

\* What p promotes follows all that was promoted.
Successor(p) == records # {} => cand[p].seq = observed[p].seq + 1

\* What the owner of the lock has established at each of its steps.
Progress(p) ==
  /\ pc[p] = "snapshots" => seenRecords[p] = records /\ tornRecords = {}
  /\ pc[p] \in ({"repair", "decide"} \cup WritingLabels) \ {"writePointer"} => UpToDate(p)
  /\ pc[p] \in {"repair", "decide", "createSnapshot", "fillPin"} => Settled
  /\ pc[p] \in WritingLabels \ {"writePointer"} => Successor(p)
  /\ pc[p] = "fillSnapshot" =>
       records = snapshots /\ tornSnapshots = {cand[p]} /\ tornRecords = {}
  /\ pc[p] \in {"createRecord", "fillRecord"} =>
       /\ snapshots = records \cup {cand[p]} /\ cand[p] \notin records
       /\ tornSnapshots = {}
       /\ tornRecords = IF pc[p] = "fillRecord" THEN {cand[p]} ELSE {}
  /\ pc[p] = "writePointer" => Settled /\ cand[p] \in HighWaterOf(records)

Complete == Settled /\ (pointer = Nothing <=> records = {})

\* Without faults only a writing command leaves the evidence incomplete.
FaultFree ==
  faults = 0 =>
    /\ lock # Stale
    /\ lock = Free => Complete
    /\ \A p \in Procs :
         InTransaction(p) =>
           /\ pc[p] \notin WritingLabels => Complete
           /\ pc[p] \in WritingLabels \ {"writePointer"} =>
                (pointer = Nothing <=> records = {})

LedgerInv ==
  /\ TypeOK
  /\ ControlFlow
  /\ LockOwner
  /\ Grounded
  /\ \A p \in Procs : InTransaction(p) => Progress(p)
  /\ FaultFree

-----------------------------------------------------------------------------
(* What the transaction lock is good for.                                  *)

Lock == INSTANCE ProfileLock WITH owner <- lock
evidence == <<dirs, snapshots, tornSnapshots, records, tornRecords, pin>>

\* The lock is owned as ProfileLock promises, and no file changes but by a step of its
\* owner (ingest_snapshot, preflight_snapshot and the resumed load), the pointer
\* excepted, which `guardian rules list` repairs without the lock.
OwnersWrite ==
  [][evidence' # evidence =>
       \E p \in Procs : lock = p /\ \A q \in Procs \ {p} : pc'[q] = pc[q]]_vars
Transactional == Lock!LockSpec /\ OwnersWrite

-----------------------------------------------------------------------------
(* What the evidence guarantees.                                           *)

Register ==
  INSTANCE CatalogRegister WITH Snapshots <- Snap, approved <- records

\* The files, the lock and the repairs implement the compare-and-append
\* register: what a command verifies is the high-water at that instant, and it
\* promotes only the successor of what it verified, once, whatever other
\* commands, crashes and failed writes do (ingest_snapshot, load_snapshot).
ImplementsRegister == Register!RegisterSpec


\* Two snapshot documents never share an approval sequence, not even when a
\* crash left one of them without its record or torn: a second one could no
\* longer be told from the approved one (_read_snapshot_history).
OneSnapshotPerSequence == OnePerSequence(snapshots \cup tornSnapshots)

\* A verified history has no leftovers: whenever _verify_catalog_high_water
\* accepts, every snapshot document has its record at that instant, so an
\* interrupted promotion is never taken for an approved one.
VerifiedMeansAligned ==
  [][\A p \in Procs :
       pc[p] = "snapshots" /\ pc'[p] \in {"decide", "repair"} =>
         records = snapshots /\ tornSnapshots = {}]_vars

\* The branch of ingest_snapshot for a record that is already kept, the
\* comparison in _store_snapshot_once and a record path that is already taken
\* are never reached: verification under the lock excludes them.
NoDeadBranch == \A p \in Procs : pc[p] \notin {"repoint", "collide"}

\* A run is pinned to a promoted snapshot, and the pin of a run is written once
\* (preflight_snapshot): later promotions, repairs and crashes do not touch it.
PinnedForGood ==
  [][/\ pin' \in Snap => pin' \in records
     /\ pin \in Snap => pin' = pin]_vars

\* An existing pointer only ever moves up, to the newest record, unless the
\* writer is the unlocked repair of `guardian rules list` (list_rules).
PointerMovesUp ==
  [][\/ pointer = Nothing
     \/ /\ pointer' \in HighWaterOf(records)
        /\ pointer'.seq > pointer.seq
     \/ \E p \in Procs : op[p] = "list" /\ pc[p] = "repair"]_pointer

\* Without faults, the evidence is complete whenever the profile is unlocked:
\* each snapshot has its record, nothing is torn, and a pointer exists as soon
\* as a snapshot does.
CompleteAtRest ==
  faults = 0 /\ lock = Free =>
    /\ records = snapshots
    /\ tornSnapshots = {} /\ tornRecords = {}
    /\ pointer = Nothing <=> records = {}

-----------------------------------------------------------------------------
(* Statements of the repository that the code does not keep.               *)

\* "The profile lock prevents recovery from replacing a newer pointer"
\* (catalog_authority.py), "monotonically promote one snapshot"
\* (ingest_snapshot): an existing pointer never moves down.
PointerNeverMovesDown ==
  [][pointer # Nothing => pointer' \in Snap /\ pointer'.seq >= pointer.seq]_pointer
=============================================================================
