------------------------------ MODULE Migrations -------------------------------
(***************************************************************************)
(* Schema migrations of one artifact of a company profile, and their       *)
(* restoration (migrations.py), under the profile transaction lock.  An    *)
(* artifact advances one version at a time: its backup and the prepared    *)
(* record are written once each, the artifact is replaced, and the commit  *)
(* record is written.                                                      *)
(*                                                                         *)
(* The transformations are deterministic, so a document is known by its    *)
(* version; policy and registry stay what they are.                        *)
(***************************************************************************)
EXTENDS Onboarding

CONSTANTS CurrentVersion, \* the version that this runtime migrates to
          Restorations    \* identifiers of restorations

Versions == 1 .. CurrentVersion
Stages == {"backup", "prepare", "commit"}

ASSUME VersionAssumption ==
  /\ CurrentVersion \in Nat \ {0}
  /\ {Nothing, Torn} \cap ({"whole"} \cup [to : Versions, previous : Versions]) = {}

VARIABLES
  artifact,  \* the version of the document in place
  written,   \* the files of each stage of each step: Nothing, Torn or "whole"
  restoring, \* the prepared restorations: Nothing, Torn or [to, previous]
  restored   \* the restoration records: Nothing, Torn or "whole"

artifacts == <<artifact, written, restoring, restored>>

-----------------------------------------------------------------------------
(* migrate_to_current.                                                     *)

BeginSchema(p) ==
  /\ Begin(p, [kind |-> "schema", at |-> 0], "profileLock")
  /\ UNCHANGED <<trust, catalogs, artifacts>>

NoTornPreparation == \A v \in Versions : written["prepare"][v] # Torn

Goes(p, at, label) ==
  job' = [job EXCEPT ![p].at = at] /\ Goto(p, label) /\ UNCHANGED <<agenda, commands, faults>>

\* Fault variant: the step that an interrupted migration left is not committed.
Mut_SchemaReads(p) ==
  /\ pc[p] = "schema"
  /\ IF ~(TrustVerifies /\ NoTornPreparation) THEN UnlockRefused(p)
     ELSE IF artifact = CurrentVersion THEN Step(p, "ok") /\ Unlock
     ELSE Goes(p, artifact, "backup") /\ UNCHANGED profileLock
  /\ UNCHANGED <<trust, profile, snapshots, mend, artifacts>>

\* The step that led to the document in place is committed first.
SchemaReads(p) ==
  /\ pc[p] = "schema"
  /\ IF ~(TrustVerifies /\ NoTornPreparation) THEN UnlockRefused(p)
     ELSE IF artifact > 1 /\ written["prepare"][artifact - 1] = "whole"
       THEN Goes(p, artifact - 1, "commit") /\ UNCHANGED profileLock
     ELSE IF artifact = CurrentVersion THEN Step(p, "ok") /\ Unlock
     ELSE Goes(p, artifact, "backup") /\ UNCHANGED profileLock
  /\ UNCHANGED <<trust, profile, snapshots, mend, artifacts>>

Filling == [backup |-> "fillBackup", prepare |-> "fillPrepare", commit |-> "fillCommit"]
AfterFile == [backup |-> "prepare", prepare |-> "replace", commit |-> "advance"]

\* History is written once: what is there has to be the same, and whole.
CreateFile(p) ==
  /\ pc[p] \in Stages
  /\ LET file == written[pc[p]][job[p].at] IN
     IF file = Nothing
       THEN /\ written' = [written EXCEPT ![pc[p]][job[p].at] = Torn]
            /\ Step(p, Filling[pc[p]]) /\ UNCHANGED profileLock
     ELSE /\ UNCHANGED written
          /\ IF file = Torn THEN UnlockRefused(p)
                            ELSE Step(p, AfterFile[pc[p]]) /\ UNCHANGED profileLock
  /\ UNCHANGED <<trust, profile, snapshots, mend, artifact, restoring, restored>>

StageOf(p) == CHOOSE s \in Stages : Filling[s] = pc[p]

FillFile(p) ==
  /\ \E s \in Stages : pc[p] = Filling[s]
  /\ written' = [written EXCEPT ![StageOf(p)][job[p].at] = "whole"]
  /\ Step(p, AfterFile[StageOf(p)])
  /\ UNCHANGED <<trust, catalogs, artifact, restoring, restored>>

ReplaceArtifact(p) ==
  /\ pc[p] = "replace"
  /\ artifact' = job[p].at + 1
  /\ Step(p, "commit")
  /\ UNCHANGED <<trust, catalogs, written, restoring, restored>>

Advance(p) ==
  /\ pc[p] = "advance"
  /\ IF job[p].at + 1 = CurrentVersion THEN Step(p, "ok") /\ Unlock
     ELSE Goes(p, job[p].at + 1, "backup") /\ UNCHANGED profileLock
  /\ UNCHANGED <<trust, profile, snapshots, mend, artifacts>>

-----------------------------------------------------------------------------
(* restore_backup.                                                         *)

BeginRestore(p) ==
  /\ \E id \in Restorations, v \in Versions :
       Begin(p, [kind |-> "restore", id |-> id, to |-> v], "profileLock")
  /\ UNCHANGED <<trust, catalogs, artifacts>>

\* Only the backup of a completed migration is restored.
Restorable(v) == NoTornPreparation /\ \A s \in Stages : written[s][v] = "whole"

\* A restoration that is complete, or was prepared, can be repeated as long as
\* the artifact has not changed since.
RestoreReads(p) ==
  /\ pc[p] = "restore"
  /\ LET id == job[p].id
         to == job[p].to
         prior == restoring[id] IN
     IF ~(TrustVerifies /\ Restorable(to)) \/ Torn \in {prior, restored[id]}
       THEN UnlockRefused(p)
     ELSE IF prior = Nothing THEN Step(p, "prepareRestore") /\ UNCHANGED profileLock
     ELSE IF prior.to # to \/ artifact \notin {to, prior.previous} THEN UnlockRefused(p)
     ELSE IF restored[id] = Nothing THEN Step(p, "putBack") /\ UNCHANGED profileLock
     ELSE IF artifact = to THEN Step(p, "ok") /\ Unlock
     ELSE UnlockRefused(p)
  /\ UNCHANGED <<trust, profile, snapshots, mend, artifacts>>

PrepareRestore(p) ==
  /\ pc[p] = "prepareRestore"
  /\ restoring' = [restoring EXCEPT ![job[p].id] = Torn]
  /\ Step(p, "fillRestore")
  /\ UNCHANGED <<trust, catalogs, artifact, written, restored>>

FillRestore(p) ==
  /\ pc[p] = "fillRestore"
  /\ restoring' = [restoring EXCEPT ![job[p].id] = [to |-> job[p].to, previous |-> artifact]]
  /\ Step(p, "putBack")
  /\ UNCHANGED <<trust, catalogs, artifact, written, restored>>

PutBack(p) ==
  /\ pc[p] = "putBack"
  /\ artifact' = job[p].to
  /\ Step(p, "recordRestore")
  /\ UNCHANGED <<trust, catalogs, written, restoring, restored>>

RecordRestore(p) ==
  /\ pc[p] = "recordRestore"
  /\ restored' = [restored EXCEPT ![job[p].id] = Torn]
  /\ Step(p, "fillRestored")
  /\ UNCHANGED <<trust, catalogs, artifact, written, restoring>>

FillRestored(p) ==
  /\ pc[p] = "fillRestored"
  /\ restored' = [restored EXCEPT ![job[p].id] = "whole"]
  /\ Step(p, "ok") /\ Unlock
  /\ UNCHANGED <<trust, profile, snapshots, mend, artifact, written, restoring>>

\* An exclusive write that raises unlinks the file; a replacement leaves the old one.
SchemaWriteFails(p) ==
  /\ pc[p] \in {"fillBackup", "fillPrepare", "fillCommit", "replace",
                "fillRestore", "putBack", "fillRestored"}
  /\ faults < MaxFaults
  /\ faults' = faults + 1
  /\ written' = IF \E s \in Stages : pc[p] = Filling[s]
                  THEN [written EXCEPT ![StageOf(p)][job[p].at] = Nothing] ELSE written
  /\ restoring' = IF pc[p] = "fillRestore"
                    THEN [restoring EXCEPT ![job[p].id] = Nothing] ELSE restoring
  /\ restored' = IF pc[p] = "fillRestored"
                   THEN [restored EXCEPT ![job[p].id] = Nothing] ELSE restored
  /\ Leave(p) /\ Unlock
  /\ UNCHANGED <<trust, profile, snapshots, mend, artifact, agenda, commands>>

MigrationsNext(p) ==
  \/ BeginSchema(p) \/ SchemaReads(p) \/ CreateFile(p) \/ FillFile(p)
  \/ ReplaceArtifact(p) \/ Advance(p)
  \/ BeginRestore(p) \/ RestoreReads(p) \/ PrepareRestore(p) \/ FillRestore(p)
  \/ PutBack(p) \/ RecordRestore(p) \/ FillRestored(p) \/ SchemaWriteFails(p)

MigrationsInit ==
  /\ artifact = 1
  /\ written = [s \in Stages |-> [v \in Versions |-> Nothing]]
  /\ restoring = [r \in Restorations |-> Nothing]
  /\ restored = [r \in Restorations |-> Nothing]
=============================================================================
