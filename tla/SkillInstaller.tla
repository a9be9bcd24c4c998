---------------------------- MODULE SkillInstaller ----------------------------
(***************************************************************************)
(* The journaled installation of Guardian's skills into a host's skill     *)
(* root (install_agent_skills.py).  An installer stages the skills beside  *)
(* the root, moves each old skill into a backup and each staged one into   *)
(* its place, and recovers from the journal whatever was interrupted.      *)
(* Every file operation is an action; a run can die before any of them.    *)
(*                                                                         *)
(* The installer holds an exclusive lock of the operating system, which a  *)
(* process loses when it ends.  A second installer stops at once with an   *)
(* error and changes nothing, so the model has the one run with the lock.  *)
(***************************************************************************)
EXTENDS Integers, FiniteSets

CONSTANTS Roots,       \* directories with a checkout of the Guardian package
          MaxVersion,  \* versions are 1 .. MaxVersion
          SkillCount,  \* the length of SKILL_NAMES
          MaxInstalls, \* bound on installations that reach their own stage
          MaxFaults,   \* bound on exceptions and deaths
          Absent,      \* there is no such folder
          Broken,      \* a folder the installer has copied or removed in part
          Foreign,     \* a folder somebody else has made or changed
          None         \* no journal; no transient directory

Versions == 1 .. MaxVersion
Packages == [root : Roots, version : Versions]
Skills == 1 .. SkillCount
Installs == 1 .. MaxInstalls

ASSUME BoundsAssumption ==
  /\ MaxVersion \in Nat /\ MaxInstalls \in Nat /\ MaxFaults \in Nat
  /\ SkillCount \in Nat \ {0}
ASSUME DistinctAssumption ==
  /\ Absent \notin Packages /\ Broken \notin Packages /\ Foreign \notin Packages
  /\ Absent # Broken /\ Absent # Foreign /\ Broken # Foreign
  /\ None \notin [phase : {"prepared", "committed"}, transaction : Installs,
                  skills : [Skills -> BOOLEAN]]
  /\ None \notin [Skills -> Packages \cup {Absent, Broken, Foreign}]

\* What a skill folder can be.  validate_managed_skill accepts a package's
\* complete copy: its digest list is written last and read before anything else.
Trees == Packages \cup {Absent, Broken, Foreign}

VARIABLES
  package,   \* the version each package root has checked out
  dest,      \* the skill folders of the host
  stage,     \* the stage directory of each installation, or None
  backup,    \* the backup directory of each installation, or None
  journal,   \* the journal, or None
  installs,  \* the number of transactions so far; the last one is the run's
  pc,        \* the next step of the run
  i,         \* the skill the step is about
  cand,      \* the package that is being installed
  replace,   \* --replace was given
  after,     \* what follows the recovery: "check", or the report of the run
  report,    \* how the last run ended
  prior,     \* history: the skill folders when the last transaction began
  faults     \* exceptions and deaths so far

disk == <<dest, stage, backup, journal>>
fixed == <<package, installs, cand, replace, prior>>
vars == <<package, dest, stage, backup, journal, installs, pc, i, cand, replace,
          after, report, prior, faults>>

EmptyDir == [s \in Skills |-> Absent]

Init ==
  /\ package \in [Roots -> Versions]
  /\ dest = EmptyDir
  /\ stage = [t \in Installs |-> None]
  /\ backup = [t \in Installs |-> None]
  /\ journal = None
  /\ installs = 0
  /\ pc = "idle" /\ i = 1
  /\ cand \in {[root |-> r, version |-> package[r]] : r \in Roots}
  /\ replace = FALSE
  /\ after = "check" /\ report = "none"
  /\ prior = EmptyDir
  /\ faults = 0

Goto(label) == pc' = label

\* The run ends with an error; the journal stays for the next run.
Stop == Goto("idle") /\ report' = "error"

At(label) == pc = label

\* The package in a root, as the installer that is started from it sees it.
Candidate(r) == [root |-> r, version |-> package[r]]

\* The name of a transaction's directories is in the journal.
Txn == journal.transaction

Saved(s) == backup[Txn] # None /\ backup[Txn][s] # Absent

-----------------------------------------------------------------------------
(* Outside the installer, between two runs.                                *)

\* Another version is checked out in a package root.
Checkout(r, v) ==
  /\ At("idle")
  /\ v # package[r]
  /\ package' = [package EXCEPT ![r] = v]
  /\ UNCHANGED <<disk, installs, pc, i, cand, replace, after, report, prior, faults>>

\* A user makes or changes a skill folder.
Edit(s) ==
  /\ At("idle")
  /\ dest[s] # Foreign
  /\ dest' = [dest EXCEPT ![s] = Foreign]
  /\ UNCHANGED <<stage, backup, journal, fixed, pc, i, after, report, faults>>

-----------------------------------------------------------------------------
(* recover_interrupted.                                                    *)

Start(r, mayReplace) ==
  /\ At("idle")
  /\ Goto("recover")
  /\ cand' = Candidate(r)
  /\ replace' = mayReplace
  /\ after' = "check"
  /\ report' = "none"
  /\ i' = 1
  /\ UNCHANGED <<package, disk, installs, prior, faults>>

\* Back from the recovery: the installation goes on, or the run ends.
Continue ==
  IF after = "check" THEN Goto("check") /\ UNCHANGED report
                     ELSE Goto("idle") /\ report' = after

RecoverNothing ==
  /\ At("recover")
  /\ journal = None
  /\ Continue
  /\ UNCHANGED <<disk, fixed, i, after, faults>>

RecoverCommitted ==
  /\ At("recover")
  /\ journal # None
  /\ journal.phase = "committed"
  /\ IF \A s \in Skills : dest[s] \in Packages
     THEN Goto("dropStage") /\ UNCHANGED report
     ELSE Stop
  /\ UNCHANGED <<disk, fixed, i, after, faults>>

\* Fault variant: the last skill is not looked at.
Mut_RecoverPreparedShort ==
  /\ At("recover")
  /\ journal # None
  /\ journal.phase = "prepared"
  /\ Goto("restore")
  /\ i' = 2
  /\ UNCHANGED <<disk, fixed, after, report, faults>>

RecoverPrepared ==
  /\ At("recover")
  /\ journal # None
  /\ journal.phase = "prepared"
  /\ Goto("restore")
  /\ i' = 1
  /\ UNCHANGED <<disk, fixed, after, report, faults>>

\* Fault variant: the folder in the way is not validated.
Mut_RestorableBlindly(s) ==
  Saved(s) => journal.skills[s] /\ backup[Txn][s] \in Packages

\* Nothing is restored over, and nothing removed, that is not a managed skill.
Restorable(s) ==
  IF Saved(s)
  THEN /\ journal.skills[s]
       /\ backup[Txn][s] \in Packages
       /\ dest[s] \in Packages \cup {Absent}
  ELSE dest[s] \in Packages \cup (IF journal.skills[s] THEN {} ELSE {Absent})

RestoreRefused ==
  /\ At("restore") /\ i \in Skills
  /\ ~Restorable(i)
  /\ Stop
  /\ UNCHANGED <<disk, fixed, i, after, faults>>

\* The skill is still, or again, what it was.
RestoreKept ==
  /\ At("restore") /\ i \in Skills
  /\ Restorable(i)
  /\ ~Saved(i)
  /\ journal.skills[i] \/ dest[i] = Absent
  /\ i' = i + 1
  /\ UNCHANGED <<disk, fixed, pc, after, report, faults>>

\* _remove_managed_skill: rmtree deletes the digest list with the other files.
RemoveNew ==
  /\ At("restore") /\ i \in Skills
  /\ Restorable(i)
  /\ dest[i] # Absent
  /\ Saved(i) \/ ~journal.skills[i]
  /\ dest' = [dest EXCEPT ![i] = Broken]
  /\ Goto("removing")
  /\ UNCHANGED <<stage, backup, journal, fixed, i, after, report, faults>>

Removed ==
  /\ At("removing")
  /\ dest' = [dest EXCEPT ![i] = Absent]
  /\ Goto("restore")
  /\ UNCHANGED <<stage, backup, journal, fixed, i, after, report, faults>>

PutBack ==
  /\ At("restore") /\ i \in Skills
  /\ Restorable(i)
  /\ Saved(i)
  /\ dest[i] = Absent
  /\ dest' = [dest EXCEPT ![i] = backup[Txn][i]]
  /\ backup' = [backup EXCEPT ![Txn][i] = Absent]
  /\ i' = i + 1
  /\ UNCHANGED <<stage, journal, fixed, pc, after, report, faults>>

Restored ==
  /\ At("restore") /\ i \notin Skills
  /\ Goto("dropStage")
  /\ UNCHANGED <<disk, fixed, i, after, report, faults>>

\* Fault variant: the journal goes first.
Mut_DropStageLast ==
  /\ At("dropStage")
  /\ journal' = None
  /\ Continue
  /\ UNCHANGED <<dest, stage, backup, fixed, i, after, faults>>

DropStage ==
  /\ At("dropStage")
  /\ stage' = [stage EXCEPT ![Txn] = None]
  /\ Goto("dropBackup")
  /\ UNCHANGED <<dest, backup, journal, fixed, i, after, report, faults>>

DropBackup ==
  /\ At("dropBackup")
  /\ backup' = [backup EXCEPT ![Txn] = None]
  /\ Goto("dropJournal")
  /\ UNCHANGED <<dest, stage, journal, fixed, i, after, report, faults>>

DropJournal ==
  /\ At("dropJournal")
  /\ journal' = None
  /\ Continue
  /\ UNCHANGED <<dest, stage, backup, fixed, i, after, faults>>

\* What an rmtree leaves of a directory when it ends early.
Remains(dir) ==
  {d \in [Skills -> Trees] : \A s \in Skills :
     d[s] \in {dir[s]} \cup (IF dir[s] = Absent THEN {} ELSE {Absent, Broken})}

DieDropping ==
  /\ faults < MaxFaults
  /\ \/ /\ At("dropStage") /\ stage[Txn] # None
        /\ \E d \in Remains(stage[Txn]) : stage' = [stage EXCEPT ![Txn] = d]
        /\ UNCHANGED backup
     \/ /\ At("dropBackup") /\ backup[Txn] # None
        /\ \E d \in Remains(backup[Txn]) : backup' = [backup EXCEPT ![Txn] = d]
        /\ UNCHANGED stage
  /\ Stop
  /\ faults' = faults + 1
  /\ UNCHANGED <<dest, journal, fixed, i, after>>

-----------------------------------------------------------------------------
(* install.                                                                *)

Existing == {s \in Skills : dest[s] # Absent}

\* Fault variant: a downgrade is not refused.
Mut_AcceptsDowngrade(c, mayReplace) ==
  Existing # {} =>
    /\ mayReplace
    /\ \A s \in Existing : dest[s] \in Packages /\ dest[s].root = c.root
    /\ Existing = Skills
    /\ \A s, u \in Skills : dest[s].version = dest[u].version

\* The checks before a transaction: validate_existing on what is there, then
\* validate_replacement_versions.
Accepts(c, mayReplace) ==
  Existing # {} =>
    /\ mayReplace
    /\ \A s \in Existing : dest[s] \in Packages /\ dest[s].root = c.root
    /\ Existing = Skills
    /\ \A s, u \in Skills : dest[s].version = dest[u].version
    /\ \A s \in Skills : dest[s].version <= c.version

\* Beyond the bound the stage directory cannot be made.
Check ==
  /\ At("check")
  /\ IF Accepts(cand, replace) /\ installs < MaxInstalls
     THEN Goto("makeStage") /\ UNCHANGED report
     ELSE Stop
  /\ UNCHANGED <<disk, fixed, i, after, faults>>

MakeStage ==
  /\ At("makeStage")
  /\ installs' = installs + 1
  /\ stage' = [stage EXCEPT ![installs + 1] = EmptyDir]
  /\ prior' = dest
  /\ Goto("makeBackup")
  /\ UNCHANGED <<package, dest, backup, journal, i, cand, replace, after, report, faults>>

MakeBackup ==
  /\ At("makeBackup")
  /\ backup' = [backup EXCEPT ![installs] = EmptyDir]
  /\ Goto("prepare")
  /\ UNCHANGED <<dest, stage, journal, fixed, i, after, report, faults>>

\* had_existing is read before the two directories are made; only the run with
\* the lock changes the skill folders in between.
Prepare ==
  /\ At("prepare")
  /\ journal' = [phase |-> "prepared", transaction |-> installs,
                 skills |-> [s \in Skills |-> dest[s] # Absent]]
  /\ Goto("stage")
  /\ i' = 1
  /\ UNCHANGED <<dest, stage, backup, fixed, after, report, faults>>

StageBegins ==
  /\ At("stage") /\ i \in Skills
  /\ stage' = [stage EXCEPT ![Txn][i] = Broken]
  /\ Goto("staging")
  /\ UNCHANGED <<dest, backup, journal, fixed, i, after, report, faults>>

StageEnds ==
  /\ At("staging")
  /\ stage' = [stage EXCEPT ![Txn][i] = cand]
  /\ Goto("stage")
  /\ i' = i + 1
  /\ UNCHANGED <<dest, backup, journal, fixed, after, report, faults>>

Staged ==
  /\ At("stage") /\ i \notin Skills
  /\ Goto("backUp")
  /\ i' = 1
  /\ UNCHANGED <<disk, fixed, after, report, faults>>

\* Fault variant: the old skill is removed instead of moved.
Mut_BackUpRemoves ==
  /\ At("backUp") /\ i \in Skills
  /\ dest' = [dest EXCEPT ![i] = Absent]
  /\ Goto("promote")
  /\ UNCHANGED <<stage, backup, journal, fixed, i, after, report, faults>>

BackUp ==
  /\ At("backUp") /\ i \in Skills
  /\ IF dest[i] # Absent
     THEN /\ backup' = [backup EXCEPT ![Txn][i] = dest[i]]
          /\ dest' = [dest EXCEPT ![i] = Absent]
     ELSE UNCHANGED <<backup, dest>>
  /\ Goto("promote")
  /\ UNCHANGED <<stage, journal, fixed, i, after, report, faults>>

Promote ==
  /\ At("promote")
  /\ dest' = [dest EXCEPT ![i] = stage[Txn][i]]
  /\ stage' = [stage EXCEPT ![Txn][i] = Absent]
  /\ Goto("backUp")
  /\ i' = i + 1
  /\ UNCHANGED <<backup, journal, fixed, after, report, faults>>

\* validate_existing on every promoted skill.
Validate ==
  /\ At("backUp") /\ i \notin Skills
  /\ IF \A s \in Skills : dest[s] \in Packages /\ dest[s].root = cand.root
     THEN Goto("commit") /\ UNCHANGED after
     ELSE Goto("recover") /\ after' = "error"
  /\ UNCHANGED <<disk, fixed, i, report, faults>>

\* Fault variant: the journal is committed after the first promotion.
Mut_CommitEarly ==
  /\ At("backUp") /\ i = 2
  /\ journal' = [journal EXCEPT !.phase = "committed"]
  /\ Goto("committed")
  /\ UNCHANGED <<dest, stage, backup, fixed, i, after, report, faults>>

Commit ==
  /\ At("commit")
  /\ journal' = [journal EXCEPT !.phase = "committed"]
  /\ Goto("committed")
  /\ UNCHANGED <<dest, stage, backup, fixed, i, after, report, faults>>

Finish ==
  /\ At("committed")
  /\ Goto("recover")
  /\ after' = "installed"
  /\ UNCHANGED <<disk, fixed, i, report, faults>>

\* The labels inside the try block of install, and those whose operation a
\* host that watches the skill folders can refuse after promotion_started.
TryLabels == {"stage", "staging", "backUp", "promote", "commit", "committed"}
HostLabels == {"backUp", "promote", "commit"}

\* Fault variant: the recovery is left to the next run.
Mut_RaiseUnrecovered(hostLock) ==
  /\ faults < MaxFaults
  /\ pc \in (IF hostLock THEN HostLabels ELSE TryLabels)
  /\ Goto("idle")
  /\ report' = IF hostLock THEN "reload_required" ELSE "error"
  /\ faults' = faults + 1
  /\ UNCHANGED <<disk, fixed, i, after>>

\* An exception inside the try block: _recover_install_failure recovers before
\* it raises, and only then calls a host lock by its name.
Raise(hostLock) ==
  /\ faults < MaxFaults
  /\ pc \in (IF hostLock THEN HostLabels ELSE TryLabels)
  /\ Goto("recover")
  /\ after' = IF hostLock THEN "reload_required" ELSE "error"
  /\ faults' = faults + 1
  /\ UNCHANGED <<disk, fixed, i, report>>

\* The process dies, or raises outside of the try block.
Die ==
  /\ faults < MaxFaults
  /\ ~At("idle")
  /\ Stop
  /\ faults' = faults + 1
  /\ UNCHANGED <<disk, fixed, i, after>>

-----------------------------------------------------------------------------
Recover ==
  \/ RecoverNothing \/ RecoverCommitted \/ RecoverPrepared
  \/ RestoreRefused \/ RestoreKept \/ RemoveNew \/ Removed \/ PutBack \/ Restored
  \/ DropStage \/ DropBackup \/ DropJournal

Install ==
  \/ Check \/ MakeStage \/ MakeBackup \/ Prepare
  \/ StageBegins \/ StageEnds \/ Staged \/ BackUp \/ Promote
  \/ Validate \/ Commit \/ Finish

Next ==
  \/ \E r \in Roots : \E v \in Versions : Checkout(r, v)
  \/ \E s \in Skills : Edit(s)
  \/ \E r \in Roots : \E mayReplace \in BOOLEAN : Start(r, mayReplace)
  \/ Recover \/ Install
  \/ \E hostLock \in BOOLEAN : Raise(hostLock)
  \/ DieDropping \/ Die

Spec == Init /\ [][Next]_vars

-----------------------------------------------------------------------------
(* Properties.                                                             *)

RecoveryLabels == {"recover", "restore", "removing", "dropStage", "dropBackup", "dropJournal"}
Labels == {"idle", "check", "makeStage", "makeBackup", "prepare"} \cup RecoveryLabels \cup TryLabels
Reports == {"error", "installed", "reload_required"}

TypeOK ==
  /\ package \in [Roots -> Versions]
  /\ dest \in [Skills -> Trees]
  /\ stage \in [Installs -> [Skills -> Trees] \cup {None}]
  /\ backup \in [Installs -> [Skills -> Trees] \cup {None}]
  /\ journal \in [phase : {"prepared", "committed"}, transaction : Installs,
                  skills : [Skills -> BOOLEAN]] \cup {None}
  /\ installs \in 0 .. MaxInstalls
  /\ pc \in Labels
  /\ i \in 1 .. SkillCount + 1
  /\ cand \in Packages
  /\ replace \in BOOLEAN
  /\ after \in Reports \cup {"check"}
  /\ report \in Reports \cup {"none"}
  /\ prior \in [Skills -> Trees]
  /\ faults \in 0 .. MaxFaults

Prepared == journal # None /\ journal.phase = "prepared"
Committed == journal # None /\ journal.phase = "committed"

\* All the skills are one package's, or none is there, up to foreign folders.
OnePackage == \E p \in Packages \cup {Absent} : \A s \in Skills : dest[s] \in {p, Foreign}

\* The journal of a transaction that is not committed knows how to undo it.
PreparedInv ==
  Prepared =>
    /\ \A s \in Skills : /\ prior[s] \in Packages \cup {Absent}
                         /\ prior[s] = prior[1]
                         /\ journal.skills[s] <=> prior[s] # Absent
    /\ \A s \in Skills : IF Saved(s)
                         THEN backup[Txn][s] = prior[s]
                         ELSE prior[s] # Absent => dest[s] \in {prior[s], Foreign}

SettledInv ==
  /\ ~Prepared => OnePackage
  /\ Committed => \A s \in Skills : dest[s] # Absent

\* A run between its checks and its journal.
ChecksInv ==
  /\ pc \in {"check", "makeStage", "makeBackup", "prepare"} => journal = None
  /\ pc \in {"makeStage", "makeBackup", "prepare"} => Accepts(cand, replace)
  /\ pc \in {"makeBackup", "prepare"} =>
       /\ prior = dest
       /\ installs \in Installs
       /\ stage[installs] = EmptyDir
  /\ At("makeStage") => installs < MaxInstalls
  /\ At("prepare") => backup[installs] = EmptyDir

\* A run inside the try block.
TryInv ==
  pc \in TryLabels =>
    /\ journal # None
    /\ stage[Txn] # None /\ backup[Txn] # None
    /\ journal.phase = (IF At("committed") THEN "committed" ELSE "prepared")
    /\ \A s \in Skills : prior[s] # Absent => prior[s].root = cand.root
                                              /\ prior[s].version <= cand.version
    /\ pc \in {"stage", "staging"} =>
         /\ dest = prior /\ backup[Txn] = EmptyDir
         /\ \A s \in Skills : s < i => stage[Txn][s] = cand
    /\ pc \in {"backUp", "promote"} =>
         \A s \in Skills : /\ s < i => dest[s] = cand
                           /\ s >= i => stage[Txn][s] = cand
                           /\ s > i \/ (s = i /\ At("backUp")) => dest[s] = prior[s]
    /\ pc \in {"staging", "promote"} => i \in Skills
    /\ At("promote") => dest[i] = Absent
    /\ pc \in {"commit", "committed"} => \A s \in Skills : dest[s] = cand

\* A run inside recover_interrupted.
RecoveryInv ==
  /\ pc \in RecoveryLabels \ {"recover"} => journal # None
  /\ pc \in RecoveryLabels /\ after # "check" =>
       /\ journal # None
       /\ after = "installed" => Committed /\ \A s \in Skills : dest[s] = cand
       /\ after = "reload_required" => Prepared
  /\ pc \in {"restore", "removing"} =>
       Prepared /\ \A s \in Skills : s < i => ~Saved(s) /\ dest[s] = prior[s]
  /\ At("removing") =>
       i \in Skills /\ dest[i] = Broken /\ (Saved(i) \/ ~journal.skills[i])
  /\ pc \in {"dropStage", "dropBackup", "dropJournal"} =>
       IF Prepared
       THEN dest = prior /\ \A s \in Skills : ~Saved(s)
       ELSE \A s \in Skills : dest[s] \in Packages
  /\ pc \in {"dropBackup", "dropJournal"} => stage[Txn] = None
  /\ At("dropJournal") => backup[Txn] = None

\* No copy of a skill lies in a transient directory that no journal leads to:
\* what an interruption can leave behind for ever is an empty directory.
NothingStranded ==
  \A t \in Installs : journal = None \/ t # Txn =>
    stage[t] \in {None, EmptyDir} /\ backup[t] \in {None, EmptyDir}

InstallerInv ==
  /\ TypeOK /\ NothingStranded
  /\ PreparedInv /\ SettledInv /\ ChecksInv /\ TryInv /\ RecoveryInv

\* Until a transaction is committed every skill it replaces exists unchanged in
\* its place or in the backup, unless somebody else has taken the place.
LastGoodKept ==
  Prepared => \A s \in Skills : prior[s] # Absent =>
    \/ dest[s] \in {prior[s], Foreign}
    \/ backup[Txn] # None /\ backup[Txn][s] = prior[s]

\* The recovery can be repeated after an interruption at any of its steps but
\* the removal of a folder: it will not refuse what the installer itself left.
RecoveryRepeatable ==
  At("idle") /\ journal # None /\ (\A s \in Skills : dest[s] \notin {Foreign, Broken}) =>
    IF Prepared THEN \A s \in Skills : Restorable(s)
                ELSE \A s \in Skills : dest[s] \in Packages

\* The installer never removes, moves or overwrites a folder it does not own.
EditsKept == [][\A s \in Skills : dest[s] = Foreign => dest'[s] = Foreign]_vars

\* "installed" is reported of the complete candidate, and reload_required only
\* after the skills are what they were before; neither leaves a journal.
ReportsAreTrue ==
  [][~At("idle") /\ pc' = "idle" =>
       /\ report' = "installed" => (\A s \in Skills : dest'[s] = cand) /\ journal' = None
       /\ report' = "reload_required" => dest' = prior /\ journal' = None]_vars

\* The installation a host has: until the commit, the one before.
Installed ==
  IF \E s \in Skills : dest[s] = Foreign THEN Foreign
  ELSE IF Prepared THEN prior[1]
  ELSE IF \A s \in Skills : dest[s] = dest[1] THEN dest[1]
  ELSE Broken

Abstract == INSTANCE InstallRegister WITH installed <- Installed

\* Stages, backups, journal and recoveries implement an installation that is
\* replaced in one step, by the same or a newer version from the same root.
ImplementsRegister == Abstract!RegisterSpec

\* What the install guide says of the journal: after an interruption the
\* recovery can roll back, or finish, what nobody else has touched.
JournalRollsBack ==
  At("idle") /\ Prepared /\ (\A s \in Skills : dest[s] # Foreign) =>
    \A s \in Skills : Restorable(s)
=============================================================================
