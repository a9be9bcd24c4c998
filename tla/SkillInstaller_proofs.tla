------------------------ MODULE SkillInstaller_proofs ------------------------
(***************************************************************************)
(* Proofs about SkillInstaller, for every set of package roots, every      *)
(* number of versions, skills, installations and faults.                   *)
(*                                                                         *)
(* InstallerInv is inductive: there is one lemma per step, with one step   *)
(* of its own for every conjunct.  What a run may rely on at a label was   *)
(* established at earlier labels and survives because nothing else moves   *)
(* folders while it runs; what the next run relies on is in PreparedInv,   *)
(* SettledInv and NothingStranded, which no fault can break.               *)
(***************************************************************************)
EXTENDS SkillInstaller, TLAPS

Dir == [Skills -> Trees]

\* What a run knows of its transaction, from the journal and the directories.
LEMMA JournalType ==
  ASSUME InstallerInv, journal # None
  PROVE  /\ Txn \in Installs
         /\ journal.phase \in {"prepared", "committed"}
         /\ journal.skills \in [Skills -> BOOLEAN]
         /\ stage[Txn] \in Dir \cup {None}
         /\ backup[Txn] \in Dir \cup {None}
  BY DEF InstallerInv, TypeOK, Txn, Dir

\* Inside the try block both directories are there.
LEMMA TryType ==
  ASSUME InstallerInv, pc \in TryLabels
  PROVE  /\ journal # None
         /\ Txn \in Installs
         /\ stage[Txn] \in Dir /\ stage[Txn] # None
         /\ backup[Txn] \in Dir /\ backup[Txn] # None
  BY JournalType DEF InstallerInv, TryInv

\* No installation, no journal, no directory.
LEMMA InitInv == Init => InstallerInv
<1> SUFFICES ASSUME Init PROVE InstallerInv
  OBVIOUS
<1> USE DistinctAssumption, BoundsAssumption
    DEF Init, At, Prepared, Committed, EmptyDir, TryLabels, RecoveryLabels, Skills
<1>1. TypeOK
  <2>1. cand \in Packages
    BY DEF Packages
  <2>2. EmptyDir \in [Skills -> Trees]
    BY DEF Trees
  <2>3. 1 \in 1 .. SkillCount + 1 /\ 0 \in 0 .. MaxInstalls /\ 0 \in 0 .. MaxFaults
    OBVIOUS
  <2> QED
    BY <2>1, <2>2, <2>3 DEF TypeOK, Labels, Reports, Installs
<1>2. NothingStranded /\ PreparedInv
  BY DEF NothingStranded, PreparedInv, Installs
<1>3. SettledInv
  BY DEF SettledInv, OnePackage
<1>4. ChecksInv /\ TryInv /\ RecoveryInv
  BY DEF ChecksInv, TryInv, RecoveryInv
<1> QED
  BY <1>1, <1>2, <1>3, <1>4 DEF InstallerInv

\* Another checkout touches nothing the installer has written.
LEMMA CheckoutInv ==
  ASSUME InstallerInv, NEW r \in Roots, NEW v \in Versions, Checkout(r, v)
  PROVE  InstallerInv'
<1> USE DistinctAssumption, BoundsAssumption DEF InstallerInv, TypeOK, Checkout, At, Goto, Txn, Saved, Prepared, Committed, OnePackage, EmptyDir, disk, fixed, Skills, TryLabels, RecoveryLabels
<1>1. TypeOK'
  BY DEF Labels, Reports, Trees, Packages, Installs, Versions
<1>2. NothingStranded'
  BY DEF NothingStranded
<1>3. PreparedInv'
  BY DEF PreparedInv
<1>4. SettledInv'
  BY DEF SettledInv
<1>5. ChecksInv'
  BY DEF ChecksInv
<1>6. TryInv'
  BY DEF TryInv
<1>7. RecoveryInv'
  BY DEF RecoveryInv
<1> QED
  BY <1>1, <1>2, <1>3, <1>4, <1>5, <1>6, <1>7

\* A foreign folder takes the place of any other.
LEMMA EditInv ==
  ASSUME InstallerInv, NEW s \in Skills, Edit(s)
  PROVE  InstallerInv'
<1> USE DistinctAssumption, BoundsAssumption DEF InstallerInv, TypeOK, Edit, At, Goto, Txn, Saved, Prepared, Committed, OnePackage, EmptyDir, disk, fixed, Skills, TryLabels, RecoveryLabels
<1>1. TypeOK'
  BY DEF Labels, Reports, Trees, Packages, Installs, Versions
<1>2. NothingStranded'
  BY DEF NothingStranded
<1>3. PreparedInv'
  BY DEF PreparedInv
<1>4. SettledInv'
  BY DEF SettledInv
<1>5. ChecksInv'
  BY DEF ChecksInv
<1>6. TryInv'
  BY DEF TryInv
<1>7. RecoveryInv'
  BY DEF RecoveryInv
<1> QED
  BY <1>1, <1>2, <1>3, <1>4, <1>5, <1>6, <1>7

\* A run begins with the recovery.
LEMMA StartInv ==
  ASSUME InstallerInv, NEW r \in Roots, NEW mayReplace \in BOOLEAN, Start(r, mayReplace)
  PROVE  InstallerInv'
<1> USE DistinctAssumption, BoundsAssumption DEF InstallerInv, TypeOK, Start, At, Goto, Txn, Saved, Prepared, Committed, OnePackage, EmptyDir, disk, fixed, Skills, TryLabels, RecoveryLabels, Candidate
<1>1. TypeOK'
  BY DEF Labels, Reports, Trees, Packages, Installs, Versions
<1>2. NothingStranded'
  BY DEF NothingStranded
<1>3. PreparedInv'
  BY DEF PreparedInv
<1>4. SettledInv'
  BY DEF SettledInv
<1>5. ChecksInv'
  BY DEF ChecksInv
<1>6. TryInv'
  BY DEF TryInv
<1>7. RecoveryInv'
  BY DEF RecoveryInv
<1> QED
  BY <1>1, <1>2, <1>3, <1>4, <1>5, <1>6, <1>7

\* Without a journal there is nothing to recover.
LEMMA RecoverNothingInv ==
  ASSUME InstallerInv, RecoverNothing
  PROVE  InstallerInv'
<1> USE DistinctAssumption, BoundsAssumption DEF InstallerInv, TypeOK, RecoverNothing, At, Goto, Txn, Saved, Prepared, Committed, OnePackage, EmptyDir, disk, fixed, Skills, TryLabels, RecoveryLabels, Continue
<1>1. TypeOK'
  BY DEF Labels, Reports, Trees, Packages, Installs, Versions
<1>2. NothingStranded'
  BY DEF NothingStranded
<1>3. PreparedInv'
  BY DEF PreparedInv
<1>4. SettledInv'
  BY DEF SettledInv
<1>5. ChecksInv'
  BY DEF ChecksInv
<1>6. TryInv'
  BY DEF TryInv
<1>7. RecoveryInv'
  BY DEF RecoveryInv
<1> QED
  BY <1>1, <1>2, <1>3, <1>4, <1>5, <1>6, <1>7

\* A committed transaction is only cleaned up.
LEMMA RecoverCommittedInv ==
  ASSUME InstallerInv, RecoverCommitted
  PROVE  InstallerInv'
<1> USE DistinctAssumption, BoundsAssumption DEF InstallerInv, TypeOK, RecoverCommitted, At, Goto, Txn, Saved, Prepared, Committed, OnePackage, EmptyDir, disk, fixed, Skills, TryLabels, RecoveryLabels, Stop
<1>1. TypeOK'
  BY DEF Labels, Reports, Trees, Packages, Installs, Versions
<1>2. NothingStranded'
  BY DEF NothingStranded
<1>3. PreparedInv'
  BY DEF PreparedInv
<1>4. SettledInv'
  BY DEF SettledInv
<1>5. ChecksInv'
  BY DEF ChecksInv
<1>6. TryInv'
  BY DEF TryInv
<1>7. RecoveryInv'
  BY DEF RecoveryInv
<1> QED
  BY <1>1, <1>2, <1>3, <1>4, <1>5, <1>6, <1>7

\* A prepared one is undone skill by skill.
LEMMA RecoverPreparedInv ==
  ASSUME InstallerInv, RecoverPrepared
  PROVE  InstallerInv'
<1> USE DistinctAssumption, BoundsAssumption DEF InstallerInv, TypeOK, RecoverPrepared, At, Goto, Txn, Saved, Prepared, Committed, OnePackage, EmptyDir, disk, fixed, Skills, TryLabels, RecoveryLabels
<1>1. TypeOK'
  BY DEF Labels, Reports, Trees, Packages, Installs, Versions
<1>2. NothingStranded'
  BY DEF NothingStranded
<1>3. PreparedInv'
  BY DEF PreparedInv
<1>4. SettledInv'
  BY DEF SettledInv
<1>5. ChecksInv'
  BY DEF ChecksInv
<1>6. TryInv'
  BY DEF TryInv
<1>7. RecoveryInv'
  BY DEF RecoveryInv
<1> QED
  BY <1>1, <1>2, <1>3, <1>4, <1>5, <1>6, <1>7

\* A refusal changes no file.
LEMMA RestoreRefusedInv ==
  ASSUME InstallerInv, RestoreRefused
  PROVE  InstallerInv'
<1> USE DistinctAssumption, BoundsAssumption DEF InstallerInv, TypeOK, RestoreRefused, At, Goto, Txn, Saved, Prepared, Committed, OnePackage, EmptyDir, disk, fixed, Skills, TryLabels, RecoveryLabels, Stop
<1>1. TypeOK'
  BY DEF Labels, Reports, Trees, Packages, Installs, Versions
<1>2. NothingStranded'
  BY DEF NothingStranded
<1>3. PreparedInv'
  BY DEF PreparedInv
<1>4. SettledInv'
  BY DEF SettledInv
<1>5. ChecksInv'
  BY DEF ChecksInv
<1>6. TryInv'
  BY DEF TryInv
<1>7. RecoveryInv'
  BY DEF RecoveryInv
<1> QED
  BY <1>1, <1>2, <1>3, <1>4, <1>5, <1>6, <1>7

\* A skill that never left its place.
LEMMA RestoreKeptInv ==
  ASSUME InstallerInv, RestoreKept
  PROVE  InstallerInv'
<1> USE DistinctAssumption, BoundsAssumption DEF InstallerInv, TypeOK, RestoreKept, At, Goto, Txn, Saved, Prepared, Committed, OnePackage, EmptyDir, disk, fixed, Skills, TryLabels, RecoveryLabels
<1>a. Prepared /\ dest[i] = prior[i] /\ ~Saved(i)
  BY DEF PreparedInv, RecoveryInv, Restorable
<1>1. TypeOK'
  BY DEF Labels, Reports, Trees, Packages, Installs, Versions
<1>2. NothingStranded'
  BY DEF NothingStranded
<1>3. PreparedInv'
  BY DEF PreparedInv
<1>4. SettledInv'
  BY DEF SettledInv
<1>5. ChecksInv'
  BY DEF ChecksInv
<1>6. TryInv'
  BY DEF TryInv
<1>7. RecoveryInv'
  BY <1>a DEF RecoveryInv
<1> QED
  BY <1>1, <1>2, <1>3, <1>4, <1>5, <1>6, <1>7

\* The folder in the way is the installer's own.
LEMMA RemoveNewInv ==
  ASSUME InstallerInv, RemoveNew
  PROVE  InstallerInv'
<1> USE DistinctAssumption, BoundsAssumption DEF InstallerInv, TypeOK, RemoveNew, At, Goto, Txn, Saved, Prepared, Committed, OnePackage, EmptyDir, disk, fixed, Skills, TryLabels, RecoveryLabels, Restorable
<1>1. TypeOK'
  BY DEF Labels, Reports, Trees, Packages, Installs, Versions
<1>2. NothingStranded'
  BY DEF NothingStranded
<1>3. PreparedInv'
  BY DEF PreparedInv
<1>4. SettledInv'
  BY DEF SettledInv, RecoveryInv
<1>5. ChecksInv'
  BY DEF ChecksInv
<1>6. TryInv'
  BY DEF TryInv
<1>7. RecoveryInv'
  BY DEF RecoveryInv
<1> QED
  BY <1>1, <1>2, <1>3, <1>4, <1>5, <1>6, <1>7

\* Then its place is empty.
LEMMA RemovedInv ==
  ASSUME InstallerInv, Removed
  PROVE  InstallerInv'
<1> USE DistinctAssumption, BoundsAssumption DEF InstallerInv, TypeOK, Removed, At, Goto, Txn, Saved, Prepared, Committed, OnePackage, EmptyDir, disk, fixed, Skills, TryLabels, RecoveryLabels
<1>1. TypeOK'
  BY DEF Labels, Reports, Trees, Packages, Installs, Versions
<1>2. NothingStranded'
  BY DEF NothingStranded
<1>3. PreparedInv'
  BY DEF PreparedInv, RecoveryInv
<1>4. SettledInv'
  BY DEF SettledInv, RecoveryInv
<1>5. ChecksInv'
  BY DEF ChecksInv
<1>6. TryInv'
  BY DEF TryInv
<1>7. RecoveryInv'
  BY DEF RecoveryInv
<1> QED
  BY <1>1, <1>2, <1>3, <1>4, <1>5, <1>6, <1>7

\* The backup returns to its place.
LEMMA PutBackInv ==
  ASSUME InstallerInv, PutBack
  PROVE  InstallerInv'
<1> USE DistinctAssumption, BoundsAssumption DEF InstallerInv, TypeOK, PutBack, At, Goto, Txn, Saved, Prepared, Committed, OnePackage, EmptyDir, disk, fixed, Skills, TryLabels, RecoveryLabels
<1>a. stage \in [Installs -> Dir \cup {None}] /\ backup \in [Installs -> Dir \cup {None}]
  BY DEF Dir
<1>b. Prepared /\ Txn \in Installs /\ backup[Txn] # None
  BY JournalType DEF RecoveryInv
<1>c. prior[i] \in Packages /\ backup[Txn][i] = prior[i]
  BY <1>b DEF PreparedInv
<1>d. /\ backup' \in [Installs -> Dir \cup {None}]
      /\ backup'[Txn] # None /\ backup'[Txn][i] = Absent
      /\ \A u \in Skills : u # i => backup'[Txn][u] = backup[Txn][u]
      /\ \A t \in Installs : t # Txn => backup'[t] = backup[t]
  <2> DEFINE new == [backup[Txn] EXCEPT ![i] = Absent]
  <2>1. backup[Txn] \in Dir /\ Absent \in Trees
    BY <1>a, <1>b DEF Dir, Trees
  <2>2. /\ new \in Dir /\ new[i] = Absent
        /\ \A u \in Skills : u # i => new[u] = backup[Txn][u]
    BY <1>a, <1>b, <2>1 DEF Dir
  <2>3. new # None
    BY <2>2 DEF Dir, Trees
  <2>4. backup' = [backup EXCEPT ![Txn] = new]
    BY <1>a, <1>b
  <2> HIDE DEF new
  <2> QED
    BY <1>a, <1>b, <2>2, <2>3, <2>4
<1>e. dest' \in [Skills -> Trees] /\ dest'[i] = prior[i]
      /\ \A u \in Skills : u # i => dest'[u] = dest[u]
  BY <1>c DEF Trees
<1>1. TypeOK'
  BY <1>d, <1>e DEF Dir, Labels
<1>2. NothingStranded'
  BY <1>d DEF NothingStranded
<1>3. PreparedInv'
  BY <1>b, <1>d, <1>e DEF PreparedInv
<1>4. SettledInv'
  BY <1>b DEF SettledInv
<1>5. ChecksInv'
  BY DEF ChecksInv
<1>6. TryInv'
  BY DEF TryInv
<1>7. RecoveryInv'
  BY <1>b, <1>d, <1>e DEF RecoveryInv
<1> QED
  BY <1>1, <1>2, <1>3, <1>4, <1>5, <1>6, <1>7

\* After the last skill everything is as before.
LEMMA RestoredInv ==
  ASSUME InstallerInv, Restored
  PROVE  InstallerInv'
<1> USE DistinctAssumption, BoundsAssumption DEF InstallerInv, TypeOK, Restored, At, Goto, Txn, Saved, Prepared, Committed, OnePackage, EmptyDir, disk, fixed, Skills, TryLabels, RecoveryLabels
<1>1. TypeOK'
  BY DEF Labels, Reports, Trees, Packages, Installs, Versions
<1>2. NothingStranded'
  BY DEF NothingStranded
<1>3. PreparedInv'
  BY DEF PreparedInv
<1>4. SettledInv'
  BY DEF SettledInv
<1>5. ChecksInv'
  BY DEF ChecksInv
<1>6. TryInv'
  BY DEF TryInv
<1>7. RecoveryInv'
  BY DEF RecoveryInv
<1> QED
  BY <1>1, <1>2, <1>3, <1>4, <1>5, <1>6, <1>7

\* The stage goes first.
LEMMA DropStageInv ==
  ASSUME InstallerInv, DropStage
  PROVE  InstallerInv'
<1> USE DistinctAssumption, BoundsAssumption DEF InstallerInv, TypeOK, DropStage, At, Goto, Txn, Saved, Prepared, Committed, OnePackage, EmptyDir, disk, fixed, Skills, TryLabels, RecoveryLabels
<1>1. TypeOK'
  BY DEF Labels, Reports, Trees, Packages, Installs, Versions
<1>2. NothingStranded'
  BY DEF NothingStranded
<1>3. PreparedInv'
  BY DEF PreparedInv
<1>4. SettledInv'
  BY DEF SettledInv
<1>5. ChecksInv'
  BY DEF ChecksInv
<1>6. TryInv'
  BY DEF TryInv
<1>7. RecoveryInv'
  BY DEF RecoveryInv
<1> QED
  BY <1>1, <1>2, <1>3, <1>4, <1>5, <1>6, <1>7

\* The backup is empty, or its transaction committed.
LEMMA DropBackupInv ==
  ASSUME InstallerInv, DropBackup
  PROVE  InstallerInv'
<1> USE DistinctAssumption, BoundsAssumption DEF InstallerInv, TypeOK, DropBackup, At, Goto, Txn, Saved, Prepared, Committed, OnePackage, EmptyDir, disk, fixed, Skills, TryLabels, RecoveryLabels
<1>1. TypeOK'
  BY DEF Labels, Reports, Trees, Packages, Installs, Versions
<1>2. NothingStranded'
  BY DEF NothingStranded
<1>3. PreparedInv'
  BY DEF PreparedInv, RecoveryInv
<1>4. SettledInv'
  BY DEF SettledInv
<1>5. ChecksInv'
  BY DEF ChecksInv
<1>6. TryInv'
  BY DEF TryInv
<1>7. RecoveryInv'
  BY DEF RecoveryInv
<1> QED
  BY <1>1, <1>2, <1>3, <1>4, <1>5, <1>6, <1>7

\* Without the two directories the journal may go.
LEMMA DropJournalInv ==
  ASSUME InstallerInv, DropJournal
  PROVE  InstallerInv'
<1> USE DistinctAssumption, BoundsAssumption DEF InstallerInv, TypeOK, DropJournal, At, Goto, Txn, Saved, Prepared, Committed, OnePackage, EmptyDir, disk, fixed, Skills, TryLabels, RecoveryLabels, Continue
<1>a. journal # None /\ stage[Txn] = None /\ backup[Txn] = None
  BY DEF RecoveryInv
<1>1. TypeOK'
  BY DEF Labels, Reports, Trees, Packages, Installs, Versions
<1>2. NothingStranded'
  BY <1>a DEF NothingStranded
<1>3. PreparedInv'
  BY DEF PreparedInv
<1>4. SettledInv'
  <2>1. CASE Prepared
    BY <2>1 DEF SettledInv, RecoveryInv, PreparedInv
  <2>2. CASE Committed
    BY <2>2 DEF SettledInv
  <2> QED
    BY <1>a, <2>1, <2>2, JournalType
<1>5. ChecksInv'
  BY DEF ChecksInv
<1>6. TryInv'
  BY DEF TryInv
<1>7. RecoveryInv'
  BY DEF RecoveryInv
<1> QED
  BY <1>1, <1>2, <1>3, <1>4, <1>5, <1>6, <1>7

\* A directory removed in part is removed by the next run.
LEMMA DieDroppingInv ==
  ASSUME InstallerInv, DieDropping
  PROVE  InstallerInv'
<1> USE DistinctAssumption, BoundsAssumption DEF InstallerInv, TypeOK, DieDropping, At, Goto, Txn, Saved, Prepared, Committed, OnePackage, EmptyDir, disk, fixed, Skills, TryLabels, RecoveryLabels, Stop, Remains
<1>a. stage \in [Installs -> Dir \cup {None}] /\ backup \in [Installs -> Dir \cup {None}]
  BY DEF Dir
<1>b. journal # None /\ Txn \in Installs
  BY JournalType DEF RecoveryInv
<1>c. /\ stage' \in [Installs -> Dir \cup {None}] /\ backup' \in [Installs -> Dir \cup {None}]
      /\ \A t \in Installs : t # Txn => stage'[t] = stage[t] /\ backup'[t] = backup[t]
  BY <1>a, <1>b DEF Dir
<1>d. Prepared => \A s \in Skills : ~Saved(s)'
  <2> SUFFICES ASSUME Prepared PROVE \A s \in Skills : ~Saved(s)'
    OBVIOUS
  <2>1. \A s \in Skills : ~Saved(s) /\ dest[s] = prior[s]
    BY DEF RecoveryInv
  <2>2. \A s \in Skills : ~Saved(s)'
    <3>1. CASE At("dropBackup")
      <4>1. PICK d \in Remains(backup[Txn]) : backup' = [backup EXCEPT ![Txn] = d]
        BY <3>1
      <4>2. \A s \in Skills : d[s] = Absent
        BY <2>1, <3>1, <4>1
      <4> QED
        BY <1>a, <1>b, <4>1, <4>2
    <3>2. CASE At("dropStage")
      BY <2>1, <3>2
    <3> QED
      BY <3>1, <3>2
  <2> QED
    BY <2>1, <2>2
<1>1. TypeOK'
  BY <1>c DEF Dir, Labels, Reports
<1>2. NothingStranded'
  BY <1>b, <1>c DEF NothingStranded
<1>3. PreparedInv'
  <2>1. CASE Prepared
    <3>1. \A s \in Skills : ~Saved(s) /\ dest[s] = prior[s]
      BY <2>1 DEF RecoveryInv
    <3>2. \A s \in Skills : ~Saved(s)'
      BY <1>d, <2>1
    <3> QED
      BY <2>1, <3>1, <3>2 DEF PreparedInv
  <2>2. CASE ~Prepared
    BY <2>2 DEF PreparedInv
  <2> QED
    BY <2>1, <2>2
<1>4. SettledInv'
  BY DEF SettledInv
<1>5. ChecksInv'
  BY DEF ChecksInv
<1>6. TryInv'
  BY DEF TryInv
<1>7. RecoveryInv'
  BY DEF RecoveryInv
<1> QED
  BY <1>1, <1>2, <1>3, <1>4, <1>5, <1>6, <1>7

\* The checks see a settled installation.
LEMMA CheckInv ==
  ASSUME InstallerInv, Check
  PROVE  InstallerInv'
<1> USE DistinctAssumption, BoundsAssumption DEF InstallerInv, TypeOK, Check, At, Goto, Txn, Saved, Prepared, Committed, OnePackage, EmptyDir, disk, fixed, Skills, TryLabels, RecoveryLabels, Stop
<1>1. TypeOK'
  BY DEF Labels, Reports, Trees, Packages, Installs, Versions
<1>2. NothingStranded'
  BY DEF NothingStranded
<1>3. PreparedInv'
  BY DEF PreparedInv
<1>4. SettledInv'
  BY DEF SettledInv
<1>5. ChecksInv'
  BY DEF ChecksInv, Accepts, Existing
<1>6. TryInv'
  BY DEF TryInv
<1>7. RecoveryInv'
  BY DEF RecoveryInv
<1> QED
  BY <1>1, <1>2, <1>3, <1>4, <1>5, <1>6, <1>7

\* The first of two empty directories.
LEMMA MakeStageInv ==
  ASSUME InstallerInv, MakeStage
  PROVE  InstallerInv'
<1> USE DistinctAssumption, BoundsAssumption DEF InstallerInv, TypeOK, MakeStage, At, Goto, Txn, Saved, Prepared, Committed, OnePackage, EmptyDir, disk, fixed, Skills, TryLabels, RecoveryLabels
<1>a. EmptyDir \in [Skills -> Trees]
  BY DEF Trees
<1>b. installs < MaxInstalls
  BY DEF ChecksInv
<1>c. installs' \in Installs /\ stage' \in [Installs -> [Skills -> Trees] \cup {None}]
  BY <1>a, <1>b DEF Installs
<1>1. TypeOK'
  <2>1. installs' \in 0 .. MaxInstalls
    BY <1>c DEF Installs
  <2> QED
    BY <1>c, <2>1 DEF Labels
<1>2. NothingStranded'
  BY DEF NothingStranded
<1>3. PreparedInv'
  BY DEF PreparedInv, ChecksInv
<1>4. SettledInv'
  BY DEF SettledInv
<1>5. ChecksInv'
  BY <1>c DEF ChecksInv, Accepts, Existing
<1>6. TryInv'
  BY DEF TryInv
<1>7. RecoveryInv'
  BY DEF RecoveryInv
<1> QED
  BY <1>1, <1>2, <1>3, <1>4, <1>5, <1>6, <1>7

\* The second one.
LEMMA MakeBackupInv ==
  ASSUME InstallerInv, MakeBackup
  PROVE  InstallerInv'
<1> USE DistinctAssumption, BoundsAssumption DEF InstallerInv, TypeOK, MakeBackup, At, Goto, Txn, Saved, Prepared, Committed, OnePackage, EmptyDir, disk, fixed, Skills, TryLabels, RecoveryLabels
<1>1. TypeOK'
  BY DEF Labels, Reports, Trees, Packages, Installs, Versions
<1>2. NothingStranded'
  BY DEF NothingStranded
<1>3. PreparedInv'
  BY DEF PreparedInv, ChecksInv
<1>4. SettledInv'
  BY DEF SettledInv
<1>5. ChecksInv'
  BY DEF ChecksInv, Accepts, Existing
<1>6. TryInv'
  BY DEF TryInv
<1>7. RecoveryInv'
  BY DEF RecoveryInv
<1> QED
  BY <1>1, <1>2, <1>3, <1>4, <1>5, <1>6, <1>7

\* The journal knows which skills there were.
LEMMA PrepareInv ==
  ASSUME InstallerInv, Prepare
  PROVE  InstallerInv'
<1> USE DistinctAssumption, BoundsAssumption DEF InstallerInv, TypeOK, Prepare, At, Goto, Txn, Saved, Prepared, Committed, OnePackage, EmptyDir, disk, fixed, Skills, TryLabels, RecoveryLabels
<1>s. journal = None /\ Accepts(cand, replace)
  BY DEF ChecksInv
<1>t. /\ \A s \in Skills : dest[s] \in Packages \cup {Absent} /\ dest[s] = dest[1]
      /\ \A s \in Skills : dest[s] # Absent => /\ dest[s].root = cand.root
                                               /\ dest[s].version <= cand.version
  <2>1. PICK p \in Packages \cup {Absent} : \A s \in Skills : dest[s] \in {p, Foreign}
    BY <1>s DEF SettledInv
  <2>2. \A s \in Skills : dest[s] # Absent => /\ dest[s] \in Packages /\ dest[s].root = cand.root
                                               /\ dest[s].version <= cand.version
    BY <1>s DEF Accepts, Existing
  <2>3. \A s \in Skills : dest[s] = p
    BY <2>1, <2>2
  <2>4. 1 \in Skills
    OBVIOUS
  <2> HIDE DEF Prepare, At, Goto, EmptyDir, Skills
  <2> QED
    BY <2>2, <2>3, <2>4
<1>a. prior = dest /\ installs \in Installs /\ stage[installs] = EmptyDir /\ backup[installs] = EmptyDir
  BY DEF ChecksInv
<1>b. /\ journal' \in [phase : {"prepared", "committed"}, transaction : Installs,
                       skills : [Skills -> BOOLEAN]]
      /\ journal' # None /\ journal'.phase = "prepared" /\ journal'.transaction = installs
      /\ \A s \in Skills : journal'.skills[s] <=> dest[s] # Absent
  <2>1. [s \in Skills |-> dest[s] # Absent] \in [Skills -> BOOLEAN]
    OBVIOUS
  <2>2. journal' \in [phase : {"prepared", "committed"}, transaction : Installs,
                      skills : [Skills -> BOOLEAN]]
    BY <1>a, <2>1
  <2>3. journal' # None
    BY <2>2
  <2> QED
    BY <2>2, <2>3
<1>c. EmptyDir \in [Skills -> Trees] /\ EmptyDir # None
  <2>1. EmptyDir \in [Skills -> Trees]
    BY DEF Trees
  <2> QED
    BY <2>1 DEF Trees
<1>d. \A s \in Skills : ~Saved(s)'
  BY <1>a, <1>b
<1>1. TypeOK'
  BY <1>b DEF Labels
<1>2. NothingStranded'
  BY <1>s, <1>a, <1>b DEF NothingStranded
<1>3. PreparedInv'
  BY <1>t, <1>a, <1>b, <1>d DEF PreparedInv
<1>4. SettledInv'
  BY <1>b DEF SettledInv
<1>5. ChecksInv'
  BY DEF ChecksInv
<1>6. TryInv'
  BY <1>t, <1>a, <1>b, <1>c DEF TryInv
<1>7. RecoveryInv'
  BY DEF RecoveryInv
<1> QED
  BY <1>1, <1>2, <1>3, <1>4, <1>5, <1>6, <1>7

\* A folder begins in the stage.
LEMMA StageBeginsInv ==
  ASSUME InstallerInv, StageBegins
  PROVE  InstallerInv'
<1> USE DistinctAssumption, BoundsAssumption DEF InstallerInv, TypeOK, StageBegins, At, Goto, Txn, Saved, Prepared, Committed, OnePackage, EmptyDir, disk, fixed, Skills, TryLabels, RecoveryLabels
<1>a. stage \in [Installs -> Dir \cup {None}] /\ backup \in [Installs -> Dir \cup {None}]
  BY DEF Dir
<1>b. /\ Txn \in Installs /\ journal # None /\ i \in Skills /\ stage[Txn] # None
  BY TryType DEF TryInv
<1>d. /\ stage' \in [Installs -> Dir \cup {None}]
      /\ stage'[Txn] # None /\ stage'[Txn][i] = Broken
      /\ \A u \in Skills : u # i => stage'[Txn][u] = stage[Txn][u]
      /\ \A t \in Installs : t # Txn => stage'[t] = stage[t]
  <2> DEFINE new == [stage[Txn] EXCEPT ![i] = Broken]
  <2>1. stage[Txn] \in Dir /\ Broken \in Trees
    BY <1>a, <1>b DEF Dir, Trees
  <2>2. /\ new \in Dir /\ new[i] = Broken
        /\ \A u \in Skills : u # i => new[u] = stage[Txn][u]
    BY <1>a, <1>b, <2>1 DEF Dir
  <2>3. new # None
    BY <2>2 DEF Dir, Trees
  <2>4. stage' = [stage EXCEPT ![Txn] = new]
    BY <1>a, <1>b
  <2> HIDE DEF new
  <2> QED
    BY <1>a, <1>b, <2>2, <2>3, <2>4
<1>1. TypeOK'
  BY <1>d DEF Dir, Labels
<1>2. NothingStranded'
  BY <1>b, <1>d DEF NothingStranded
<1>3. PreparedInv'
  BY DEF PreparedInv
<1>4. SettledInv'
  BY DEF SettledInv
<1>5. ChecksInv'
  BY DEF ChecksInv
<1>6. TryInv'
  <2>1. /\ dest = prior /\ backup[Txn] = EmptyDir /\ backup[Txn] # None /\ journal.phase = "prepared"
        /\ \A s \in Skills : s < i => stage[Txn][s] = cand
        /\ \A s \in Skills : prior[s] # Absent => prior[s].root = cand.root
                                                  /\ prior[s].version <= cand.version
    BY DEF TryInv
  <2>2. \A s \in Skills : s < i => stage'[Txn][s] = cand
    BY <1>b, <1>d, <2>1
  <2>3. UNCHANGED <<dest, prior, backup, journal, cand, i>> /\ pc' = "staging"
    OBVIOUS
  <2> HIDE DEF StageBegins, Skills, EmptyDir
  <2> QED
    BY <1>b, <1>d, <2>1, <2>2, <2>3 DEF TryInv
<1>7. RecoveryInv'
  BY DEF RecoveryInv
<1> QED
  BY <1>1, <1>2, <1>3, <1>4, <1>5, <1>6, <1>7

\* It is complete.
LEMMA StageEndsInv ==
  ASSUME InstallerInv, StageEnds
  PROVE  InstallerInv'
<1> USE DistinctAssumption, BoundsAssumption DEF InstallerInv, TypeOK, StageEnds, At, Goto, Txn, Saved, Prepared, Committed, OnePackage, EmptyDir, disk, fixed, Skills, TryLabels, RecoveryLabels
<1>a. stage \in [Installs -> Dir \cup {None}] /\ backup \in [Installs -> Dir \cup {None}]
  BY DEF Dir
<1>b. /\ Txn \in Installs /\ journal # None /\ i \in Skills /\ stage[Txn] # None
  BY TryType DEF TryInv
<1>d. /\ stage' \in [Installs -> Dir \cup {None}]
      /\ stage'[Txn] # None /\ stage'[Txn][i] = cand
      /\ \A u \in Skills : u # i => stage'[Txn][u] = stage[Txn][u]
      /\ \A t \in Installs : t # Txn => stage'[t] = stage[t]
  <2> DEFINE new == [stage[Txn] EXCEPT ![i] = cand]
  <2>1. stage[Txn] \in Dir /\ cand \in Trees
    BY <1>a, <1>b DEF Dir, Trees
  <2>2. /\ new \in Dir /\ new[i] = cand
        /\ \A u \in Skills : u # i => new[u] = stage[Txn][u]
    BY <1>a, <1>b, <2>1 DEF Dir
  <2>3. new # None
    BY <2>2 DEF Dir, Trees
  <2>4. stage' = [stage EXCEPT ![Txn] = new]
    BY <1>a, <1>b
  <2> HIDE DEF new
  <2> QED
    BY <1>a, <1>b, <2>2, <2>3, <2>4
<1>1. TypeOK'
  BY <1>b, <1>d DEF Dir, Labels
<1>2. NothingStranded'
  BY <1>b, <1>d DEF NothingStranded
<1>3. PreparedInv'
  BY DEF PreparedInv
<1>4. SettledInv'
  BY DEF SettledInv
<1>5. ChecksInv'
  BY DEF ChecksInv
<1>6. TryInv'
  BY <1>b, <1>d DEF TryInv
<1>7. RecoveryInv'
  BY DEF RecoveryInv
<1> QED
  BY <1>1, <1>2, <1>3, <1>4, <1>5, <1>6, <1>7

\* All of them are.
LEMMA StagedInv ==
  ASSUME InstallerInv, Staged
  PROVE  InstallerInv'
<1> USE DistinctAssumption, BoundsAssumption DEF InstallerInv, TypeOK, Staged, At, Goto, Txn, Saved, Prepared, Committed, OnePackage, EmptyDir, disk, fixed, Skills, TryLabels, RecoveryLabels
<1>1. TypeOK'
  BY DEF Labels, Reports, Trees, Packages, Installs, Versions
<1>2. NothingStranded'
  BY DEF NothingStranded
<1>3. PreparedInv'
  BY DEF PreparedInv
<1>4. SettledInv'
  BY DEF SettledInv
<1>5. ChecksInv'
  BY DEF ChecksInv
<1>6. TryInv'
  BY DEF TryInv
<1>7. RecoveryInv'
  BY DEF RecoveryInv
<1> QED
  BY <1>1, <1>2, <1>3, <1>4, <1>5, <1>6, <1>7

\* An old skill moves into the backup.
LEMMA BackUpInv ==
  ASSUME InstallerInv, BackUp
  PROVE  InstallerInv'
<1> USE DistinctAssumption, BoundsAssumption DEF InstallerInv, TypeOK, BackUp, At, Goto, Txn, Saved, Prepared, Committed, OnePackage, EmptyDir, disk, fixed, Skills, TryLabels, RecoveryLabels
<1>a. stage \in [Installs -> Dir \cup {None}] /\ backup \in [Installs -> Dir \cup {None}]
  BY DEF Dir
<1>p. Prepared /\ Txn \in Installs /\ stage[Txn] # None /\ backup[Txn] # None
  BY TryType DEF TryInv
<1>q. \A s \in Skills : prior[s] \in Packages \cup {Absent}
  BY <1>p DEF PreparedInv
<1>c. dest[i] = prior[i]
  BY DEF TryInv
<1>d. /\ dest' \in [Skills -> Trees] /\ dest'[i] = Absent
      /\ \A u \in Skills : u # i => dest'[u] = dest[u]
  BY DEF Trees
<1>e. /\ backup' \in [Installs -> Dir \cup {None}]
      /\ backup'[Txn] # None
      /\ prior[i] # Absent => backup'[Txn][i] = prior[i]
      /\ prior[i] = Absent => backup'[Txn][i] = backup[Txn][i]
      /\ \A u \in Skills : u # i => backup'[Txn][u] = backup[Txn][u]
      /\ \A t \in Installs : t # Txn => backup'[t] = backup[t]
  <2>1. CASE prior[i] = Absent
    BY <1>a, <1>p, <1>c, <2>1
  <2>2. CASE prior[i] # Absent
    <3> DEFINE new == [backup[Txn] EXCEPT ![i] = dest[i]]
    <3>1. backup[Txn] \in Dir /\ dest[i] \in Trees
      BY <1>a, <1>p, <1>c, <2>2 DEF Dir, Trees
    <3>2. /\ new \in Dir /\ new[i] = dest[i]
          /\ \A u \in Skills : u # i => new[u] = backup[Txn][u]
      BY <1>a, <1>p, <1>c, <2>2, <3>1 DEF Dir
    <3>3. new # None
      BY <3>2 DEF Dir, Trees
    <3>4. backup' = [backup EXCEPT ![Txn] = new]
      BY <1>a, <1>p, <1>c, <2>2
    <3> HIDE DEF new
    <3> QED
      BY <1>a, <1>p, <1>c, <2>2, <3>2, <3>3, <3>4
  <2> QED
    BY <2>1, <2>2
<1>1. TypeOK'
  BY <1>d, <1>e DEF Dir, Labels
<1>2. NothingStranded'
  BY <1>p, <1>e DEF NothingStranded
<1>3. PreparedInv'
  BY <1>p, <1>c, <1>d, <1>e DEF PreparedInv
<1>4. SettledInv'
  BY <1>p DEF SettledInv
<1>5. ChecksInv'
  BY DEF ChecksInv
<1>6. TryInv'
  BY <1>p, <1>c, <1>d, <1>e DEF TryInv
<1>7. RecoveryInv'
  BY DEF RecoveryInv
<1> QED
  BY <1>1, <1>2, <1>3, <1>4, <1>5, <1>6, <1>7

\* A staged skill moves into its place.
LEMMA PromoteInv ==
  ASSUME InstallerInv, Promote
  PROVE  InstallerInv'
<1> USE DistinctAssumption, BoundsAssumption DEF InstallerInv, TypeOK, Promote, At, Goto, Txn, Saved, Prepared, Committed, OnePackage, EmptyDir, disk, fixed, Skills, TryLabels, RecoveryLabels
<1>a. stage \in [Installs -> Dir \cup {None}] /\ backup \in [Installs -> Dir \cup {None}]
  BY DEF Dir
<1>p. Prepared /\ Txn \in Installs /\ stage[Txn] # None /\ backup[Txn] # None
  BY TryType DEF TryInv
<1>q. \A s \in Skills : prior[s] \in Packages \cup {Absent}
  BY <1>p DEF PreparedInv
<1>b. i \in Skills /\ stage[Txn][i] = cand /\ dest[i] = Absent
  BY DEF TryInv
<1>c. prior[i] # Absent => backup[Txn][i] = prior[i]
  BY <1>p, <1>b, <1>q DEF PreparedInv
<1>d. /\ dest' \in [Skills -> Trees] /\ dest'[i] = cand
      /\ \A u \in Skills : u # i => dest'[u] = dest[u]
  BY <1>b DEF Trees
<1>e. /\ stage' \in [Installs -> Dir \cup {None}]
      /\ stage'[Txn] # None
      /\ \A u \in Skills : u # i => stage'[Txn][u] = stage[Txn][u]
      /\ \A t \in Installs : t # Txn => stage'[t] = stage[t]
  <2> DEFINE new == [stage[Txn] EXCEPT ![i] = Absent]
  <2>1. stage[Txn] \in Dir /\ Absent \in Trees
    BY <1>a, <1>p, <1>b DEF Dir, Trees
  <2>2. /\ new \in Dir /\ new[i] = Absent
        /\ \A u \in Skills : u # i => new[u] = stage[Txn][u]
    BY <1>a, <1>p, <1>b, <2>1 DEF Dir
  <2>3. new # None
    BY <2>2 DEF Dir, Trees
  <2>4. stage' = [stage EXCEPT ![Txn] = new]
    BY <1>a, <1>p, <1>b
  <2> HIDE DEF new
  <2> QED
    BY <1>a, <1>p, <1>b, <2>2, <2>3, <2>4
<1>1. TypeOK'
  BY <1>b, <1>d, <1>e DEF Dir, Labels
<1>2. NothingStranded'
  BY <1>p, <1>e DEF NothingStranded
<1>3. PreparedInv'
  BY <1>p, <1>b, <1>c, <1>d DEF PreparedInv
<1>4. SettledInv'
  BY <1>p DEF SettledInv
<1>5. ChecksInv'
  BY DEF ChecksInv
<1>6. TryInv'
  <2>1. /\ journal.phase = "prepared"
        /\ \A s \in Skills : /\ s < i => dest[s] = cand
                             /\ s > i => stage[Txn][s] = cand /\ dest[s] = prior[s]
        /\ \A s \in Skills : prior[s] # Absent => prior[s].root = cand.root
                                                  /\ prior[s].version <= cand.version
    BY DEF TryInv
  <2>2. \A s \in Skills : /\ s < i' => dest'[s] = cand
                          /\ s >= i' => stage'[Txn][s] = cand /\ dest'[s] = prior[s]
    BY <1>b, <1>d, <1>e, <2>1
  <2>3. UNCHANGED <<prior, backup, journal, cand>> /\ pc' = "backUp"
    OBVIOUS
  <2>4. \A s \in Skills : s > i' \/ (s = i' /\ At("backUp")') => s >= i'
    OBVIOUS
  <2> HIDE DEF Promote, Skills, EmptyDir
  <2> QED
    BY <1>p, <1>e, <2>1, <2>2, <2>3, <2>4 DEF TryInv
<1>7. RecoveryInv'
  BY DEF RecoveryInv
<1> QED
  BY <1>1, <1>2, <1>3, <1>4, <1>5, <1>6, <1>7

\* Every skill is the candidate's.
LEMMA ValidateInv ==
  ASSUME InstallerInv, Validate
  PROVE  InstallerInv'
<1> USE DistinctAssumption, BoundsAssumption DEF InstallerInv, TypeOK, Validate, At, Goto, Txn, Saved, Prepared, Committed, OnePackage, EmptyDir, disk, fixed, Skills, TryLabels, RecoveryLabels
<1>p. Prepared /\ Txn \in Installs /\ stage[Txn] # None /\ backup[Txn] # None
  BY TryType DEF TryInv
<1>q. \A s \in Skills : prior[s] \in Packages \cup {Absent}
  BY <1>p DEF PreparedInv
<1>a. \A s \in Skills : dest[s] = cand
  BY DEF TryInv
<1>b. At("commit")'
  BY <1>a DEF Packages
<1>1. TypeOK'
  BY DEF Labels, Reports, Trees, Packages, Installs, Versions
<1>2. NothingStranded'
  BY DEF NothingStranded
<1>3. PreparedInv'
  BY DEF PreparedInv
<1>4. SettledInv'
  BY DEF SettledInv
<1>5. ChecksInv'
  BY DEF ChecksInv
<1>6. TryInv'
  BY <1>a DEF TryInv
<1>7. RecoveryInv'
  BY <1>b DEF RecoveryInv
<1> QED
  BY <1>1, <1>2, <1>3, <1>4, <1>5, <1>6, <1>7

\* From here on the candidate is the installation.
LEMMA CommitInv ==
  ASSUME InstallerInv, Commit
  PROVE  InstallerInv'
<1> USE DistinctAssumption, BoundsAssumption DEF InstallerInv, TypeOK, Commit, At, Goto, Txn, Saved, Prepared, Committed, OnePackage, EmptyDir, disk, fixed, Skills, TryLabels, RecoveryLabels
<1>p. Prepared /\ Txn \in Installs /\ stage[Txn] # None /\ backup[Txn] # None
  BY TryType DEF TryInv
<1>q. \A s \in Skills : prior[s] \in Packages \cup {Absent}
  BY <1>p DEF PreparedInv
<1>a. \A s \in Skills : dest[s] = cand
  BY DEF TryInv
<1>b. /\ journal' \in [phase : {"prepared", "committed"}, transaction : Installs,
                       skills : [Skills -> BOOLEAN]]
      /\ journal' # None /\ journal'.phase = "committed" /\ journal'.transaction = Txn
  BY <1>p, JournalType
<1>1. TypeOK'
  BY <1>b DEF Labels
<1>2. NothingStranded'
  BY <1>p, <1>b DEF NothingStranded
<1>3. PreparedInv'
  BY <1>b DEF PreparedInv
<1>4. SettledInv'
  BY <1>a, <1>b DEF SettledInv
<1>5. ChecksInv'
  BY DEF ChecksInv
<1>6. TryInv'
  BY <1>a, <1>b DEF TryInv
<1>7. RecoveryInv'
  BY DEF RecoveryInv
<1> QED
  BY <1>1, <1>2, <1>3, <1>4, <1>5, <1>6, <1>7

\* The clean-up is the recovery of a committed transaction.
LEMMA FinishInv ==
  ASSUME InstallerInv, Finish
  PROVE  InstallerInv'
<1> USE DistinctAssumption, BoundsAssumption DEF InstallerInv, TypeOK, Finish, At, Goto, Txn, Saved, Prepared, Committed, OnePackage, EmptyDir, disk, fixed, Skills, TryLabels, RecoveryLabels
<1>1. TypeOK'
  BY DEF Labels, Reports, Trees, Packages, Installs, Versions
<1>2. NothingStranded'
  BY DEF NothingStranded
<1>3. PreparedInv'
  BY DEF PreparedInv
<1>4. SettledInv'
  BY DEF SettledInv
<1>5. ChecksInv'
  BY DEF ChecksInv
<1>6. TryInv'
  BY DEF TryInv
<1>7. RecoveryInv'
  BY TryType DEF RecoveryInv, TryInv
<1> QED
  BY <1>1, <1>2, <1>3, <1>4, <1>5, <1>6, <1>7

\* An exception leads into the recovery.
LEMMA RaiseInv ==
  ASSUME InstallerInv, NEW hostLock \in BOOLEAN, Raise(hostLock)
  PROVE  InstallerInv'
<1> USE DistinctAssumption, BoundsAssumption DEF InstallerInv, TypeOK, Raise, At, Goto, Txn, Saved, Prepared, Committed, OnePackage, EmptyDir, disk, fixed, Skills, TryLabels, RecoveryLabels, HostLabels
<1>1. TypeOK'
  BY DEF Labels, Reports, Trees, Packages, Installs, Versions
<1>2. NothingStranded'
  BY DEF NothingStranded
<1>3. PreparedInv'
  BY DEF PreparedInv
<1>4. SettledInv'
  BY DEF SettledInv
<1>5. ChecksInv'
  BY DEF ChecksInv
<1>6. TryInv'
  BY DEF TryInv
<1>7. RecoveryInv'
  BY TryType DEF RecoveryInv, TryInv
<1> QED
  BY <1>1, <1>2, <1>3, <1>4, <1>5, <1>6, <1>7

\* A death only ends the run.
LEMMA DieInv ==
  ASSUME InstallerInv, Die
  PROVE  InstallerInv'
<1> USE DistinctAssumption, BoundsAssumption DEF InstallerInv, TypeOK, Die, At, Goto, Txn, Saved, Prepared, Committed, OnePackage, EmptyDir, disk, fixed, Skills, TryLabels, RecoveryLabels, Stop
<1>1. TypeOK'
  BY DEF Labels, Reports, Trees, Packages, Installs, Versions
<1>2. NothingStranded'
  BY DEF NothingStranded
<1>3. PreparedInv'
  BY DEF PreparedInv
<1>4. SettledInv'
  BY DEF SettledInv
<1>5. ChecksInv'
  BY DEF ChecksInv
<1>6. TryInv'
  BY DEF TryInv
<1>7. RecoveryInv'
  BY DEF RecoveryInv
<1> QED
  BY <1>1, <1>2, <1>3, <1>4, <1>5, <1>6, <1>7

\* InstallerInv is inductive.
LEMMA NextInv == InstallerInv /\ [Next]_vars => InstallerInv'
<1> SUFFICES ASSUME InstallerInv, [Next]_vars PROVE InstallerInv'
  OBVIOUS
<1>1. CASE \E r \in Roots : \E v \in Versions : Checkout(r, v)
  BY <1>1, CheckoutInv
<1>2. CASE \E s \in Skills : Edit(s)
  BY <1>2, EditInv
<1>3. CASE \E r \in Roots : \E mayReplace \in BOOLEAN : Start(r, mayReplace)
  BY <1>3, StartInv
<1>4. CASE Recover
  BY <1>4, RecoverNothingInv, RecoverCommittedInv, RecoverPreparedInv, RestoreRefusedInv,
     RestoreKeptInv, RemoveNewInv, RemovedInv, PutBackInv, RestoredInv, DropStageInv,
     DropBackupInv, DropJournalInv DEF Recover
<1>5. CASE Install
  BY <1>5, CheckInv, MakeStageInv, MakeBackupInv, PrepareInv, StageBeginsInv, StageEndsInv,
     StagedInv, BackUpInv, PromoteInv, ValidateInv, CommitInv, FinishInv DEF Install
<1>6. CASE \E hostLock \in BOOLEAN : Raise(hostLock)
  BY <1>6, RaiseInv
<1>7. CASE DieDropping \/ Die
  BY <1>7, DieDroppingInv, DieInv
<1>8. CASE UNCHANGED vars
  <2> USE <1>8 DEF vars
  <2>1. TypeOK' /\ NothingStranded' /\ PreparedInv' /\ SettledInv'
    BY DEF InstallerInv, TypeOK, NothingStranded, PreparedInv, SettledInv, Prepared,
           Committed, Txn, Saved, OnePackage
  <2>2. ChecksInv' /\ TryInv' /\ RecoveryInv'
    BY DEF InstallerInv, ChecksInv, TryInv, RecoveryInv, At, Accepts, Existing, Prepared,
           Committed, Txn, Saved
  <2> QED
    BY <2>1, <2>2 DEF InstallerInv
<1> QED
  BY <1>1, <1>2, <1>3, <1>4, <1>5, <1>6, <1>7, <1>8 DEF Next

-----------------------------------------------------------------------------
\* The inductive invariant holds in every state: types, what the journal can
\* undo, and what a run relies on before each of its steps.
THEOREM InstallerInvariant == Spec => []InstallerInv
  BY InitInv, NextInv, PTL DEF Spec

\* What an interruption leaves for ever outside the skill root is empty.
THEOREM Stranded == Spec => []NothingStranded
<1>1. InstallerInv => NothingStranded
  BY DEF InstallerInv
<1> QED
  BY <1>1, InstallerInvariant, PTL

\* A skill that is being replaced exists until its replacement is committed.
THEOREM LastGood == Spec => []LastGoodKept
<1>1. InstallerInv => LastGoodKept
  BY DEF InstallerInv, PreparedInv, LastGoodKept, Saved
<1> QED
  BY <1>1, InstallerInvariant, PTL

\* A recovery refuses nothing the installer itself left whole.
THEOREM Repeatable == Spec => []RecoveryRepeatable
<1>1. InstallerInv => RecoveryRepeatable
  <2> SUFFICES ASSUME InstallerInv, journal # None,
                      \A s \in Skills : dest[s] \notin {Foreign, Broken}
               PROVE  IF Prepared THEN \A s \in Skills : Restorable(s)
                                  ELSE \A s \in Skills : dest[s] \in Packages
    BY DEF RecoveryRepeatable
  <2>1. \A s \in Skills : dest[s] \in Packages \cup {Absent}
    BY DEF InstallerInv, TypeOK, Trees
  <2>2. CASE Prepared
    BY <2>1, <2>2 DEF InstallerInv, PreparedInv, Restorable, Saved
  <2>3. CASE ~Prepared
    BY <2>1, <2>3, JournalType DEF InstallerInv, SettledInv, Prepared, Committed
  <2> QED
    BY <2>2, <2>3
<1> QED
  BY <1>1, InstallerInvariant, PTL

\* The steps that write skill folders only write over the installer's own.
LEMMA EditsKeptStep ==
  ASSUME InstallerInv, [Next]_vars, NEW s \in Skills, dest[s] = Foreign
  PROVE  dest'[s] = Foreign
<1> USE DistinctAssumption DEF disk, fixed
<1>1. dest \in [Skills -> Trees]
  BY DEF InstallerInv, TypeOK
<1>2. CASE \E u \in Skills : Edit(u)
  BY <1>1, <1>2 DEF Edit, Trees
<1>3. CASE RemoveNew \/ PutBack
  BY <1>1, <1>3 DEF RemoveNew, PutBack, Restorable
<1>4. CASE Removed
  BY <1>1, <1>4 DEF Removed, InstallerInv, RecoveryInv, At
<1>5. CASE BackUp
  <2>1. Prepared /\ dest[i] = prior[i]
    BY <1>5, TryType DEF BackUp, InstallerInv, TryInv, At, TryLabels, Prepared
  <2> QED
    BY <1>1, <1>5, <2>1 DEF BackUp, InstallerInv, PreparedInv
<1>6. CASE Promote
  BY <1>1, <1>6 DEF Promote, InstallerInv, TryInv, At, TryLabels
<1>7. CASE UNCHANGED dest
  BY <1>7
<1> QED
  BY <1>2, <1>3, <1>4, <1>5, <1>6, <1>7
     DEF Next, vars, Recover, Install, Checkout, Start, RecoverNothing, RecoverCommitted,
         RecoverPrepared, RestoreRefused, RestoreKept, Restored, DropStage, DropBackup,
         DropJournal, DieDropping, Check, MakeStage, MakeBackup, Prepare, StageBegins,
         StageEnds, Staged, Validate, Commit, Finish, Raise, Die

\* A folder somebody else made or changed is left alone.
THEOREM Edits == Spec => EditsKept
<1>1. InstallerInv /\ [Next]_vars =>
        [\A s \in Skills : dest[s] = Foreign => dest'[s] = Foreign]_vars
  BY EditsKeptStep
<1> QED
  BY <1>1, InstallerInvariant, PTL DEF Spec, EditsKept

\* A run reports an installation, or a restart of the host, at the end of a
\* recovery that had the journal of its own transaction.
LEMMA ReportsStep ==
  ASSUME InstallerInv, [Next]_vars, ~At("idle"), pc' = "idle"
  PROVE  /\ report' = "installed" => (\A s \in Skills : dest'[s] = cand) /\ journal' = None
         /\ report' = "reload_required" => dest' = prior /\ journal' = None
<1> USE DEF At, Goto, disk, fixed
<1>1. CASE RecoverNothing
  BY <1>1 DEF RecoverNothing, Continue, InstallerInv, RecoveryInv, RecoveryLabels
<1>2. CASE DropJournal
  BY <1>2 DEF DropJournal, Continue, InstallerInv, RecoveryInv, RecoveryLabels, Prepared,
              TypeOK, Reports
<1>3. CASE RecoverCommitted \/ RestoreRefused \/ Check \/ DieDropping \/ Die
  BY <1>3 DEF RecoverCommitted, RestoreRefused, Check, DieDropping, Die, Stop
<1>4. CASE UNCHANGED vars
  BY <1>4 DEF vars
<1>5. RecoverNothing \/ DropJournal \/ RecoverCommitted \/ RestoreRefused \/ Check
      \/ DieDropping \/ Die \/ UNCHANGED vars
  BY DEF Next, Recover, Install, Checkout, Edit, Start, RecoverPrepared, RestoreKept, RemoveNew,
         Removed, PutBack, Restored, DropStage, DropBackup, MakeStage, MakeBackup, Prepare,
         StageBegins, StageEnds, Staged, BackUp, Promote, Validate, Commit, Finish, Raise
<1> QED
  BY <1>1, <1>2, <1>3, <1>4, <1>5

\* What a run says of the skills at its end is so.
THEOREM ReportsTrue == Spec => ReportsAreTrue
<1>1. InstallerInv /\ [Next]_vars =>
        [~At("idle") /\ pc' = "idle" =>
           /\ report' = "installed" => (\A s \in Skills : dest'[s] = cand) /\ journal' = None
           /\ report' = "reload_required" => dest' = prior /\ journal' = None]_vars
  BY ReportsStep
<1> QED
  BY <1>1, InstallerInvariant, PTL DEF Spec, ReportsAreTrue

-----------------------------------------------------------------------------
\* Only an edit makes a folder foreign.
LEMMA ForeignStep ==
  ASSUME InstallerInv, RemoveNew \/ Removed \/ PutBack \/ BackUp \/ Promote,
         NEW s \in Skills, dest'[s] = Foreign
  PROVE  dest[s] = Foreign
<1> USE DistinctAssumption DEF disk, fixed
<1>1. dest \in [Skills -> Trees]
  BY DEF InstallerInv, TypeOK
<1>2. CASE RemoveNew \/ Removed \/ BackUp
  BY <1>1, <1>2 DEF RemoveNew, Removed, BackUp
<1>3. CASE PutBack
  BY <1>1, <1>3 DEF PutBack, Restorable
<1>4. CASE Promote
  <2>1. stage[Txn][i] = cand /\ cand \in Packages
    BY <1>4 DEF Promote, InstallerInv, TypeOK, TryInv, At, TryLabels
  <2> QED
    BY <1>1, <1>4, <2>1 DEF Promote
<1> QED
  BY <1>2, <1>3, <1>4

\* Every step between the journal and the commit leaves the installation as it
\* was; the commit replaces it.
LEMMA RegisterStep ==
  InstallerInv /\ [Next]_vars => [Abstract!Next]_Installed
<1> SUFFICES ASSUME InstallerInv, [Next]_vars PROVE [Abstract!Next]_Installed
  OBVIOUS
<1> USE DistinctAssumption DEF disk, fixed, Goto
<1>0. 1 \in Skills
  BY BoundsAssumption DEF Skills
<1>1. CASE UNCHANGED <<dest, journal, prior>>
  BY <1>1 DEF Installed, Prepared
<1>2. CASE MakeStage
  BY <1>2 DEF MakeStage, Installed, Prepared, InstallerInv, ChecksInv, At
<1>3. CASE \E s \in Skills : Edit(s)
  <2>1. dest \in [Skills -> Trees]
    BY DEF InstallerInv, TypeOK
  <2>2. Installed' = Foreign
    BY <1>3, <2>1 DEF Edit, Installed
  <2> QED
    BY <2>2 DEF Abstract!Next, Abstract!Change
<1>4. CASE RemoveNew \/ Removed \/ PutBack \/ BackUp \/ Promote
  <2>1. Prepared /\ UNCHANGED <<journal, prior>>
    BY <1>4, TryType DEF RemoveNew, Removed, PutBack, BackUp, Promote, InstallerInv, RecoveryInv,
                         TryInv, At, TryLabels, RecoveryLabels, Prepared
  <2>2. \A s \in Skills : dest[s] = Foreign <=> dest'[s] = Foreign
    BY <1>4, ForeignStep, EditsKeptStep
  <2> QED
    BY <2>1, <2>2 DEF Installed, Prepared
<1>5. CASE Prepare
  <2>1. journal = None /\ prior = dest /\ Accepts(cand, replace) /\ OnePackage
    BY <1>5 DEF Prepare, InstallerInv, ChecksInv, SettledInv, At, Prepared
  <2>2. \A s \in Skills : dest[s] # Foreign
    BY <2>1 DEF Accepts, Existing
  <2>3. \A s \in Skills : dest[s] = dest[1]
    BY <1>0, <2>1, <2>2 DEF OnePackage
  <2>4. journal'.phase = "prepared" /\ journal' # None
    BY <1>5, PrepareInv DEF Prepare, InstallerInv, ChecksInv, TryInv, At, TryLabels
  <2>5. UNCHANGED <<dest, prior>>
    BY <1>5 DEF Prepare
  <2> QED
    BY <1>0, <2>1, <2>2, <2>3, <2>4, <2>5 DEF Installed, Prepared
<1>6. CASE Commit
  <2>1. Prepared /\ \A s \in Skills : dest[s] = cand
    BY <1>6, TryType DEF Commit, InstallerInv, TryInv, At, TryLabels, Prepared
  <2>2. cand \in Packages /\ UNCHANGED <<dest, prior>>
    BY <1>6 DEF Commit, InstallerInv, TypeOK
  <2>3. \A s \in Skills : dest[s] # Foreign
    BY <2>1, <2>2
  <2>4. Installed = prior[1]
    BY <2>1, <2>3 DEF Installed
  <2>5. ~Prepared'
    BY <1>6, CommitInv DEF Commit, InstallerInv, TryInv, At, TryLabels, Prepared
  <2>6. Installed' = cand
    BY <1>0, <2>1, <2>2, <2>3, <2>5 DEF Installed
  <2>7. prior[1] # Absent =>
          prior[1] \in Packages /\ prior[1].root = cand.root /\ prior[1].version <= cand.version
    BY <1>0, <1>6, <2>1 DEF Commit, InstallerInv, PreparedInv, TryInv, At, TryLabels
  <2> QED
    BY <2>2, <2>4, <2>6, <2>7 DEF Abstract!Next, Abstract!Install, Abstract!MayReplace
<1>7. CASE DropJournal
  <2>1. journal' = None /\ UNCHANGED <<dest, prior>>
    BY <1>7 DEF DropJournal
  <2>2. CASE Prepared
    <3>1. dest = prior /\ \A s \in Skills : prior[s] = prior[1]
      BY <1>7, <2>2 DEF DropJournal, InstallerInv, RecoveryInv, PreparedInv, At
    <3> QED
      BY <2>1, <2>2, <3>1 DEF Installed, Prepared
  <2>3. CASE ~Prepared
    BY <2>1, <2>3 DEF Installed, Prepared
  <2> QED
    BY <2>2, <2>3
<1> QED
  BY <1>1, <1>2, <1>3, <1>4, <1>5, <1>6, <1>7
     DEF Next, vars, Recover, Install, Checkout, Start, RecoverNothing, RecoverCommitted,
         RecoverPrepared, RestoreRefused, RestoreKept, Restored, DropStage, DropBackup,
         DieDropping, Check, MakeBackup, StageBegins, StageEnds, Staged, Validate, Finish,
         Raise, Die

\* The journaled file operations implement one atomic replacement.
THEOREM Refinement == Spec => ImplementsRegister
<1>1. Init => Abstract!Init
  BY BoundsAssumption, DistinctAssumption
     DEF Init, Abstract!Init, Installed, Prepared, EmptyDir, Skills
<1> QED
  BY <1>1, RegisterStep, InstallerInvariant, PTL DEF Spec, ImplementsRegister, Abstract!RegisterSpec

=============================================================================
