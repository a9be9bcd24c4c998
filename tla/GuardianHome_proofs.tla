-------------------------- MODULE GuardianHome_proofs --------------------------
(***************************************************************************)
(* Proofs about GuardianHome, for every set of processes, keys, requests,  *)
(* bundles, results and agendas, and every number of commands and faults.  *)
(*                                                                         *)
(* The components share trust, profiles and the life of a command, and     *)
(* nothing else.  So CommandsFit first says which steps a command of each  *)
(* kind passes and what its job holds there; each component then has an    *)
(* invariant of its own, which the steps of the others keep because they   *)
(* write none of its files and enter none of its steps.                    *)
(***************************************************************************)
EXTENDS GuardianHome, SequenceTheorems, FiniteSetTheorems, WellFoundedInduction, TLAPS

-----------------------------------------------------------------------------
(* The life of a command.                                                  *)

TrustLabels == {"install", "stageTrust", "promoteTrust", "verifyTrust"}
EnrollLabels == {"enroll", "promoteRelease", "verifyRelease"}
OnboardLabels == {"onboard", "removeEmptyHome", "renameHome", "verifyHome"}
PersonalLabels == {"personal", "addCapability", "fillCapability"}
SelectLabels == {"existing", "bind", "fillBinding", "approve", "record", "fillRecord"}
EvaluateLabels ==
  {"evaluate", "eloLock", "eloRead", "eloRecover", "eloDecide", "createEntry", "fillEntry",
   "moveHead", "eloVerify"}
MigrateLabels ==
  {"migrate", "unlinkReceipt", "createReceipt", "fillReceipt", "migrateMarker", "unlinkMarker",
   "createMarker", "fillMarker", "migrateHead", "unlinkHead", "createHead", "fillHead",
   "verifyGenesis"}
UpgradeLabels ==
  {"upgrade", "loadProfile", "loadRules", "loadRecord", "makeAuthDir", "createAuth", "fillAuth",
   "writePointer", "verifyUpgrade", "verifyProfile", "verifyRules", "verifyRecord"}
FileLabels ==
  {"backup", "fillBackup", "prepare", "fillPrepare", "replace", "commit", "fillCommit"}
SchemaLabels == {"schema", "advance"} \cup FileLabels
RestoreLabels ==
  {"restore", "prepareRestore", "fillRestore", "putBack", "recordRestore", "fillRestored"}

\* The catalogs that bundles and requests bring.
Catalogs == {b.catalog : b \in Bundles} \cup {PersonalCatalog(r.discovery) : r \in Requests}

\* What a command of each kind holds, and where it may be.
InstallFits(l, j) ==
  /\ j.kind = "install" /\ DOMAIN j = {"kind", "key"} /\ j.key \in Keys \cup {Nothing}
  /\ l \in TrustLabels \cup {"ok"}
EnrollFits(l, j) ==
  /\ j.kind = "enroll" /\ DOMAIN j = {"kind", "key"} /\ j.key \in Keys
  /\ l \in EnrollLabels \cup {"ok"}
OnboardFits(l, j) ==
  /\ j.kind = "onboard" /\ DOMAIN j = {"kind", "key", "rev", "seq", "catalog", "empty"}
  /\ j.key \in Keys /\ j.rev \in Revisions /\ j.seq \in Nat \ {0} /\ j.catalog \in Catalogs
  /\ l \in OnboardLabels \cup TrustLabels \cup {"profile", "ingest", "ok"}
ProfileFits(l, j) ==
  /\ j.kind = "profile" /\ DOMAIN j = {"kind", "rev"} /\ j.rev \in Revisions
  /\ l \in {"profile", "ok"}
SelectFits(l, j) ==
  /\ j.kind = "select" /\ DOMAIN j = {"kind", "run", "discovery", "id", "seq", "catalog"}
  /\ j.run \in Runs /\ j.id \in Personal /\ j.seq \in Nat
  /\ \E r \in Requests : Acceptable(r) /\ r.run = j.run /\ r.discovery = j.discovery
  /\ j.id = Scope(j.discovery) /\ j.catalog = PersonalCatalog(j.discovery)
  /\ l \notin {"existing", "ok"} => Attributable(j.discovery)
  /\ l \in SelectLabels \cup PersonalLabels \cup TrustLabels \cup {"profile", "ingest", "ok"}
EvaluateFits(l, j) ==
  /\ j.kind = "evaluate" /\ DOMAIN j = {"kind", "base", "cand", "entry"}
  /\ j.base \in Results /\ j.cand \in Results
  /\ l \in EvaluateLabels \cup {"ok"}
MigrateFits(l, j) ==
  /\ j.kind = "migrate" /\ DOMAIN j = {"kind", "fresh"}
  /\ l \in MigrateLabels \cup {"ok"}
UpgradeFits(l, j) ==
  /\ j.kind = "upgrade" /\ DOMAIN j = {"kind", "binding"} /\ j.binding \in Bindings
  /\ l \in UpgradeLabels \cup {"profileLock", "ok"}
SchemaFits(l, j) ==
  /\ j.kind = "schema" /\ DOMAIN j = {"kind", "at"}
  /\ j.at \in Versions \cup {0}
  /\ l \in FileLabels \cup {"advance"} => j.at \in Versions /\ j.at < CurrentVersion
  /\ l \in {"profileLock", "schema"} => j.at = 0
  /\ l \in SchemaLabels \cup {"profileLock", "ok"}
RestoreFits(l, j) ==
  /\ j.kind = "restore" /\ DOMAIN j = {"kind", "id", "to"}
  /\ j.id \in Restorations /\ j.to \in Versions
  /\ l \in RestoreLabels \cup {"profileLock", "ok"}

Fits(l, j) ==
  \/ InstallFits(l, j) \/ EnrollFits(l, j) \/ OnboardFits(l, j) \/ ProfileFits(l, j)
  \/ SelectFits(l, j) \/ EvaluateFits(l, j) \/ MigrateFits(l, j) \/ UpgradeFits(l, j)
  \/ SchemaFits(l, j) \/ RestoreFits(l, j)

CommandsFit ==
  /\ DOMAIN pc = Procs /\ DOMAIN job = Procs
  /\ \A p \in Procs : pc[p] # "idle" => Fits(pc[p], job[p])

Others(p) == \A q \in Procs : q # p => pc'[q] = pc[q] /\ job'[q] = job[q]

LEMMA StepFits ==
  ASSUME CommandsFit, NEW p \in Procs, NEW l, Step(p, l), Fits(l, job[p])
  PROVE  CommandsFit' /\ Others(p) /\ pc'[p] = l /\ job'[p] = job[p]
<1>1. pc' = [pc EXCEPT ![p] = l] /\ job' = job
  BY DEF Step, Goto
<1>2. pc'[p] = l /\ Others(p) /\ DOMAIN pc' = Procs
  BY <1>1 DEF CommandsFit, Others
<1>3. \A q \in Procs : pc'[q] # "idle" => Fits(pc'[q], job'[q])
  BY <1>1, <1>2 DEF CommandsFit, Others
<1> QED
  BY <1>1, <1>2, <1>3 DEF CommandsFit

LEMMA LeaveFits ==
  ASSUME CommandsFit, NEW p \in Procs, Leave(p)
  PROVE  CommandsFit' /\ Others(p) /\ pc'[p] = "idle" /\ job'[p] = NoCommand
<1>1. pc' = [pc EXCEPT ![p] = "idle"] /\ job' = [job EXCEPT ![p] = NoCommand]
  BY DEF Leave, Goto
<1>2. /\ pc'[p] = "idle" /\ job'[p] = NoCommand /\ Others(p)
      /\ DOMAIN pc' = Procs /\ DOMAIN job' = Procs
  BY <1>1 DEF CommandsFit, Others
<1>3. \A q \in Procs : pc'[q] # "idle" => Fits(pc'[q], job'[q])
  BY <1>2 DEF CommandsFit, Others
<1> QED
  BY <1>2, <1>3 DEF CommandsFit

\* The command goes on with another job.
LEMMA JobFits ==
  ASSUME CommandsFit, NEW p \in Procs, NEW l, NEW j, Goto(p, l),
         job' = [job EXCEPT ![p] = j], Fits(l, j)
  PROVE  CommandsFit' /\ Others(p) /\ pc'[p] = l /\ job'[p] = j
<1>1. pc' = [pc EXCEPT ![p] = l]
  BY DEF Goto
<1>2. /\ pc'[p] = l /\ job'[p] = j /\ Others(p)
      /\ DOMAIN pc' = Procs /\ DOMAIN job' = Procs
  BY <1>1 DEF CommandsFit, Others
<1>3. \A q \in Procs : pc'[q] # "idle" => Fits(pc'[q], job'[q])
  BY <1>2 DEF CommandsFit, Others
<1> QED
  BY <1>2, <1>3 DEF CommandsFit

LEMMA BeginFits ==
  ASSUME CommandsFit, NEW p \in Procs, NEW l, NEW j, Begin(p, j, l), Fits(l, j)
  PROVE  CommandsFit' /\ Others(p) /\ pc[p] = "idle" /\ pc'[p] = l /\ job'[p] = j
  BY JobFits DEF Begin

\* What a label says of the command: its kind, and that it may go on.
LEMMA TrustLabel ==
  ASSUME NEW l \in TrustLabels, NEW j, Fits(l, j)
  PROVE  /\ j.kind \in {"install", "onboard", "select"}
         /\ j.kind \in {"onboard", "select"} => Fits("profile", j)
         /\ j.kind = "select" => SelectFits(l, j) /\ \A m \in PersonalLabels : Fits(m, j)
         /\ j.kind # "select" => j.key \in Keys \cup {Nothing}
         /\ Fits("ok", j) /\ \A m \in TrustLabels : Fits(m, j)
  BY DEF Fits, InstallFits, EnrollFits, OnboardFits, ProfileFits, SelectFits, EvaluateFits,
         MigrateFits, UpgradeFits, SchemaFits, RestoreFits, TrustLabels, EnrollLabels,
         OnboardLabels, PersonalLabels, SelectLabels, EvaluateLabels, MigrateLabels,
         UpgradeLabels, FileLabels, SchemaLabels, RestoreLabels

LEMMA TrustMoves ==
  ASSUME CommandsFit, NEW p \in Procs, TrustNext(p)
  PROVE  CommandsFit' /\ Others(p)
         /\ pc'[p] \in TrustLabels \cup EnrollLabels \cup PersonalLabels \cup {"profile", "ok", "idle"}
<1> USE DEF Fits, InstallFits, EnrollFits, OnboardFits, ProfileFits, SelectFits, EvaluateFits,
            MigrateFits, UpgradeFits, SchemaFits, RestoreFits, TrustLabels, EnrollLabels,
            OnboardLabels, PersonalLabels, SelectLabels, EvaluateLabels, MigrateLabels,
            UpgradeLabels, FileLabels, SchemaLabels, RestoreLabels
<1>0. pc[p] # "idle" => Fits(pc[p], job[p])
  BY DEF CommandsFit
<1>1. CASE BeginInstall(p)
  BY <1>1, BeginFits DEF BeginInstall
<1>2. CASE InstallReads(p)
  BY <1>0, <1>2, StepFits, LeaveFits DEF InstallReads, Refuse, AfterTrust, AnchorState, TrustState
<1>3. CASE StageTrust(p)
  BY <1>0, <1>3, StepFits, LeaveFits DEF StageTrust, Refuse
<1>4. CASE PromoteTrust(p)
  BY <1>0, <1>4, StepFits, LeaveFits DEF PromoteTrust
<1>5. CASE PromotionLost(p)
  BY <1>0, <1>5, StepFits, LeaveFits DEF PromotionLost, Refuse, AfterTrust
<1>6. CASE VerifyTrust(p)
  BY <1>0, <1>6, StepFits, LeaveFits DEF VerifyTrust, Refuse, AfterTrust
<1>7. CASE PersonalReads(p)
  BY <1>0, <1>7, StepFits, LeaveFits DEF PersonalReads, TrustState
<1>8. CASE AddCapability(p)
  BY <1>0, <1>8, StepFits, LeaveFits DEF AddCapability, Refuse
<1>9. CASE FillCapability(p)
  BY <1>0, <1>9, StepFits DEF FillCapability
<1>10. CASE BeginEnroll(p)
  BY <1>10, BeginFits DEF BeginEnroll
<1>11. CASE EnrollReads(p)
  BY <1>0, <1>11, StepFits, LeaveFits DEF EnrollReads, Refuse
<1>12. CASE PromoteRelease(p)
  BY <1>0, <1>12, StepFits, LeaveFits DEF PromoteRelease, Refuse
<1>13. CASE VerifyRelease(p)
  BY <1>0, <1>13, StepFits, LeaveFits DEF VerifyRelease, Refuse
<1>14. CASE Return(p) \/ TrustWriteFails(p) \/ Crash(p)
  BY <1>14, LeaveFits DEF Return, TrustWriteFails, Crash, Refuse
<1> QED
  BY <1>1, <1>2, <1>3, <1>4, <1>5, <1>6, <1>7, <1>8, <1>9, <1>10, <1>11, <1>12, <1>13, <1>14
  DEF TrustNext

LEMMA EloMoves ==
  ASSUME CommandsFit, NEW p \in Procs, EloNext(p)
  PROVE  CommandsFit' /\ Others(p)
         /\ pc'[p] \in EvaluateLabels \cup MigrateLabels \cup {"ok", "idle"}
<1> USE DEF Fits, InstallFits, EnrollFits, OnboardFits, ProfileFits, SelectFits, EvaluateFits,
            MigrateFits, UpgradeFits, SchemaFits, RestoreFits, TrustLabels, EnrollLabels,
            OnboardLabels, PersonalLabels, SelectLabels, EvaluateLabels, MigrateLabels,
            UpgradeLabels, FileLabels, SchemaLabels, RestoreLabels
<1>0. pc[p] # "idle" => Fits(pc[p], job[p])
  BY DEF CommandsFit
<1>1. CASE BeginEvaluate(p)
  BY <1>1, BeginFits DEF BeginEvaluate
<1>2. CASE EvaluateChecks(p) \/ LockReceipt(p) \/ LockRefused(p) \/ EvaluateReads(p)
  BY <1>0, <1>2, StepFits, LeaveFits
  DEF EvaluateChecks, LockReceipt, LockRefused, EvaluateReads, Refuse, RefuseLocked
<1>3. CASE RecoverHead(p)
  <2>1. CASE IsRetry(p)
    <3>1. PICK j : j = [job[p] EXCEPT !.entry = Latest]
      OBVIOUS
    <3>2. job' = [job EXCEPT ![p] = j] /\ Goto(p, "ok")
      BY <1>3, <2>1, <3>1 DEF RecoverHead
    <3>3. EvaluateFits("ok", j)
      BY <1>0, <1>3, <3>1 DEF RecoverHead
    <3> QED
      BY <3>2, <3>3, JobFits
  <2> QED
    BY <1>3, <2>1, LeaveFits DEF RecoverHead
<1>4. CASE EvaluateDecides(p)
  <2>1. CASE entries # {} /\ IsRetry(p)
    <3>1. PICK j : j = [job[p] EXCEPT !.entry = Latest]
      OBVIOUS
    <3>2. job' = [job EXCEPT ![p] = j] /\ Goto(p, "ok")
      BY <1>4, <2>1, <3>1 DEF EvaluateDecides
    <3>3. EvaluateFits("ok", j)
      BY <1>0, <1>4, <3>1 DEF EvaluateDecides
    <3> QED
      BY <3>2, <3>3, JobFits
  <2>2. CASE ~(entries # {} /\ IsRetry(p)) /\ Continues(job[p].base, job[p].cand)
    <3>1. PICK j : j = [job[p] EXCEPT !.entry = EntryFor(job[p].base, job[p].cand)]
      OBVIOUS
    <3>2. job' = [job EXCEPT ![p] = j] /\ Goto(p, "createEntry")
      BY <1>4, <2>2, <3>1 DEF EvaluateDecides
    <3>3. EvaluateFits("createEntry", j)
      BY <1>0, <1>4, <3>1 DEF EvaluateDecides
    <3> QED
      BY <3>2, <3>3, JobFits
  <2> QED
    BY <1>4, <2>1, <2>2, LeaveFits DEF EvaluateDecides, RefuseLocked, Refuse
<1>5. CASE CreateEntry(p) \/ FillEntry(p) \/ MoveHead(p) \/ EvaluateVerifies(p)
  BY <1>0, <1>5, StepFits, LeaveFits DEF CreateEntry, FillEntry, MoveHead, EvaluateVerifies, Refuse
<1>6. CASE BeginMigrate(p)
  BY <1>6, BeginFits DEF BeginMigrate
<1>7. CASE MigrateReads(p) \/ UnlinkReceipt(p)
  BY <1>0, <1>7, StepFits, LeaveFits DEF MigrateReads, UnlinkReceipt, Refuse
<1>8. CASE CreateReceipt(p)
  <2>1. CASE receipt = Nothing /\ MayRemoveReceipt /\ OnlyLegacyFiles
    <3>1. PICK j : j = [job[p] EXCEPT !.fresh = TRUE]
      OBVIOUS
    <3>2. job' = [job EXCEPT ![p] = j] /\ Goto(p, "fillReceipt")
      BY <1>8, <2>1, <3>1 DEF CreateReceipt
    <3>3. MigrateFits("fillReceipt", j)
      BY <1>0, <1>8, <3>1 DEF CreateReceipt
    <3> QED
      BY <3>2, <3>3, JobFits
  <2> QED
    BY <1>8, <2>1, LeaveFits DEF CreateReceipt, Refuse
<1>9. CASE FillReceipt(p) \/ MigrateMarker(p) \/ UnlinkMarker(p) \/ CreateMarker(p) \/ FillMarker(p)
  BY <1>0, <1>9, StepFits, LeaveFits
  DEF FillReceipt, MigrateMarker, UnlinkMarker, CreateMarker, FillMarker, Refuse
<1>10. CASE MigrateHead(p) \/ UnlinkHead(p) \/ CreateHead(p) \/ FillHead(p) \/ VerifyGenesis(p)
  BY <1>0, <1>10, StepFits, LeaveFits
  DEF MigrateHead, UnlinkHead, CreateHead, FillHead, VerifyGenesis, Refuse
<1>11. CASE EloWriteFails(p)
  BY <1>11, LeaveFits DEF EloWriteFails
<1> QED
  BY <1>1, <1>2, <1>3, <1>4, <1>5, <1>6, <1>7, <1>8, <1>9, <1>10, <1>11 DEF EloNext

LEMMA OnboardReadsOn ==
  ASSUME NEW p \in Procs, OnboardReads(p)
  PROVE  \/ Refuse(p) \/ Step(p, "install")
         \/ job[p].seq = 1 /\ (Step(p, "removeEmptyHome") \/ Step(p, "renameHome"))
<1>1. AnchorState \in {"absent", "incompatible", "complete"}
  BY DEF AnchorState, TrustState
<1>2. CASE AnchorState = "absent"
  BY <1>2 DEF OnboardReads
<1>3. CASE AnchorState # "absent"
  BY <1>1, <1>3 DEF OnboardReads
<1> QED
  BY <1>2, <1>3

LEMMA OnboardingMoves ==
  ASSUME CommandsFit, NEW p \in Procs, OnboardingNext(p)
  PROVE  CommandsFit' /\ Others(p)
         /\ pc'[p] \in {"profile", "ingest", "bind", "record", "ok", "idle", "install",
                        "upgrade", "schema", "restore"} \cup OnboardLabels
         /\ (pc'[p] \in {"upgrade", "schema", "restore"} => LockProfile(p))
<1> USE DEF Fits, InstallFits, EnrollFits, OnboardFits, ProfileFits, SelectFits, EvaluateFits,
            MigrateFits, UpgradeFits, SchemaFits, RestoreFits, TrustLabels, EnrollLabels,
            OnboardLabels, PersonalLabels, SelectLabels, EvaluateLabels, MigrateLabels,
            UpgradeLabels, FileLabels, SchemaLabels, RestoreLabels
<1>0. pc[p] # "idle" => Fits(pc[p], job[p])
  BY DEF CommandsFit
<1>1. CASE LockProfile(p) \/ LockTimesOut(p)
  BY <1>0, <1>1, StepFits, LeaveFits DEF LockProfile, LockTimesOut, Refuse
<1>2. CASE BeginProfile(p)
  BY <1>2, BeginFits DEF BeginProfile
<1>3. CASE InstallProfile(p)
  BY <1>0, <1>3, StepFits, LeaveFits DEF InstallProfile, Refuse, AfterProfile
<1>4. CASE Ingest(p) \/ IngestDies(p)
  BY <1>0, <1>4, StepFits, LeaveFits DEF Ingest, IngestDies, Refuse, AfterIngest
<1>5. CASE BeginOnboard(p)
  <2>1. PICK b \in Bundles :
          Begin(p, [kind |-> "onboard", key |-> b.key, rev |-> b.rev, seq |-> b.seq,
                    catalog |-> b.catalog, empty |-> FALSE], "onboard")
    BY <1>5 DEF BeginOnboard
  <2>2. b.key \in Keys /\ b.rev \in Revisions /\ b.seq \in Nat \ {0} /\ b.catalog \in Catalogs
    BY BundlesAssumption DEF Catalogs
  <2> QED
    BY <2>1, <2>2, BeginFits
<1>6. CASE OnboardReads(p)
  <2>1. pc[p] = "onboard"
    BY <1>6 DEF OnboardReads
  <2>2. OnboardFits(pc[p], job[p])
    BY <1>0, <2>1
  <2>3. \A l \in OnboardLabels \cup {"install"} : Fits(l, job[p])
    BY <2>2
  <2> QED
    BY <1>6, <2>3, OnboardReadsOn, StepFits, LeaveFits DEF Refuse
<1>7. CASE RemoveEmptyHome(p)
  <2>1. CASE home /\ HomeEmpty
    <3>1. PICK j : j = [job[p] EXCEPT !.empty = TRUE]
      OBVIOUS
    <3>2. job' = [job EXCEPT ![p] = j] /\ Goto(p, "renameHome")
      BY <1>7, <2>1, <3>1 DEF RemoveEmptyHome
    <3>3. OnboardFits("renameHome", j)
      BY <1>0, <1>7, <3>1 DEF RemoveEmptyHome
    <3> QED
      BY <3>2, <3>3, JobFits
  <2> QED
    BY <1>7, <2>1, LeaveFits DEF RemoveEmptyHome, Refuse
<1>8. CASE RenameHome(p)
  BY <1>0, <1>8, StepFits DEF RenameHome
<1>9. CASE RenameHomeRefused(p) \/ RenameHomeFails(p)
  BY <1>9, LeaveFits DEF RenameHomeRefused, RenameHomeFails, Refuse
<1>10. CASE VerifyHome(p)
  BY <1>0, <1>10, StepFits, LeaveFits DEF VerifyHome, Refuse
<1> QED
  BY <1>1, <1>2, <1>3, <1>4, <1>5, <1>6, <1>7, <1>8, <1>9, <1>10 DEF OnboardingNext

LEMMA SelectionMoves ==
  ASSUME CommandsFit, NEW p \in Procs, SelectionNext(p),
         \A id \in Personal : Len(snapshots[id]) \in Nat
  PROVE  CommandsFit' /\ Others(p)
         /\ pc'[p] \in SelectLabels \cup {"personal", "ingest", "ok", "idle"}
<1> USE DEF Fits, InstallFits, EnrollFits, OnboardFits, ProfileFits, SelectFits, EvaluateFits,
            MigrateFits, UpgradeFits, SchemaFits, RestoreFits, TrustLabels, EnrollLabels,
            OnboardLabels, PersonalLabels, SelectLabels, EvaluateLabels, MigrateLabels,
            UpgradeLabels, FileLabels, SchemaLabels, RestoreLabels
<1>0. pc[p] # "idle" => Fits(pc[p], job[p])
  BY DEF CommandsFit
<1>1. CASE BeginSelect(p)
  <2>1. PICK r \in Requests :
          /\ Acceptable(r)
          /\ Begin(p, [kind |-> "select", run |-> r.run, discovery |-> r.discovery,
                       id |-> Scope(r.discovery), seq |-> 0,
                       catalog |-> PersonalCatalog(r.discovery)], "existing")
    BY <1>1 DEF BeginSelect
  <2>2. r.run \in Runs /\ Scope(r.discovery) \in Personal
    BY <2>1, RequestsAssumption DEF Runs
  <2> QED
    BY <2>1, <2>2, BeginFits
<1>2. CASE ExistingRetry(p)
  BY <1>0, <1>2, StepFits, LeaveFits DEF ExistingRetry, Refuse
<1>3. CASE CreateBinding(p) \/ FillBinding(p)
  BY <1>0, <1>3, StepFits, LeaveFits DEF CreateBinding, FillBinding, Refuse
<1>4. CASE Approve(p)
  <2>1. CASE BindingVerifies(job[p].id) /\ Whole(job[p].id)
    <3>1. PICK n : n = Len(snapshots[job[p].id])
                    + IF snapshots[job[p].id] # <<>>
                         /\ Last(snapshots[job[p].id]).catalog = job[p].catalog THEN 0 ELSE 1
      OBVIOUS
    <3>2. PICK j : j = [job[p] EXCEPT !.seq = n]
      OBVIOUS
    <3>3. job' = [job EXCEPT ![p] = j] /\ Goto(p, "ingest")
      BY <1>4, <2>1, <3>1, <3>2 DEF Approve
    <3>4. SelectFits("approve", job[p])
      BY <1>0, <1>4 DEF Approve
    <3>5. n \in Nat
      <4>1. Len(snapshots[job[p].id]) \in Nat
        BY <3>4
      <4>2. PICK k \in {0, 1} : n = Len(snapshots[job[p].id]) + k
        BY <3>1
      <4> QED
        BY <4>1, <4>2
    <3>6. SelectFits("ingest", j)
      BY <3>2, <3>4, <3>5
    <3> QED
      BY <3>3, <3>6, JobFits
  <2> QED
    BY <1>4, <2>1, LeaveFits DEF Approve, Refuse
<1>5. CASE CreateRecord(p) \/ FillRecord(p) \/ SelectionWriteFails(p)
  BY <1>0, <1>5, StepFits, LeaveFits DEF CreateRecord, FillRecord, SelectionWriteFails, Refuse
<1> QED
  BY <1>1, <1>2, <1>3, <1>4, <1>5 DEF SelectionNext

\* The steps of an upgrade that only read, and what they find where they go on.
ReadsOn(p) ==
  \/ UpgradeReads(p) \/ LoadProfile(p) \/ LoadRules(p) \/ LoadRecord(p) \/ VerifyUpgrade(p)

Finds(l, next, b) ==
  \/ l = "upgrade" /\ next = "loadProfile" /\ (NoRecords \/ auths = {b})
  \/ l = "loadProfile" /\ next = "loadRules" /\ profile[Company] = b.rev
  \/ l = "loadRules" /\ next = "makeAuthDir" /\ NoRecords /\ IsCandidate(b)
  \/ l = "loadRules" /\ next = "loadRecord" /\ ~NoRecords
  \/ l = "loadRecord" /\ next \in {"writePointer", "verifyUpgrade"}
  \/ l = "verifyUpgrade" /\ next = "verifyProfile"
  \/ l = "verifyProfile" /\ next = "verifyRules"
  \/ l = "verifyRules" /\ next = "verifyRecord"

LEMMA UpgradeReading ==
  ASSUME NEW p \in Procs, ReadsOn(p)
  PROVE  /\ pc[p] \in UpgradeLabels
         /\ UNCHANGED <<trust, profile, snapshots, mend, upgrades>>
         /\ \/ UnlockRefused(p)
            \/ UNCHANGED profileLock /\ \E l : Step(p, l) /\ Finds(pc[p], l, job[p].binding)
<1> DEFINE b == job[p].binding
<1> USE DEF Reads, UpgradeLabels, Finds
<1>1. CASE UpgradeReads(p)
  <2>1. OnlyRecord(b) => auths = {b}
    BY DEF OnlyRecord
  <2> HIDE DEF b
  <2>2. b = job[p].binding
    BY DEF b
  <2> QED
    BY <1>1, <2>1, <2>2 DEF UpgradeReads
<1>2. CASE LoadProfile(p)
  BY <1>2 DEF LoadProfile, ProfileIs
<1>3. CASE LoadRules(p)
  BY <1>3 DEF LoadRules
<1>4. CASE LoadRecord(p)
  BY <1>4 DEF LoadRecord
<1>5. CASE VerifyUpgrade(p)
  BY <1>5 DEF VerifyUpgrade
<1> QED
  BY <1>1, <1>2, <1>3, <1>4, <1>5 DEF ReadsOn

LEMMA UpgradeMoves ==
  ASSUME CommandsFit, NEW p \in Procs, UpgradeNext(p)
  PROVE  CommandsFit' /\ Others(p)
         /\ pc'[p] \in UpgradeLabels \cup {"profileLock", "ok", "idle"}
<1> USE DEF Fits, InstallFits, EnrollFits, OnboardFits, ProfileFits, SelectFits, EvaluateFits,
            MigrateFits, UpgradeFits, SchemaFits, RestoreFits, TrustLabels, EnrollLabels,
            OnboardLabels, PersonalLabels, SelectLabels, EvaluateLabels, MigrateLabels,
            UpgradeLabels, FileLabels, SchemaLabels, RestoreLabels
<1>0. pc[p] # "idle" => Fits(pc[p], job[p])
  BY DEF CommandsFit
<1>1. CASE BeginUpgrade(p)
  BY <1>1, BeginFits DEF BeginUpgrade
<1>2. CASE ReadsOn(p)
  <2>1. CASE UnlockRefused(p)
    BY <2>1, LeaveFits DEF UnlockRefused, Refuse
  <2>2. ASSUME NEW l, Step(p, l), Finds(pc[p], l, job[p].binding)
        PROVE  CommandsFit' /\ Others(p) /\ pc'[p] \in UpgradeLabels
    <3>1. pc[p] \in UpgradeLabels \ {"ok"} /\ pc[p] # "idle" /\ l \in UpgradeLabels
      BY <2>2 DEF Finds
    <3> QED
      BY <1>0, <2>2, <3>1, StepFits
  <2> QED
    BY <1>2, <2>1, <2>2, UpgradeReading
<1>3. CASE MakeAuthDir(p) \/ CreateAuth(p) \/ FillAuth(p) \/ WriteAuthPointer(p)
  BY <1>0, <1>3, StepFits DEF MakeAuthDir, CreateAuth, FillAuth, WriteAuthPointer
<1>4. CASE VerifyRecord(p) \/ UpgradeWriteFails(p)
  BY <1>0, <1>4, StepFits, LeaveFits DEF VerifyRecord, UpgradeWriteFails, Refuse
<1> QED
  BY <1>1, <1>2, <1>3, <1>4 DEF UpgradeNext, ReadsOn

LEMMA MigrationMoves ==
  ASSUME CommandsFit, NEW p \in Procs, MigrationsNext(p), artifact \in Versions
  PROVE  CommandsFit' /\ Others(p)
         /\ pc'[p] \in SchemaLabels \cup RestoreLabels \cup {"profileLock", "ok", "idle"}
<1> USE DEF Fits, InstallFits, EnrollFits, OnboardFits, ProfileFits, SelectFits, EvaluateFits,
            MigrateFits, UpgradeFits, SchemaFits, RestoreFits, TrustLabels, EnrollLabels,
            OnboardLabels, PersonalLabels, SelectLabels, EvaluateLabels, MigrateLabels,
            UpgradeLabels, FileLabels, SchemaLabels, RestoreLabels
<1>0. pc[p] # "idle" => Fits(pc[p], job[p])
  BY DEF CommandsFit
<1>a. ASSUME NEW at \in Versions, NEW l \in FileLabels, at < CurrentVersion,
             job[p].kind = "schema", pc[p] # "idle", Goes(p, at, l)
      PROVE  CommandsFit' /\ Others(p) /\ pc'[p] = l
  <2>1. PICK j : j = [job[p] EXCEPT !.at = at]
    OBVIOUS
  <2>2. job' = [job EXCEPT ![p] = j] /\ Goto(p, l)
    BY <1>a, <2>1 DEF Goes
  <2>3. SchemaFits(l, j)
    BY <1>0, <1>a, <2>1
  <2> QED
    BY <2>2, <2>3, JobFits
<1>1. CASE BeginSchema(p)
  BY <1>1, BeginFits DEF BeginSchema
<1>2. CASE SchemaReads(p)
  <2>1. pc[p] # "idle" /\ job[p].kind = "schema"
    BY <1>0, <1>2 DEF SchemaReads
  <2>2. artifact \in 1 .. CurrentVersion /\ CurrentVersion \in Nat
    BY VersionAssumption DEF Versions
  <2>3. artifact > 1 => artifact - 1 \in Versions /\ artifact - 1 < CurrentVersion
    BY <2>2 DEF Versions
  <2>4. artifact # CurrentVersion => artifact < CurrentVersion
    BY <2>2
  <2>5. CASE Goes(p, artifact - 1, "commit") /\ artifact > 1
    BY <1>a, <2>1, <2>3, <2>5
  <2>6. CASE Goes(p, artifact, "backup") /\ artifact # CurrentVersion
    BY <1>a, <2>1, <2>4, <2>6
  <2>7. CASE Step(p, "ok")
    BY <1>0, <2>1, <2>7, StepFits
  <2> QED
    BY <1>2, <2>5, <2>6, <2>7, LeaveFits DEF SchemaReads, UnlockRefused, Refuse
<1>3. CASE CreateFile(p)
  BY <1>0, <1>3, StepFits, LeaveFits DEF CreateFile, Stages, Filling, AfterFile, UnlockRefused, Refuse
<1>4. CASE FillFile(p)
  <2>1. PICK s \in Stages : pc[p] = Filling[s] /\ s = StageOf(p)
    BY <1>4 DEF FillFile, StageOf
  <2> QED
    BY <1>0, <1>4, <2>1, StepFits DEF FillFile, Stages, Filling, AfterFile
<1>5. CASE ReplaceArtifact(p)
  BY <1>0, <1>5, StepFits DEF ReplaceArtifact
<1>6. CASE Advance(p)
  <2>1. pc[p] # "idle" /\ job[p].kind = "schema" /\ job[p].at \in 1 .. CurrentVersion
        /\ job[p].at < CurrentVersion /\ CurrentVersion \in Nat
    BY <1>0, <1>6, VersionAssumption DEF Advance, Versions
  <2>2. job[p].at + 1 # CurrentVersion => job[p].at + 1 \in Versions /\ job[p].at + 1 < CurrentVersion
    BY <2>1 DEF Versions
  <2>3. CASE job[p].at + 1 = CurrentVersion
    BY <1>0, <1>6, <2>1, <2>3, StepFits DEF Advance
  <2> QED
    BY <1>6, <1>a, <2>1, <2>2, <2>3 DEF Advance
<1>7. CASE BeginRestore(p)
  BY <1>7, BeginFits DEF BeginRestore
<1>8. CASE RestoreReads(p)
  BY <1>0, <1>8, StepFits, LeaveFits DEF RestoreReads, UnlockRefused, Refuse
<1>9. CASE PrepareRestore(p) \/ FillRestore(p) \/ PutBack(p) \/ RecordRestore(p) \/ FillRestored(p)
  BY <1>0, <1>9, StepFits DEF PrepareRestore, FillRestore, PutBack, RecordRestore, FillRestored
<1>10. CASE SchemaWriteFails(p)
  BY <1>10, LeaveFits DEF SchemaWriteFails
<1> QED
  BY <1>1, <1>2, <1>3, <1>4, <1>5, <1>6, <1>7, <1>8, <1>9, <1>10 DEF MigrationsNext

LEMMA RuleMoves ==
  ASSUME RuleStep
  PROVE  UNCHANGED <<trust, control, catalogs, history, selections, artifacts>>
  BY DEF RuleStep, AdvanceRules, RulesExpire

-----------------------------------------------------------------------------
(* The values of the files that several components read.                   *)

SnapshotsOf(i) == [rev : RevisionsOf(i), catalog : Catalogs]

FilesFit ==
  /\ artifact \in Versions
  /\ profile \in [ProfileIds -> Revisions \cup Personal \cup {Nothing}]
  /\ \A i \in ProfileIds : profile[i] \in RevisionsOf(i) \cup {Nothing}
  /\ DOMAIN snapshots = ProfileIds
  /\ \A i \in ProfileIds : snapshots[i] \in Seq(SnapshotsOf(i))

HomeFits == CommandsFit /\ FilesFit

\* A command that is about a profile names a revision of it.
LEMMA SubjectFits ==
  ASSUME CommandsFit, NEW p \in Procs, pc[p] \in {"profile", "ingest"} \cup OnboardLabels
  PROVE  /\ IdOf(p) \in ProfileIds /\ RevisionOf(p) \in RevisionsOf(IdOf(p))
         /\ pc[p] # "profile" => Snapshot(p) \in SnapshotsOf(IdOf(p))
         /\ pc[p] \in OnboardLabels => IdOf(p) = Company /\ RevisionOf(p) = job[p].rev
<1>0. Fits(pc[p], job[p])
  BY DEF CommandsFit, OnboardLabels
<1>1. CASE SelectFits(pc[p], job[p])
  <2>1. job[p].kind = "select" /\ job[p].id \in Personal /\ job[p].catalog \in Catalogs
    BY <1>1 DEF SelectFits, Catalogs
  <2>2. pc[p] \notin OnboardLabels
    BY <1>1 DEF SelectFits, SelectLabels, PersonalLabels, TrustLabels, OnboardLabels
  <2>3. IdOf(p) \in ProfileIds /\ IdOf(p) # Company /\ RevisionOf(p) = IdOf(p)
    BY <2>1, BundlesAssumption DEF IdOf, RevisionOf, ProfileIds
  <2> QED
    BY <2>1, <2>2, <2>3 DEF Snapshot, SnapshotsOf, RevisionsOf
<1>2. CASE OnboardFits(pc[p], job[p]) \/ ProfileFits(pc[p], job[p])
  <2>1. job[p].kind # "select" /\ job[p].rev \in Revisions
    BY <1>2 DEF OnboardFits, ProfileFits
  <2>2. pc[p] # "profile" => job[p].catalog \in Catalogs
    BY <1>2 DEF OnboardFits, ProfileFits, OnboardLabels
  <2>3. IdOf(p) = Company /\ RevisionOf(p) = job[p].rev
    BY <2>1 DEF IdOf, RevisionOf
  <2> QED
    BY <2>1, <2>2, <2>3 DEF Snapshot, SnapshotsOf, RevisionsOf, ProfileIds
<1> QED
  BY <1>0, <1>1, <1>2
  DEF Fits, InstallFits, EnrollFits, EvaluateFits, MigrateFits, UpgradeFits, SchemaFits,
      RestoreFits, TrustLabels, EnrollLabels, OnboardLabels, EvaluateLabels, MigrateLabels,
      UpgradeLabels, FileLabels, SchemaLabels, RestoreLabels

LEMMA ProfilesFit ==
  ASSUME HomeFits, NEW p \in Procs, OnboardingNext(p), artifact' = artifact
  PROVE  FilesFit'
<1> USE DEF HomeFits, FilesFit
<1>1. CASE UNCHANGED <<profile, snapshots>>
  BY <1>1
<1>2. CASE InstallProfile(p)
  <2>1. IdOf(p) \in ProfileIds /\ RevisionOf(p) \in RevisionsOf(IdOf(p))
    BY <1>2, SubjectFits DEF InstallProfile
  <2>2. RevisionsOf(IdOf(p)) \subseteq Revisions \cup Personal
    BY <2>1 DEF RevisionsOf, ProfileIds
  <2>3. UNCHANGED profile \/ profile' = [profile EXCEPT ![IdOf(p)] = RevisionOf(p)]
    BY <1>2 DEF InstallProfile
  <2>4. UNCHANGED snapshots
    BY <1>2 DEF InstallProfile
  <2> QED
    BY <2>1, <2>2, <2>3, <2>4
<1>3. CASE Ingest(p) \/ IngestDies(p)
  <2>1. IdOf(p) \in ProfileIds /\ Snapshot(p) \in SnapshotsOf(IdOf(p))
    BY <1>3, SubjectFits DEF Ingest, IngestDies
  <2>2. Append(snapshots[IdOf(p)], Snapshot(p)) \in Seq(SnapshotsOf(IdOf(p)))
    BY <2>1
  <2>3. UNCHANGED profile
    BY <1>3 DEF Ingest, IngestDies
  <2>4. \/ UNCHANGED snapshots
        \/ snapshots' = [snapshots EXCEPT ![IdOf(p)] = Append(snapshots[IdOf(p)], Snapshot(p))]
    BY <1>3, <2>1 DEF Ingest, IngestDies
  <2> QED
    BY <2>1, <2>2, <2>3, <2>4
<1>4. CASE RenameHome(p)
  <2>1. Snapshot(p) \in SnapshotsOf(Company) /\ job[p].rev \in Revisions /\ Company \in ProfileIds
    BY <1>4, SubjectFits DEF RenameHome, OnboardLabels, RevisionsOf, ProfileIds
  <2>2. <<Snapshot(p)>> \in Seq(SnapshotsOf(Company))
    BY <2>1
  <2>3. /\ profile' = [profile EXCEPT ![Company] = job[p].rev]
        /\ snapshots' = [snapshots EXCEPT ![Company] = <<Snapshot(p)>>]
    BY <1>4 DEF RenameHome
  <2> QED
    BY <2>1, <2>2, <2>3 DEF RevisionsOf
<1> QED
  BY <1>1, <1>2, <1>3, <1>4
  DEF OnboardingNext, LockProfile, LockTimesOut, BeginProfile, BeginOnboard, OnboardReads,
      RemoveEmptyHome, RenameHomeRefused, RenameHomeFails, VerifyHome, catalogs

LEMMA ArtifactFits ==
  ASSUME HomeFits, NEW p \in Procs, MigrationsNext(p)
  PROVE  artifact' \in Versions
<1>0. pc[p] # "idle" => Fits(pc[p], job[p])
  BY DEF HomeFits, CommandsFit
<1>1. CASE UNCHANGED artifact
  BY <1>1 DEF HomeFits, FilesFit
<1>2. CASE ReplaceArtifact(p)
  <2>1. job[p].at \in 1 .. CurrentVersion /\ job[p].at < CurrentVersion
    BY <1>0, <1>2
    DEF ReplaceArtifact, Versions, Fits, InstallFits, EnrollFits, OnboardFits, ProfileFits,
        SelectFits, EvaluateFits, MigrateFits, UpgradeFits, SchemaFits, RestoreFits, TrustLabels,
        EnrollLabels, OnboardLabels, PersonalLabels, SelectLabels, EvaluateLabels, MigrateLabels,
        UpgradeLabels, FileLabels, SchemaLabels, RestoreLabels
  <2> QED
    BY <1>2, <2>1, VersionAssumption DEF ReplaceArtifact, Versions
<1>3. CASE PutBack(p)
  BY <1>0, <1>3
  DEF PutBack, Fits, InstallFits, EnrollFits, OnboardFits, ProfileFits,
      SelectFits, EvaluateFits, MigrateFits, UpgradeFits, SchemaFits, RestoreFits, TrustLabels,
      EnrollLabels, OnboardLabels, PersonalLabels, SelectLabels, EvaluateLabels, MigrateLabels,
      UpgradeLabels, FileLabels, SchemaLabels, RestoreLabels
<1> QED
  BY <1>1, <1>2, <1>3
  DEF MigrationsNext, BeginSchema, SchemaReads, CreateFile, FillFile, Advance, BeginRestore,
      RestoreReads, PrepareRestore, FillRestore, RecordRestore, FillRestored, SchemaWriteFails,
      artifacts

\* Every step keeps HomeFits, and only p moves.
LEMMA HomeMoves ==
  ASSUME HomeFits, [Next]_vars
  PROVE  HomeFits'
<1> USE DEF HomeFits
<1>1. ASSUME NEW p \in Procs, TrustStep(p)
      PROVE  HomeFits'
  BY <1>1, TrustMoves DEF TrustStep, FilesFit, artifacts
<1>2. ASSUME NEW p \in Procs, EloStep(p)
      PROVE  HomeFits'
  BY <1>2, EloMoves DEF EloStep, FilesFit, artifacts, catalogs
<1>3. ASSUME NEW p \in Procs, OnboardingStep(p)
      PROVE  HomeFits'
  BY <1>3, OnboardingMoves, ProfilesFit DEF OnboardingStep, artifacts
<1>4. ASSUME NEW p \in Procs, SelectionStep(p)
      PROVE  HomeFits'
  <2>1. \A id \in Personal : Len(snapshots[id]) \in Nat
    BY DEF FilesFit, ProfileIds
  <2>2. UNCHANGED <<profile, snapshots, artifact>>
    BY <1>4 DEF SelectionStep, SelectionNext, BeginSelect, ExistingRetry, CreateBinding,
                FillBinding, Approve, CreateRecord, FillRecord, SelectionWriteFails, catalogs,
                artifacts
  <2> QED
    BY <1>4, <2>1, <2>2, SelectionMoves DEF SelectionStep, FilesFit
<1>5. ASSUME NEW p \in Procs, UpgradeStep(p)
      PROVE  HomeFits'
  <2>1. UNCHANGED <<profile, snapshots, artifact>>
    BY <1>5 DEF UpgradeStep, UpgradeNext, BeginUpgrade, UpgradeReads, Reads, LoadProfile, LoadRules,
                LoadRecord, VerifyRecord, MakeAuthDir, CreateAuth, FillAuth, WriteAuthPointer,
                VerifyUpgrade, UpgradeWriteFails, catalogs, artifacts
  <2> QED
    BY <1>5, <2>1, UpgradeMoves DEF UpgradeStep, FilesFit
<1>6. ASSUME NEW p \in Procs, MigrationStep(p)
      PROVE  HomeFits'
  <2>1. UNCHANGED <<profile, snapshots>>
    BY <1>6 DEF MigrationStep, MigrationsNext, BeginSchema, SchemaReads, CreateFile, FillFile,
                ReplaceArtifact, Advance, BeginRestore, RestoreReads, PrepareRestore, FillRestore,
                PutBack, RecordRestore, FillRestored, SchemaWriteFails, catalogs
  <2> QED
    BY <1>6, <2>1, ArtifactFits, MigrationMoves DEF MigrationStep, FilesFit
<1>7. CASE RuleStep \/ UNCHANGED vars
  <2>1. UNCHANGED <<pc, job, artifact, profile, snapshots>>
    BY <1>7, RuleMoves DEF vars, control, catalogs, artifacts
  <2> QED
    BY <2>1 DEF CommandsFit, FilesFit
<1> QED
  BY <1>1, <1>2, <1>3, <1>4, <1>5, <1>6, <1>7 DEF Next

LEMMA HomeFitsAlways == Spec => []HomeFits
<1>1. Init => HomeFits
  <2>1. TrustInit => CommandsFit
    BY DEF TrustInit, CommandsFit
  <2>2. OnboardingInit /\ MigrationsInit => FilesFit
    BY VersionAssumption DEF OnboardingInit, MigrationsInit, FilesFit, Versions
  <2> QED
    BY <2>1, <2>2 DEF Init, HomeFits
<1> QED
  BY <1>1, HomeMoves, PTL DEF Spec

-----------------------------------------------------------------------------
(* Trust that is in place stays.                                           *)

\* Trust lies in a home; what is half written belongs to the one who writes it.
TrustRests ==
  /\ anchor \in Anchors \cup {Nothing}
  /\ anchor # Nothing => home
  /\ anchor = Nothing => capability = Nothing
  /\ \A p \in Procs : pc[p] = "promoteTrust" => home
  /\ \A p \in Procs : pc[p] \in {"addCapability", "fillCapability"} => anchor # Nothing
  /\ \A p \in Procs : pc[p] = "fillCapability" => capability = Torn
  /\ \A p, q \in Procs : pc[p] = "fillCapability" /\ pc[q] = "fillCapability" => p = q

TrustStays ==
  Stays(anchor, anchor') /\ Stays(capability, capability') /\ Stays(release, release')

\* A step that leaves the trust alone and does not go to write it.
LEMMA TrustQuiet ==
  ASSUME HomeFits, TrustRests, NEW p \in Procs, Others(p),
         UNCHANGED <<home, anchor, capability>>,
         pc'[p] \notin {"promoteTrust", "addCapability", "fillCapability"}
  PROVE  TrustRests'
  BY DEF TrustRests, Others

\* A trust is put in a home that has none.
LEMMA TrustPlaced ==
  ASSUME HomeFits, TrustRests, NEW p \in Procs, Others(p), NEW a \in Anchors, Places(p, a),
         anchor = Nothing, home',
         pc'[p] \notin {"promoteTrust", "addCapability", "fillCapability"}
  PROVE  TrustRests' /\ Stays(anchor, anchor') /\ Stays(capability, capability')
  BY AnchorAssumption DEF TrustRests, Others, Places, Stays, Sealed

LEMMA AnchorsStaged ==
  ASSUME HomeFits, NEW p \in Procs
  PROVE  /\ pc[p] = "promoteTrust" => StagedAnchor(p) \in Anchors
         /\ pc[p] = "renameHome" => [host |-> p, catalog |-> job[p].key] \in Anchors
<1>1. ASSUME pc[p] = "promoteTrust"
      PROVE  job[p].kind # "select" => job[p].key \in Keys \cup {Nothing}
  BY <1>1, TrustLabel DEF HomeFits, CommandsFit, TrustLabels
<1>2. ASSUME pc[p] = "renameHome"
      PROVE  job[p].key \in Keys
  BY <1>2
  DEF HomeFits, CommandsFit, Fits, InstallFits, EnrollFits, OnboardFits, ProfileFits,
      SelectFits, EvaluateFits, MigrateFits, UpgradeFits, SchemaFits, RestoreFits, TrustLabels,
      EnrollLabels, OnboardLabels, PersonalLabels, SelectLabels, EvaluateLabels, MigrateLabels,
      UpgradeLabels, FileLabels, SchemaLabels, RestoreLabels
<1> QED
  BY <1>1, <1>2 DEF StagedAnchor, Anchors, Hosts

LEMMA TrustStepKeeps ==
  ASSUME HomeFits, TrustRests, NEW p \in Procs, TrustNext(p)
  PROVE  TrustRests' /\ TrustStays
<1>0. Others(p) /\ DOMAIN pc = Procs
  BY TrustMoves DEF HomeFits, CommandsFit
<1>a. ASSUME UNCHANGED <<anchor, capability, release>>
      PROVE  TrustStays
  BY <1>a DEF TrustStays, Stays
<1>b. ASSUME NEW l, Step(p, l)
      PROVE  pc'[p] = l
  BY <1>0, <1>b DEF Step, Goto
<1>c. ASSUME Leave(p)
      PROVE  pc'[p] = "idle"
  BY <1>0, <1>c DEF Leave, Goto
<1>1. CASE BeginInstall(p) \/ BeginEnroll(p)
  <2>1. pc'[p] \in {"install", "enroll"}
    BY <1>0, <1>1 DEF BeginInstall, BeginEnroll, Begin, Goto
  <2> QED
    BY <1>0, <1>1, <1>a, <2>1, TrustQuiet DEF BeginInstall, BeginEnroll, trust
<1>2. CASE InstallReads(p)
  <2>1. UNCHANGED <<anchor, capability, release>> /\ (home => home')
        /\ pc'[p] \in {"ok", "profile", "idle", "stageTrust"}
    BY <1>2, <1>b, <1>c DEF InstallReads, Refuse, AfterTrust, AnchorState, TrustState
  <2> QED
    BY <1>0, <1>a, <2>1 DEF TrustRests, Others
<1>3. CASE StageTrust(p)
  <2>1. UNCHANGED <<anchor, capability, release, home>>
        /\ (pc'[p] = "idle" \/ (pc'[p] = "promoteTrust" /\ home))
    <3>1. CASE home
      BY <1>3, <1>b, <3>1 DEF StageTrust, trust
    <3>2. CASE ~home
      <4>1. Leave(p)
        BY <1>3, <3>2 DEF StageTrust, Refuse
      <4>2. UNCHANGED <<anchor, capability, release, home>>
        BY <1>3 DEF StageTrust, trust
      <4>3. pc'[p] = "idle"
        BY <1>c, <4>1
      <4> QED
        BY <4>2, <4>3
    <3> QED
      BY <3>1, <3>2
  <2> QED
    BY <1>0, <1>a, <2>1 DEF TrustRests, Others
<1>4. CASE PromoteTrust(p)
  <2>1. /\ Places(p, StagedAnchor(p)) /\ anchor = Nothing /\ pc[p] = "promoteTrust"
        /\ UNCHANGED <<home, release>> /\ pc'[p] = "verifyTrust"
    BY <1>4, <1>b DEF PromoteTrust
  <2>2. StagedAnchor(p) \in Anchors /\ home'
    BY <2>1, AnchorsStaged DEF TrustRests
  <2> QED
    BY <1>0, <2>1, <2>2, TrustPlaced DEF TrustStays, Stays
<1>5. CASE PromotionLost(p) \/ VerifyTrust(p)
  <2>1. UNCHANGED trust /\ pc'[p] \in {"personal", "ok", "profile", "idle"}
    BY <1>5, <1>b, <1>c DEF PromotionLost, VerifyTrust, Refuse, AfterTrust
  <2> QED
    BY <1>0, <1>a, <2>1, TrustQuiet DEF trust
<1>6. CASE PersonalReads(p)
  <2>1. UNCHANGED <<anchor, capability, release>> /\ (home => home')
        /\ (pc'[p] \in {"stageTrust", "verifyTrust"}
            \/ (pc'[p] = "addCapability" /\ anchor # Nothing))
    <3>1. UNCHANGED <<anchor, capability, release>>
      BY <1>6 DEF PersonalReads
    <3>2. CASE TrustState = "absent"
      <4>1. home' = TRUE /\ Step(p, "stageTrust")
        BY <1>6, <3>2 DEF PersonalReads
      <4>2. pc'[p] = "stageTrust"
        BY <1>b, <4>1
      <4>3. home => home'
        BY <4>1
      <4> QED
        BY <3>1, <4>2, <4>3
    <3>3. CASE TrustState = "external"
      <4>1. home' = home /\ Step(p, "addCapability")
        BY <1>6, <3>3 DEF PersonalReads
      <4>2. anchor # Nothing
        BY <3>3 DEF TrustState
      <4>3. pc'[p] = "addCapability"
        BY <1>b, <4>1
      <4> QED
        BY <3>1, <4>1, <4>2, <4>3
    <3>4. CASE TrustState \in {"personal", "hybrid"}
      <4>1. home' = home /\ Step(p, "verifyTrust")
        BY <1>6, <3>4 DEF PersonalReads
      <4>2. pc'[p] = "verifyTrust"
        BY <1>b, <4>1
      <4>3. home => home'
        BY <4>1
      <4> QED
        BY <3>1, <4>2, <4>3
    <3> QED
      BY <3>2, <3>3, <3>4 DEF TrustState
  <2> QED
    BY <1>0, <1>a, <2>1 DEF TrustRests, Others
<1>7. CASE AddCapability(p)
  <2>1. UNCHANGED <<anchor, home, release>> /\ pc[p] = "addCapability"
        /\ \/ capability = Nothing /\ capability' = Torn /\ pc'[p] = "fillCapability"
           \/ UNCHANGED capability /\ pc'[p] \in {"verifyTrust", "idle"}
    BY <1>7, <1>b, <1>c DEF AddCapability, Refuse
  <2>2. Torn # Nothing
    BY TrustAssumption
  <2> QED
    BY <1>0, <2>1, <2>2 DEF TrustRests, Others, TrustStays, Stays, Sealed
<1>8. CASE FillCapability(p)
  <2>1. UNCHANGED <<anchor, home, release>> /\ pc[p] = "fillCapability" /\ pc'[p] = "verifyTrust"
    BY <1>8, <1>b DEF FillCapability
  <2> QED
    BY <1>0, <2>1 DEF TrustRests, Others, TrustStays, Stays, Sealed
<1>9. CASE EnrollReads(p) \/ VerifyRelease(p) \/ Return(p)
  <2>1. UNCHANGED trust /\ pc'[p] \in {"promoteRelease", "ok", "idle"}
    BY <1>9, <1>b, <1>c DEF EnrollReads, VerifyRelease, Return, Refuse
  <2> QED
    BY <1>0, <1>a, <2>1, TrustQuiet DEF trust
<1>10. CASE PromoteRelease(p)
  <2>1. UNCHANGED <<home, anchor, capability>> /\ pc'[p] \in {"verifyRelease", "ok", "idle"}
        /\ (release = Nothing \/ UNCHANGED release)
    BY <1>10, <1>b, <1>c DEF PromoteRelease, Refuse
  <2> QED
    BY <1>0, <2>1, TrustQuiet DEF TrustStays, Stays, Sealed
<1>11. CASE TrustWriteFails(p)
  <2>1. UNCHANGED <<home, anchor, release>> /\ pc'[p] = "idle"
        /\ capability' = IF pc[p] = "fillCapability" THEN Nothing ELSE capability
    BY <1>11, <1>c DEF TrustWriteFails
  <2> QED
    BY <1>0, <2>1 DEF TrustRests, Others, TrustStays, Stays, Sealed
<1>12. CASE Crash(p)
  <2>1. UNCHANGED <<home, anchor, capability, release>> /\ pc'[p] = "idle"
    BY <1>12, <1>c DEF Crash
  <2> QED
    BY <1>0, <1>a, <2>1, TrustQuiet
<1> QED
  BY <1>1, <1>2, <1>3, <1>4, <1>5, <1>6, <1>7, <1>8, <1>9, <1>10, <1>11, <1>12 DEF TrustNext

LEMMA OnboardingKeepsTrust ==
  ASSUME HomeFits, TrustRests, NEW p \in Procs, OnboardingNext(p)
  PROVE  TrustRests' /\ TrustStays
<1>0. Others(p) /\ DOMAIN pc = Procs
      /\ pc'[p] \notin {"promoteTrust", "addCapability", "fillCapability"}
  BY OnboardingMoves DEF HomeFits, CommandsFit, OnboardLabels
<1>1. CASE UNCHANGED trust
  BY <1>0, <1>1, TrustQuiet DEF trust, TrustStays, Stays
<1>2. CASE RemoveEmptyHome(p)
  <2>1. UNCHANGED <<anchor, capability, release>>
        /\ (UNCHANGED home \/ HomeEmpty)
    BY <1>2 DEF RemoveEmptyHome
  <2> QED
    BY <1>0, <2>1 DEF TrustRests, Others, TrustStays, Stays, HomeEmpty, Staging
<1>3. CASE RenameHome(p)
  <2>1. /\ Places(p, [host |-> p, catalog |-> job[p].key]) /\ home' /\ UNCHANGED release
        /\ ~home \/ HomeEmpty
        /\ pc[p] = "renameHome"
    BY <1>3 DEF RenameHome
  <2>2. anchor = Nothing
    BY <2>1 DEF TrustRests, HomeEmpty
  <2>3. [host |-> p, catalog |-> job[p].key] \in Anchors
    BY <2>1, AnchorsStaged
  <2> QED
    BY <1>0, <2>1, <2>2, <2>3, TrustPlaced DEF TrustStays, Stays
<1>4. CASE RenameHomeFails(p)
  <2>1. ~home /\ UNCHANGED <<anchor, capability, release>>
    BY <1>4 DEF RenameHomeFails
  <2> QED
    BY <1>0, <2>1 DEF TrustRests, Others, TrustStays, Stays
<1> QED
  BY <1>1, <1>2, <1>3, <1>4
  DEF OnboardingNext, LockProfile, LockTimesOut, BeginProfile, InstallProfile, Ingest, IngestDies,
      BeginOnboard, OnboardReads, RenameHomeRefused, VerifyHome

\* No other component writes the trust, but the Elo ledger its three files.
LEMMA TrustUntouched ==
  ASSUME NEW p \in Procs, EloNext(p) \/ SelectionNext(p) \/ UpgradeNext(p) \/ MigrationsNext(p)
  PROVE  UNCHANGED <<home, anchor, capability, release, debris>>
<1>1. CASE EloNext(p)
  BY <1>1
  DEF EloNext, BeginEvaluate, EvaluateChecks, LockReceipt, LockRefused, EvaluateReads, RecoverHead,
      EvaluateDecides, CreateEntry, FillEntry, MoveHead, EvaluateVerifies, BeginMigrate,
      MigrateReads, UnlinkReceipt, CreateReceipt, FillReceipt, MigrateMarker, UnlinkMarker,
      CreateMarker, FillMarker, MigrateHead, UnlinkHead, CreateHead, FillHead, VerifyGenesis,
      EloWriteFails, trust
<1>2. CASE SelectionNext(p)
  BY <1>2
  DEF SelectionNext, BeginSelect, ExistingRetry, CreateBinding, FillBinding, Approve, CreateRecord,
      FillRecord, SelectionWriteFails, trust
<1>3. CASE UpgradeNext(p)
  BY <1>3
  DEF UpgradeNext, BeginUpgrade, UpgradeReads, Reads, LoadProfile, LoadRules, LoadRecord,
      VerifyRecord, MakeAuthDir, CreateAuth, FillAuth, WriteAuthPointer, VerifyUpgrade,
      UpgradeWriteFails, trust
<1>4. CASE MigrationsNext(p)
  BY <1>4
  DEF MigrationsNext, BeginSchema, SchemaReads, CreateFile, FillFile, ReplaceArtifact, Advance,
      BeginRestore, RestoreReads, PrepareRestore, FillRestore, PutBack, RecordRestore,
      FillRestored, SchemaWriteFails, trust
<1> QED
  BY <1>1, <1>2, <1>3, <1>4

\* A seal or a record that is half written belongs to the one who writes it.
SealRests ==
  /\ DOMAIN binding = Personal /\ DOMAIN selection = Runs
  /\ \A p \in Procs : pc[p] = "fillBinding" => binding[job[p].id] = Torn
  /\ \A p \in Procs : pc[p] = "fillRecord" => selection[job[p].run] = Torn
  /\ \A p, q \in Procs : p # q =>
       /\ pc[p] = "fillBinding" /\ pc[q] = "fillBinding" => job[p].id # job[q].id
       /\ pc[p] = "fillRecord" /\ pc[q] = "fillRecord" => job[p].run # job[q].run

SealsStay ==
  /\ \A i \in Personal : Stays(binding[i], binding'[i])
  /\ \A r \in Runs : Stays(selection[r], selection'[r])

LEMMA SealQuiet ==
  ASSUME HomeFits, SealRests, NEW p \in Procs, Others(p), UNCHANGED selections,
         pc'[p] \notin {"fillBinding", "fillRecord"}
  PROVE  SealRests' /\ SealsStay
  BY DEF SealRests, SealsStay, Stays, Others, selections

LEMMA SelectLabel ==
  ASSUME HomeFits, NEW p \in Procs, pc[p] \in SelectLabels
  PROVE  SelectFits(pc[p], job[p]) /\ job[p].id \in Personal /\ job[p].run \in Runs
  BY DEF HomeFits, CommandsFit, Fits, InstallFits, EnrollFits, OnboardFits, ProfileFits,
         SelectFits, EvaluateFits, MigrateFits, UpgradeFits, SchemaFits, RestoreFits, TrustLabels,
         EnrollLabels, OnboardLabels, PersonalLabels, SelectLabels, EvaluateLabels, MigrateLabels,
         UpgradeLabels, FileLabels, SchemaLabels, RestoreLabels

LEMMA SelectionKeepsSeals ==
  ASSUME HomeFits, SealRests, NEW p \in Procs, SelectionNext(p)
  PROVE  SealRests' /\ SealsStay
<1>0. Others(p) /\ DOMAIN pc = Procs /\ DOMAIN job = Procs /\ Torn # Nothing
  <2>1. \A id \in Personal : Len(snapshots[id]) \in Nat
    BY DEF HomeFits, FilesFit, ProfileIds
  <2> QED
    BY <2>1, SelectionMoves, TrustAssumption DEF HomeFits, CommandsFit
<1>b. ASSUME NEW l, Step(p, l)
      PROVE  pc'[p] = l /\ job'[p] = job[p]
  BY <1>0, <1>b DEF Step, Goto
<1>c. ASSUME Leave(p)
      PROVE  pc'[p] = "idle"
  BY <1>0, <1>c DEF Leave, Goto
<1>1. CASE BeginSelect(p)
  <2>1. pc'[p] = "existing" /\ UNCHANGED selections
    BY <1>0, <1>1 DEF BeginSelect, Begin, Goto
  <2> QED
    BY <1>0, <2>1, SealQuiet
<1>2. CASE ExistingRetry(p)
  <2>1. pc'[p] \in {"personal", "ok", "idle"} /\ UNCHANGED selections
    BY <1>2, <1>b, <1>c DEF ExistingRetry, Refuse
  <2> QED
    BY <1>0, <2>1, SealQuiet
<1>3. CASE CreateBinding(p)
  <2>1. job[p].id \in Personal
    BY <1>3, SelectLabel DEF CreateBinding, SelectLabels
  <2>2. CASE binding[job[p].id] = Nothing /\ Step(p, "fillBinding")
             /\ binding' = [binding EXCEPT ![job[p].id] = Torn]
    <3>1. pc'[p] = "fillBinding" /\ job'[p] = job[p] /\ UNCHANGED selection
      BY <1>3, <1>b, <2>2 DEF CreateBinding
    <3> QED
      BY <1>0, <2>1, <2>2, <3>1 DEF SealRests, SealsStay, Stays, Sealed, Others
  <2>3. CASE UNCHANGED binding /\ pc'[p] \in {"approve", "idle"}
    <3>1. UNCHANGED selections
      BY <1>3, <2>3 DEF CreateBinding, selections
    <3> QED
      BY <1>0, <2>3, <3>1, SealQuiet
  <2> QED
    BY <1>3, <1>b, <1>c, <2>2, <2>3 DEF CreateBinding, Refuse
<1>4. CASE FillBinding(p)
  <2>1. job[p].id \in Personal
    BY <1>4, SelectLabel DEF FillBinding, SelectLabels
  <2>2. /\ pc[p] = "fillBinding" /\ pc'[p] = "approve" /\ UNCHANGED selection
        /\ binding' = [binding EXCEPT ![job[p].id] = job[p].id]
    BY <1>4, <1>b DEF FillBinding
  <2> QED
    BY <1>0, <2>1, <2>2 DEF SealRests, SealsStay, Stays, Sealed, Others
<1>5. CASE Approve(p)
  <2>1. pc'[p] \in {"ingest", "idle"} /\ UNCHANGED selections
    BY <1>0, <1>5, <1>c DEF Approve, Refuse, Goto
  <2> QED
    BY <1>0, <2>1, SealQuiet
<1>6. CASE CreateRecord(p)
  <2>1. job[p].run \in Runs
    BY <1>6, SelectLabel DEF CreateRecord, SelectLabels
  <2>2. CASE selection[job[p].run] = Nothing /\ Step(p, "fillRecord")
             /\ selection' = [selection EXCEPT ![job[p].run] = Torn]
    <3>1. pc'[p] = "fillRecord" /\ job'[p] = job[p] /\ UNCHANGED binding
      BY <1>6, <1>b, <2>2 DEF CreateRecord
    <3> QED
      BY <1>0, <2>1, <2>2, <3>1 DEF SealRests, SealsStay, Stays, Sealed, Others
  <2>3. CASE UNCHANGED selection /\ pc'[p] \in {"ok", "idle"}
    <3>1. UNCHANGED selections
      BY <1>6, <2>3 DEF CreateRecord, selections
    <3> QED
      BY <1>0, <2>3, <3>1, SealQuiet
  <2> QED
    BY <1>6, <1>b, <1>c, <2>2, <2>3 DEF CreateRecord, Refuse
<1>7. CASE FillRecord(p)
  <2>1. job[p].run \in Runs
    BY <1>7, SelectLabel DEF FillRecord, SelectLabels
  <2>2. /\ pc[p] = "fillRecord" /\ pc'[p] = "ok" /\ UNCHANGED binding
        /\ selection' = [selection EXCEPT ![job[p].run] = Record(p)]
    BY <1>7, <1>b DEF FillRecord
  <2> QED
    BY <1>0, <2>1, <2>2 DEF SealRests, SealsStay, Stays, Sealed, Others
<1>8. CASE SelectionWriteFails(p)
  <2>1. job[p].id \in Personal /\ job[p].run \in Runs
    BY <1>8, SelectLabel DEF SelectionWriteFails, SelectLabels
  <2>2. pc'[p] = "idle"
    BY <1>8, <1>c DEF SelectionWriteFails
  <2>3. CASE pc[p] = "fillBinding" /\ UNCHANGED selection
             /\ binding' = [binding EXCEPT ![job[p].id] = Nothing]
    BY <1>0, <2>1, <2>2, <2>3 DEF SealRests, SealsStay, Stays, Sealed, Others
  <2>4. CASE pc[p] = "fillRecord" /\ UNCHANGED binding
             /\ selection' = [selection EXCEPT ![job[p].run] = Nothing]
    BY <1>0, <2>1, <2>2, <2>4 DEF SealRests, SealsStay, Stays, Sealed, Others
  <2> QED
    BY <1>8, <2>3, <2>4 DEF SelectionWriteFails
<1> QED
  BY <1>1, <1>2, <1>3, <1>4, <1>5, <1>6, <1>7, <1>8 DEF SelectionNext

LEMMA AuthorizationsGrow ==
  ASSUME [Next]_vars
  PROVE  auths \subseteq auths'
<1>1. ASSUME NEW p \in Procs, UpgradeNext(p)
      PROVE  auths \subseteq auths'
  BY <1>1 DEF UpgradeNext, BeginUpgrade, UpgradeReads, Reads, LoadProfile, LoadRules, LoadRecord,
              VerifyRecord, MakeAuthDir, CreateAuth, FillAuth, WriteAuthPointer, VerifyUpgrade,
              UpgradeWriteFails, upgrades
<1>2. CASE RuleStep
  BY <1>2 DEF RuleStep, AdvanceRules, RulesExpire, authorization
<1> QED
  BY <1>1, <1>2
  DEF Next, TrustStep, EloStep, OnboardingStep, SelectionStep, UpgradeStep, MigrationStep, vars,
      upgrades

TrustInv == HomeFits /\ TrustRests /\ SealRests

TrustHeld ==
  /\ Stays(anchor, anchor') /\ Stays(capability, capability') /\ Stays(release, release')
  /\ \A i \in Personal : Stays(binding[i], binding'[i])
  /\ \A r \in Runs : Stays(selection[r], selection'[r])
  /\ auths \subseteq auths'

LEMMA TrustInvStep ==
  ASSUME TrustInv, [Next]_vars
  PROVE  TrustInv' /\ TrustHeld
<1>0. HomeFits' /\ auths \subseteq auths'
  BY HomeMoves, AuthorizationsGrow DEF TrustInv
<1>1. SUFFICES TrustRests' /\ SealRests' /\ TrustStays /\ SealsStay
  BY <1>0 DEF TrustInv, TrustHeld, TrustStays, SealsStay
<1> USE DEF TrustInv
<1>2. ASSUME NEW p \in Procs, TrustStep(p)
      PROVE  TrustRests' /\ SealRests' /\ TrustStays /\ SealsStay
  <2>1. Others(p) /\ UNCHANGED selections /\ pc'[p] \notin {"fillBinding", "fillRecord"}
    BY <1>2, TrustMoves DEF TrustStep, HomeFits, TrustLabels, EnrollLabels, PersonalLabels
  <2> QED
    BY <1>2, <2>1, TrustStepKeeps, SealQuiet DEF TrustStep
<1>3. ASSUME NEW p \in Procs, EloStep(p)
      PROVE  TrustRests' /\ SealRests' /\ TrustStays /\ SealsStay
  <2>1. Others(p) /\ UNCHANGED selections
        /\ pc'[p] \notin {"promoteTrust", "addCapability", "fillCapability", "fillBinding", "fillRecord"}
    BY <1>3, EloMoves DEF EloStep, HomeFits, EvaluateLabels, MigrateLabels
  <2>2. UNCHANGED <<home, anchor, capability, release>>
    BY <1>3, TrustUntouched DEF EloStep
  <2> QED
    BY <2>1, <2>2, TrustQuiet, SealQuiet DEF TrustStays, Stays
<1>4. ASSUME NEW p \in Procs, OnboardingStep(p)
      PROVE  TrustRests' /\ SealRests' /\ TrustStays /\ SealsStay
  <2>1. Others(p) /\ UNCHANGED selections /\ pc'[p] \notin {"fillBinding", "fillRecord"}
    BY <1>4, OnboardingMoves DEF OnboardingStep, HomeFits, OnboardLabels
  <2> QED
    BY <1>4, <2>1, OnboardingKeepsTrust, SealQuiet DEF OnboardingStep
<1>5. ASSUME NEW p \in Procs, SelectionStep(p)
      PROVE  TrustRests' /\ SealRests' /\ TrustStays /\ SealsStay
  <2>1. \A id \in Personal : Len(snapshots[id]) \in Nat
    BY DEF HomeFits, FilesFit, ProfileIds
  <2>2. Others(p) /\ pc'[p] \notin {"promoteTrust", "addCapability", "fillCapability"}
    BY <1>5, <2>1, SelectionMoves DEF SelectionStep, HomeFits, SelectLabels
  <2>3. UNCHANGED <<home, anchor, capability, release>>
    BY <1>5, TrustUntouched DEF SelectionStep
  <2> QED
    BY <1>5, <2>2, <2>3, TrustQuiet, SelectionKeepsSeals DEF SelectionStep, TrustStays, Stays
<1>6. ASSUME NEW p \in Procs, UpgradeStep(p) \/ MigrationStep(p)
      PROVE  TrustRests' /\ SealRests' /\ TrustStays /\ SealsStay
  <2>1. Others(p) /\ UNCHANGED selections
        /\ pc'[p] \notin {"promoteTrust", "addCapability", "fillCapability", "fillBinding", "fillRecord"}
    BY <1>6, UpgradeMoves, MigrationMoves
    DEF UpgradeStep, MigrationStep, HomeFits, FilesFit, UpgradeLabels, FileLabels, SchemaLabels,
        RestoreLabels
  <2>2. UNCHANGED <<home, anchor, capability, release>>
    BY <1>6, TrustUntouched DEF UpgradeStep, MigrationStep
  <2> QED
    BY <2>1, <2>2, TrustQuiet, SealQuiet DEF TrustStays, Stays
<1>7. CASE RuleStep \/ UNCHANGED vars
  <2>1. UNCHANGED <<home, anchor, capability, release, pc, job, binding, selection>>
    BY <1>7, RuleMoves DEF vars, trust, control, selections
  <2> QED
    BY <2>1 DEF TrustRests, SealRests, TrustStays, SealsStay, Stays
<1> QED
  BY <1>2, <1>3, <1>4, <1>5, <1>6, <1>7 DEF Next

LEMMA TrustInvAlways == Spec => []TrustInv
<1>1. Init => TrustInv
  <2>1. Init => HomeFits
    BY VersionAssumption
    DEF Init, TrustInit, OnboardingInit, MigrationsInit, HomeFits, CommandsFit, FilesFit, Versions
  <2>2. Init => TrustRests
    BY DEF Init, TrustInit, TrustRests, Anchors, Hosts
  <2>3. Init => SealRests
    BY DEF Init, TrustInit, SelectionInit, SealRests
  <2> QED
    BY <2>1, <2>2, <2>3 DEF TrustInv
<1> QED
  BY <1>1, TrustInvStep, PTL DEF Spec

\* Trust that was put in place stays, for any number of processes, commands and
\* faults: no command replaces or removes an authority, a capability, a sealed
\* selection or an authorization (policy.py, release.py, personal_selection.py and
\* evaluator_upgrade.py create each exclusively).
THEOREM TrustIsForGood == Spec => TrustForGood
<1>1. TrustInv /\ [Next]_vars =>
        [/\ Stays(anchor, anchor') /\ Stays(capability, capability') /\ Stays(release, release')
         /\ \A i \in Personal : Stays(binding[i], binding'[i])
         /\ \A r \in Runs : Stays(selection[r], selection'[r])
         /\ auths \subseteq auths']_vars
  BY TrustInvStep DEF TrustHeld
<1> QED
  BY <1>1, TrustInvAlways, PTL DEF Spec, TrustForGood

-----------------------------------------------------------------------------
(* Sums over a finite set.  The library's induction theorems take an       *)
(* operator, which no prover here instantiates; its theorem about minimal  *)
(* elements does not, and a least subset for which a formula fails is all  *)
(* that induction over a finite set needs.                                 *)

\* The element of S that a fold over S takes first, and the sums over all subsets of S.
Pick(S) == CHOOSE x \in S : TRUE
Adds(f, S, g) == g = [s \in SUBSET S |-> IF s = {} THEN 0 ELSE f[Pick(s)] + g[s \ {Pick(s)}]]

\* Induction over the subsets of a finite set, by a minimal counterexample.
LEMMA SubsetInduction ==
  ASSUME NEW S, IsFiniteSet(S), NEW Q,
         \A T \in SUBSET S : (\A U \in SUBSET T : U # T => U \in Q) => T \in Q
  PROVE  SUBSET S \subseteq Q
<1> DEFINE Bad == {T \in SUBSET S : T \notin Q}
<1>1. IsWellFoundedOn(StrictSubsetOrdering(S), SUBSET S)
  BY FS_StrictSubsetOrderingWellFounded, FS_FiniteSubsetsOfFinite, Zenon
<1>2. CASE Bad # {}
  <2>1. PICK T \in Bad : \A U \in Bad : ~ (<<U, T>> \in StrictSubsetOrdering(S))
    <3>1. Bad \subseteq SUBSET S
      OBVIOUS
    <3> HIDE DEF Bad
    <3> QED
      BY <1>1, <1>2, <3>1, WFMin
  <2>2. \A U \in SUBSET T : U # T => U \in Q
    BY <2>1, Zenon DEF StrictSubsetOrdering
  <2> QED
    BY <2>1, <2>2
<1>3. CASE Bad = {}
  BY <1>3
<1> QED
  BY <1>2, <1>3

\* Two sums agree where both are defined.
LEMMA AddsOnce ==
  ASSUME NEW f, NEW S, NEW T, IsFiniteSet(S), NEW g, NEW h, Adds(f, S, g), Adds(f, T, h)
  PROVE  \A s \in SUBSET S : s \subseteq T => g[s] = h[s]
<1> DEFINE Q == {s \in SUBSET S : s \subseteq T => g[s] = h[s]}
<1>1. ASSUME NEW s \in SUBSET S, \A u \in SUBSET s : u # s => u \in Q
      PROVE  s \in Q
  <2>1. CASE ~ s \subseteq T
    BY <2>1
  <2>2. CASE s \subseteq T /\ s = {}
    BY <2>2 DEF Adds
  <2>3. CASE s \subseteq T /\ s # {}
    <3>1. Pick(s) \in s
      BY <2>3 DEF Pick
    <3>2. s \ {Pick(s)} \in Q
      BY <1>1, <3>1
    <3>3. g[s] = f[Pick(s)] + g[s \ {Pick(s)}]
      BY <2>3 DEF Adds
    <3>4. h[s] = f[Pick(s)] + h[s \ {Pick(s)}]
      BY <2>3 DEF Adds
    <3> QED
      BY <3>2, <3>3, <3>4, <2>3
  <2> QED
    BY <2>1, <2>2, <2>3
<1>2. SUBSET S \subseteq Q
  <2> HIDE DEF Q
  <2> QED
    BY <1>1, SubsetInduction
<1> QED
  BY <1>2

\* There is a sum over every finite set: the recursion that defines it ends.
LEMMA AddsExists ==
  ASSUME NEW f, NEW S, IsFiniteSet(S)
  PROVE  \E g : Adds(f, S, g)
<1> DEFINE Q == {s \in SUBSET S : \E g : Adds(f, s, g)}
           G(s) == CHOOSE g : Adds(f, s, g)
<1>1. ASSUME NEW s \in SUBSET S, \A u \in SUBSET s : u # s => u \in Q
      PROVE  s \in Q
  <2> DEFINE last == f[Pick(s)] + G(s \ {Pick(s)})[s \ {Pick(s)}]
             g == [u \in SUBSET s |-> IF u = {} THEN 0 ELSE IF u = s THEN last ELSE G(u)[u]]
             next == [u \in SUBSET s |-> IF u = {} THEN 0 ELSE f[Pick(u)] + g[u \ {Pick(u)}]]
  <2>1. \A u \in SUBSET s : u # s => Adds(f, u, G(u))
    BY <1>1, Zenon
  <2>2. ASSUME NEW u \in SUBSET s, u # {}
        PROVE  g[u] = f[Pick(u)] + g[u \ {Pick(u)}]
    <3> DEFINE w == u \ {Pick(u)}
    <3>1. Pick(u) \in u /\ w \in SUBSET s /\ w # s /\ w \in SUBSET u /\ w # u
      BY <2>2 DEF Pick
    <3>2. Adds(f, w, G(w))
      BY <2>1, <3>1
    <3>3. g[w] = G(w)[w]
      <4>1. CASE w = {}
        <5> HIDE DEF G
        <5> QED
          BY <4>1, <3>1, <3>2 DEF Adds
      <4>2. CASE w # {}
        BY <4>2, <3>1
      <4> QED
        BY <4>1, <4>2
    <3>4. CASE u = s
      <4>1. g[u] = last
        BY <3>4, <2>2
      <4> HIDE DEF g, G
      <4> QED
        BY <4>1, <3>3, <3>4
    <3>5. CASE u # s
      <4>1. Adds(f, u, G(u))
        BY <2>1, <3>5
      <4>2. G(u)[u] = f[Pick(u)] + G(u)[w]
        <5> HIDE DEF G
        <5> QED
          BY <4>1, <2>2, <3>1 DEF Adds
      <4>3. G(u)[w] = G(w)[w]
        <5>1. IsFiniteSet(u)
          BY FS_Subset
        <5> HIDE DEF G, w
        <5> QED
          BY <5>1, <4>1, <3>1, <3>2, AddsOnce
      <4>4. g[u] = G(u)[u]
        BY <2>2, <3>5
      <4> HIDE DEF g, G
      <4> QED
        BY <4>2, <4>3, <4>4, <3>3
    <3> QED
      BY <3>4, <3>5
  <2>3. g = next
    <3>1. \A u \in SUBSET s : g[u] = next[u]
      <4>1. g[{}] = 0 
        OBVIOUS
      <4> HIDE DEF g
      <4> QED
        BY <2>2, <4>1
    <3> QED
      BY <3>1, Zenon
  <2>4. Adds(f, s, g)
    <3> HIDE DEF g
    <3> QED
      BY <2>3, Zenon DEF Adds
  <2> HIDE DEF g, G
  <2> QED
    BY <2>4
<1>2. SUBSET S \subseteq Q
  <2> HIDE DEF Q
  <2> QED
    BY <1>1, SubsetInduction
<1> QED
  BY <1>2

\* So SumFunctionOnSet is what its recursion says.
LEMMA SumUnfolds ==
  ASSUME NEW f, NEW S, IsFiniteSet(S)
  PROVE  /\ SumFunctionOnSet(f, {}) = 0
         /\ S # {} => SumFunctionOnSet(f, S) = f[Pick(S)] + SumFunctionOnSet(f, S \ {Pick(S)})
<1> DEFINE G(s) == CHOOSE g : Adds(f, s, g)
<1>1. \A s : SumFunctionOnSet(f, s) = G(s)[s]
  BY Zenon DEF SumFunctionOnSet, FoldFunctionOnSet, MapThenFoldSet, Adds, Pick
<1>2. \A s \in SUBSET S : Adds(f, s, G(s))
  BY AddsExists, FS_Subset, Zenon
<1>3. Adds(f, {}, G({}))
  BY <1>2
<1>4. SumFunctionOnSet(f, {}) = 0
  <2> HIDE DEF G
  <2> QED
    BY <1>1, <1>3 DEF Adds
<1>5. ASSUME S # {}
      PROVE  SumFunctionOnSet(f, S) = f[Pick(S)] + SumFunctionOnSet(f, S \ {Pick(S)})
  <2> DEFINE w == S \ {Pick(S)}
  <2>1. Adds(f, S, G(S)) /\ Adds(f, w, G(w)) /\ IsFiniteSet(w)
    BY <1>2, FS_Subset
  <2>2. G(S)[w] = G(w)[w]
    <3> HIDE DEF G
    <3> QED
      BY <2>1, AddsOnce
  <2>3. G(S)[S] = f[Pick(S)] + G(S)[w]
    <3> HIDE DEF G
    <3> QED
      BY <2>1, <1>5 DEF Adds
  <2> HIDE DEF G
  <2> QED
    BY <1>1, <2>2, <2>3
<1> QED
  BY <1>4, <1>5

\* Numbers add up to a number.
LEMMA SumIsInt ==
  ASSUME NEW S, IsFiniteSet(S), NEW f, \A x \in S : f[x] \in Int
  PROVE  SumFunctionOnSet(f, S) \in Int
<1> DEFINE Q == {s \in SUBSET S : SumFunctionOnSet(f, s) \in Int}
<1>1. ASSUME NEW s \in SUBSET S, \A u \in SUBSET s : u # s => u \in Q
      PROVE  s \in Q
  <2>1. CASE s = {}
    <3>1. SumFunctionOnSet(f, {}) = 0
      BY SumUnfolds, FS_EmptySet
    <3> QED
      BY <2>1, <3>1
  <2>2. CASE s # {}
    <3>1. IsFiniteSet(s) /\ Pick(s) \in s
      BY <2>2, FS_Subset DEF Pick
    <3>2. s \ {Pick(s)} \in Q
      BY <1>1, <3>1
    <3>3. SumFunctionOnSet(f, s) = f[Pick(s)] + SumFunctionOnSet(f, s \ {Pick(s)})
      BY <2>2, <3>1, SumUnfolds
    <3> QED
      BY <3>1, <3>2, <3>3
  <2> QED
    BY <2>1, <2>2
<1>2. SUBSET S \subseteq Q
  <2> HIDE DEF Q
  <2> QED
    BY <1>1, SubsetInduction
<1> QED
  BY <1>2

\* The order does not matter: any element can be taken out first.
LEMMA SumWithout ==
  ASSUME NEW S, IsFiniteSet(S), NEW f, \A x \in S : f[x] \in Int
  PROVE  \A x \in S : SumFunctionOnSet(f, S) = f[x] + SumFunctionOnSet(f, S \ {x})
<1> DEFINE Q == {s \in SUBSET S :
                   \A x \in s : SumFunctionOnSet(f, s) = f[x] + SumFunctionOnSet(f, s \ {x})}
<1>1. ASSUME NEW s \in SUBSET S, \A u \in SUBSET s : u # s => u \in Q
      PROVE  s \in Q
  <2>1. ASSUME NEW x \in s
        PROVE  SumFunctionOnSet(f, s) = f[x] + SumFunctionOnSet(f, s \ {x})
    <3> DEFINE y == Pick(s)
    <3>1. y \in s /\ IsFiniteSet(s) /\ IsFiniteSet(s \ {x}) /\ IsFiniteSet(s \ {y})
      BY <2>1, FS_Subset DEF Pick
    <3>2. SumFunctionOnSet(f, s) = f[y] + SumFunctionOnSet(f, s \ {y})
      BY <3>1, SumUnfolds
    <3>3. CASE x = y
      BY <3>2, <3>3
    <3>4. CASE x # y
      <4>1. s \ {x} \in Q /\ s \ {y} \in Q
        BY <1>1, <3>1
      <4>2. /\ SumFunctionOnSet(f, s \ {y}) = f[x] + SumFunctionOnSet(f, (s \ {y}) \ {x})
            /\ SumFunctionOnSet(f, s \ {x}) = f[y] + SumFunctionOnSet(f, (s \ {x}) \ {y})
        BY <3>1, <3>4, <4>1
      <4>3. (s \ {y}) \ {x} = (s \ {x}) \ {y} /\ IsFiniteSet((s \ {x}) \ {y})
        BY <3>1, FS_Subset
      <4>4. SumFunctionOnSet(f, (s \ {x}) \ {y}) \in Int /\ f[x] \in Int /\ f[y] \in Int
        BY <3>1, <4>3, SumIsInt
      <4>5. PICK r \in Int : r = SumFunctionOnSet(f, (s \ {x}) \ {y})
        BY <4>4
      <4>6. SumFunctionOnSet(f, s \ {y}) = f[x] + r /\ SumFunctionOnSet(f, s \ {x}) = f[y] + r
        BY <4>2, <4>3, <4>5, Zenon
      <4> HIDE DEF Q, y
      <4> QED
        BY <3>2, <4>4, <4>6
    <3> QED
      BY <3>3, <3>4
  <2> QED
    BY <2>1
<1>2. SUBSET S \subseteq Q
  <2> HIDE DEF Q
  <2> QED
    BY <1>1, SubsetInduction
<1> QED
  BY <1>2

\* Term by term.
LEMMA SumMonotone ==
  ASSUME NEW S, IsFiniteSet(S), NEW f, NEW g,
         \A x \in S : f[x] \in Int /\ g[x] \in Int /\ f[x] <= g[x]
  PROVE  SumFunctionOnSet(f, S) <= SumFunctionOnSet(g, S)
<1> DEFINE Q == {s \in SUBSET S : SumFunctionOnSet(f, s) <= SumFunctionOnSet(g, s)}
<1>1. ASSUME NEW s \in SUBSET S, \A u \in SUBSET s : u # s => u \in Q
      PROVE  s \in Q
  <2>1. CASE s = {}
    <3>1. SumFunctionOnSet(f, {}) = 0 /\ SumFunctionOnSet(g, {}) = 0
      BY SumUnfolds, FS_EmptySet
    <3> QED
      BY <2>1, <3>1
  <2>2. CASE s # {}
    <3>1. PICK x \in s : TRUE
      BY <2>2
    <3>2. IsFiniteSet(s) /\ IsFiniteSet(s \ {x}) /\ s \ {x} \in Q
      BY <1>1, FS_Subset
    <3>3. /\ SumFunctionOnSet(f, s) = f[x] + SumFunctionOnSet(f, s \ {x})
          /\ SumFunctionOnSet(g, s) = g[x] + SumFunctionOnSet(g, s \ {x})
      BY <3>2, SumWithout
    <3>4. SumFunctionOnSet(f, s \ {x}) \in Int /\ SumFunctionOnSet(g, s \ {x}) \in Int
      BY <3>2, SumIsInt
    <3> QED
      BY <3>2, <3>3, <3>4
  <2> QED
    BY <2>1, <2>2
<1>2. SUBSET S \subseteq Q
  <2> HIDE DEF Q
  <2> QED
    BY <1>1, SubsetInduction
<1> QED
  BY <1>2

\* A sum of nothing but zeros.
LEMMA SumOfZeros ==
  ASSUME NEW S, IsFiniteSet(S), NEW f, \A x \in S : f[x] = 0
  PROVE  SumFunctionOnSet(f, S) = 0
<1> DEFINE Q == {s \in SUBSET S : SumFunctionOnSet(f, s) = 0}
<1>1. ASSUME NEW s \in SUBSET S, \A u \in SUBSET s : u # s => u \in Q
      PROVE  s \in Q
  <2>1. CASE s = {}
    <3>1. SumFunctionOnSet(f, {}) = 0
      BY SumUnfolds, FS_EmptySet
    <3> QED
      BY <2>1, <3>1
  <2>2. CASE s # {}
    <3>1. PICK x \in s : TRUE
      BY <2>2
    <3>2. IsFiniteSet(s) /\ s \ {x} \in Q
      BY <1>1, <3>1, FS_Subset
    <3>3. SumFunctionOnSet(f, s) = f[x] + SumFunctionOnSet(f, s \ {x})
      BY <3>2, SumWithout
    <3> QED
      BY <3>2, <3>3
  <2> QED
    BY <2>1, <2>2
<1>2. SUBSET S \subseteq Q
  <2> HIDE DEF Q
  <2> QED
    BY <1>1, SubsetInduction
<1> QED
  BY <1>2

\* More terms, none of them negative.
LEMMA SumOfSubset ==
  ASSUME NEW S, IsFiniteSet(S), NEW f, \A x \in S : f[x] \in Nat, NEW T \in SUBSET S
  PROVE  /\ SumFunctionOnSet(f, T) \in Nat /\ SumFunctionOnSet(f, S) \in Nat
         /\ SumFunctionOnSet(f, T) <= SumFunctionOnSet(f, S)
<1> DEFINE Q == {s \in SUBSET S : /\ SumFunctionOnSet(f, s) \in Nat
                                  /\ \A t \in SUBSET s : SumFunctionOnSet(f, t) <= SumFunctionOnSet(f, s)}
<1>1. ASSUME NEW s \in SUBSET S, \A u \in SUBSET s : u # s => u \in Q
      PROVE  s \in Q
  <2>0. IsFiniteSet(s) /\ SumFunctionOnSet(f, s) \in Int
    BY FS_Subset, SumIsInt
  <2>1. SumFunctionOnSet(f, {}) = 0
    BY SumUnfolds, FS_EmptySet
  <2>2. ASSUME NEW x \in s
        PROVE  /\ SumFunctionOnSet(f, s \ {x}) \in Nat
               /\ SumFunctionOnSet(f, s \ {x}) <= SumFunctionOnSet(f, s)
               /\ \A t \in SUBSET (s \ {x}) : SumFunctionOnSet(f, t) <= SumFunctionOnSet(f, s \ {x})
    <3>1. s \ {x} \in Q
      BY <1>1
    <3>2. SumFunctionOnSet(f, s) = f[x] + SumFunctionOnSet(f, s \ {x})
      BY <2>0, SumWithout
    <3> QED
      BY <3>1, <3>2
  <2>3. SumFunctionOnSet(f, s) \in Nat
    <3>1. CASE s = {}
      BY <2>1, <3>1
    <3>2. CASE s # {}
      <4>1. PICK x \in s : TRUE
        BY <3>2
      <4>2. /\ SumFunctionOnSet(f, s \ {x}) \in Nat
            /\ SumFunctionOnSet(f, s \ {x}) <= SumFunctionOnSet(f, s)
        BY <2>2
      <4> QED
        BY <2>0, <4>2
    <3> QED
      BY <3>1, <3>2
  <2>4. ASSUME NEW t \in SUBSET s
        PROVE  SumFunctionOnSet(f, t) <= SumFunctionOnSet(f, s)
    <3>1. CASE t = s
      BY <2>3, <3>1
    <3>2. CASE t # s
      <4>1. PICK x \in s : x \notin t
        BY <3>2
      <4>2. IsFiniteSet(t) /\ SumFunctionOnSet(f, t) \in Int
        BY <2>0, FS_Subset, SumIsInt
      <4>3. SumFunctionOnSet(f, t) <= SumFunctionOnSet(f, s \ {x})
        BY <2>2, <4>1
      <4>4. SumFunctionOnSet(f, s \ {x}) \in Nat /\ SumFunctionOnSet(f, s \ {x}) <= SumFunctionOnSet(f, s)
        BY <2>2
      <4> QED
        BY <2>3, <4>2, <4>3, <4>4
    <3> QED
      BY <3>1, <3>2
  <2> QED
    BY <2>3, <2>4
<1>2. SUBSET S \subseteq Q
  <2> HIDE DEF Q
  <2> QED
    BY <1>1, SubsetInduction
<1> QED
  BY <1>2
-----------------------------------------------------------------------------
(* What an evaluation is worth.                                            *)

\* A share of at most one rounds to at most the whole.
LEMMA RoundedShare ==
  ASSUME NEW k \in Nat, NEW w \in Nat, NEW d \in Nat \ {0}, w <= d
  PROVE  RoundHalfUp(k * w, d) \in 0 .. k /\ (w = 0 => RoundHalfUp(k * w, d) = 0)
<1> DEFINE n == 2 * (k * w) + d
           q == n \div (2 * d)
<1>1. k * w \in Nat /\ k * w <= k * d /\ k * d \in Nat
  <2>1. PICK r \in Nat : d = w + r
    <3>1. d - w \in Nat /\ d = w + (d - w)
      OBVIOUS
    <3> QED
      BY <3>1
  <2>2. k * d = k * w + k * r /\ k * r \in Nat /\ k * w \in Nat
    BY <2>1
  <2> QED
    BY <2>2
<1>2. n \in Nat /\ n < (2 * d) * (k + 1)
  <2>1. (2 * d) * (k + 1) = 2 * (k * d) + 2 * d
    OBVIOUS
  <2> QED
    BY <1>1, <2>1
<1>3. q \in Int /\ (2 * d) * q <= n /\ n < (2 * d) * (q + 1)
  <2> HIDE DEF n
  <2> QED
    BY <1>2
<1>4. q >= 0
  <2>1. SUFFICES ASSUME q < 0 PROVE FALSE
    BY <1>3
  <2>2. q + 1 <= 0
    BY <1>3, <2>1
  <2>3. (2 * d) * (q + 1) <= 0
    <3> HIDE DEF q, n
    <3> QED
      BY <1>3, <2>2
  <2> HIDE DEF q, n
  <2> QED
    BY <1>2, <1>3, <2>3
<1>5. q <= k
  <2>1. SUFFICES ASSUME q >= k + 1 PROVE FALSE
    BY <1>3
  <2>2. (2 * d) * q >= (2 * d) * (k + 1)
    <3>1. PICK r \in Nat : q = (k + 1) + r
      <4>1. q - (k + 1) \in Nat /\ q = (k + 1) + (q - (k + 1))
        <5> HIDE DEF q
        <5> QED
          BY <1>3, <2>1
      <4> QED
        BY <4>1
    <3>2. (2 * d) * q = (2 * d) * (k + 1) + (2 * d) * r /\ (2 * d) * r \in Nat
      <4> HIDE DEF q
      <4> QED
        BY <3>1
    <3>3. (2 * d) * (k + 1) \in Int
      OBVIOUS
    <3> HIDE DEF q
    <3> QED
      BY <3>2, <3>3
  <2> HIDE DEF q, n
  <2> QED
    BY <1>2, <1>3, <2>2
<1>6. ASSUME w = 0 PROVE q = 0
  <2>1. n = d
    BY <1>6
  <2>2. n < 2 * d
    BY <2>1
  <2>3. q < 1
    <3>1. SUFFICES ASSUME q >= 1 PROVE FALSE
      BY <1>3
    <3>2. (2 * d) * q >= 2 * d
      <4> HIDE DEF q, n
      <4> QED
        BY <1>3, <3>1
    <3> HIDE DEF q, n
    <3> QED
      BY <1>2, <1>3, <2>2, <3>2
  <2> HIDE DEF q, n
  <2> QED
    BY <1>3, <1>4, <2>3
<1>7. RoundHalfUp(k * w, d) = q
  BY DEF RoundHalfUp
<1> HIDE DEF q, n
<1> QED
  BY <1>3, <1>4, <1>5, <1>6, <1>7

\* Any part of a category weighs something, and no more than the category.
LEMMA WeightFits ==
  ASSUME NEW c \in Categories, NEW A \in SUBSET Achievements
  PROVE  /\ WeightOf(In(c, A)) \in Nat /\ WeightOf(In(c, Achievements)) \in Nat \ {0}
         /\ WeightOf(In(c, A)) <= WeightOf(In(c, Achievements))
         /\ In(c, A) = {} => WeightOf(In(c, A)) = 0
<1> DEFINE All == In(c, Achievements)
<1>1. IsFiniteSet(All) /\ In(c, A) \in SUBSET All /\ \A a \in All : Weight[a] \in Nat \ {0}
  BY SuiteAssumption, FS_Subset DEF In
<1>2. /\ WeightOf(In(c, A)) \in Nat /\ WeightOf(All) \in Nat
      /\ WeightOf(In(c, A)) <= WeightOf(All)
  BY <1>1, SumOfSubset DEF WeightOf
<1>3. PICK a \in All : TRUE
  BY SuiteAssumption DEF In
<1>4. WeightOf(All) = Weight[a] + WeightOf(All \ {a})
  BY <1>1, SumWithout DEF WeightOf
<1>5. WeightOf(All \ {a}) \in Nat
  BY <1>1, SumOfSubset DEF WeightOf
<1>6. In(c, A) = {} => WeightOf(In(c, A)) = 0
  BY SumOfZeros, FS_EmptySet DEF WeightOf
<1> QED
  BY <1>1, <1>2, <1>4, <1>5, <1>6

\* A category moves the score by its cap at most, up only for what is newly passed
\* while every loss is confirmed, and down only for a confirmed loss.
LEMMA CategoryMoves ==
  ASSUME NEW c \in Categories, NEW ids, NEW b \in Results, NEW d \in Results
  PROVE  /\ CategoryDelta(c, ids, b, d) \in -Cap[c] .. Cap[c]
         /\ NewlyPassed(ids, b, d) = {} \/ Lost(b, d) # Regressed(b, d)
              => CategoryDelta(c, ids, b, d) <= 0
         /\ Regressed(b, d) = {} => CategoryDelta(c, ids, b, d) >= 0
<1> DEFINE gain == WeightOf(In(c, NewlyPassed(ids, b, d)))
           loss == WeightOf(In(c, Regressed(b, d)))
           total == WeightOf(In(c, Achievements))
           net == gain - loss
<1>1. NewlyPassed(ids, b, d) \in SUBSET Achievements /\ Regressed(b, d) \in SUBSET Achievements
  BY DEF NewlyPassed, Regressed, Lost, PassedIn
<1>2. /\ gain \in Nat /\ loss \in Nat /\ total \in Nat \ {0} /\ gain <= total /\ loss <= total
      /\ NewlyPassed(ids, b, d) = {} => gain = 0
      /\ Regressed(b, d) = {} => loss = 0
  BY <1>1, WeightFits DEF In
<1>3. Cap[c] \in Nat
  BY SuiteAssumption
<1>4. CategoryDelta(c, ids, b, d) =
        IF net < 0 THEN -RoundHalfUp(Cap[c] * (-net), total)
        ELSE IF Lost(b, d) # Regressed(b, d) THEN 0
        ELSE RoundHalfUp(Cap[c] * net, total)
  BY DEF CategoryDelta
<1> HIDE DEF gain, loss, total
<1>5. CASE net < 0
  <2>1. -net \in Nat /\ -net <= total
    BY <1>2, <1>5
  <2>2. RoundHalfUp(Cap[c] * (-net), total) \in 0 .. Cap[c]
    BY <1>2, <1>3, <2>1, RoundedShare
  <2>3. loss # 0
    BY <1>2, <1>5
  <2> QED
    BY <1>2, <1>3, <1>4, <1>5, <2>2, <2>3
<1>6. CASE ~(net < 0)
  <2>1. net \in Nat /\ net <= total /\ (gain = 0 => net = 0)
    BY <1>2, <1>6
  <2>2. /\ RoundHalfUp(Cap[c] * net, total) \in 0 .. Cap[c]
        /\ net = 0 => RoundHalfUp(Cap[c] * net, total) = 0
    BY <1>2, <1>3, <2>1, RoundedShare
  <2> QED
    BY <1>2, <1>3, <1>4, <1>6, <2>1, <2>2
<1> QED
  BY <1>5, <1>6

\* An evaluation moves the score by EvaluationCap at most; it raises it only for what
\* was never passed before, while every loss is confirmed, and lowers it only for a
\* confirmed loss (elo.py, _derive_evaluation).
THEOREM ScoreMovesAsDeserved ==
  ASSUME NEW ids, NEW b \in Results, NEW d \in Results
  PROVE  /\ Delta(ids, b, d) \in -EvaluationCap .. EvaluationCap
         /\ NewlyPassed(ids, b, d) = {} \/ Lost(b, d) # Regressed(b, d) => Delta(ids, b, d) <= 0
         /\ Regressed(b, d) = {} => Delta(ids, b, d) >= 0
<1> DEFINE f == [c \in Categories |-> CategoryDelta(c, ids, b, d)]
           zero == [c \in Categories |-> 0]
           sum == SumFunctionOnSet(f, Categories)
<1>1. IsFiniteSet(Categories) /\ EvaluationCap \in Nat
  BY SuiteAssumption
<1>2. \A c \in Categories : f[c] \in Int
  BY CategoryMoves, SuiteAssumption
<1>3. sum \in Int
  <2> HIDE DEF f
  <2> QED
    BY <1>1, <1>2, SumIsInt
<1>4. SumFunctionOnSet(zero, Categories) = 0
  BY <1>1, SumOfZeros
<1>5. ASSUME NewlyPassed(ids, b, d) = {} \/ Lost(b, d) # Regressed(b, d)
      PROVE  sum <= 0
  <2>1. \A c \in Categories : f[c] \in Int /\ zero[c] \in Int /\ f[c] <= zero[c]
    BY <1>2, <1>5, CategoryMoves
  <2> HIDE DEF f, zero
  <2> QED
    BY <1>1, <1>4, <2>1, SumMonotone
<1>6. ASSUME Regressed(b, d) = {}
      PROVE  sum >= 0
  <2>1. \A c \in Categories : zero[c] \in Int /\ f[c] \in Int /\ zero[c] <= f[c]
    BY <1>2, <1>6, CategoryMoves
  <2>2. SumFunctionOnSet(zero, Categories) <= sum
    <3> HIDE DEF f, zero
    <3> QED
      BY <1>1, <2>1, SumMonotone
  <2> HIDE DEF f, zero
  <2> QED
    BY <1>3, <1>4, <2>2
<1>7. Delta(ids, b, d) = Clamp(-EvaluationCap, EvaluationCap, sum)
  BY Zenon DEF Delta, SumFunction
<1> HIDE DEF sum
<1> QED
  BY <1>1, <1>3, <1>5, <1>6, <1>7 DEF Clamp

-----------------------------------------------------------------------------
(* Achievements count once.                                                *)

LockedLabels ==
  {"eloRead", "eloRecover", "eloDecide", "createEntry", "fillEntry", "moveHead", "eloVerify"}

\* The one evaluation past the lock decides on the entries that are there.
EloRests ==
  /\ \A p \in Procs : pc[p] \in LockedLabels => eloLock = p
  /\ \A p \in Procs : pc[p] \in {"createEntry", "fillEntry"} =>
       /\ job[p].entry = EntryFor(job[p].base, job[p].cand)
       /\ Continues(job[p].base, job[p].cand)

\* Entries are numbered without gaps, and each knows all that was passed before it.
EntriesRest ==
  /\ IsFiniteSet(entries) /\ entries \subseteq Entries
  /\ entries # {} => \E e \in entries : e.seq = Cardinality(entries)
  /\ \A e \in entries :
       /\ e.seq \in 1 .. Cardinality(entries) /\ e.new \subseteq e.ids
       /\ e.base \in Results /\ e.cand \in Results
       /\ e.score \in ScoreMin .. ScoreMax
  /\ AwardedOnce

EloInv == HomeFits /\ EloRests /\ EntriesRest

LEMMA LatestIsLast ==
  ASSUME EntriesRest, entries # {}
  PROVE  Latest \in entries /\ \A f \in entries : f.seq <= Latest.seq
<1>1. PICK e \in entries : e.seq = Cardinality(entries)
  BY DEF EntriesRest
<1>2. \A f \in entries : f.seq <= e.seq
  BY <1>1 DEF EntriesRest
<1> QED
  BY <1>1, <1>2 DEF Latest

LEMMA EntryStays ==
  ASSUME UNCHANGED entries, NEW b, NEW c
  PROVE  EntryFor(b, c)' = EntryFor(b, c) /\ Continues(b, c)' = Continues(b, c)
  BY DEF EntryFor, Continues, Latest

\* A step without the lock, which leaves the lock to the one who has it.
LEMMA EloQuiet ==
  ASSUME EloInv, NEW p \in Procs, Others(p), UNCHANGED entries, pc'[p] \notin LockedLabels,
         \A q \in Procs : q # p /\ eloLock = q /\ pc[q] # "idle" => eloLock' = q
  PROVE  EloRests' /\ EntriesRest'
<1>1. EntriesRest'
  BY DEF EloInv, EntriesRest, AwardedOnce
<1>2. \A q \in Procs : pc'[q] \in LockedLabels =>
        q # p /\ pc'[q] = pc[q] /\ job'[q] = job[q] /\ eloLock' = q
  BY DEF EloInv, EloRests, Others, LockedLabels
<1>3. ASSUME NEW q \in Procs, pc'[q] \in {"createEntry", "fillEntry"}
      PROVE  /\ job'[q].entry = EntryFor(job[q].base, job[q].cand)'
             /\ Continues(job[q].base, job[q].cand)'
  <2>1. pc[q] \in {"createEntry", "fillEntry"} /\ job'[q] = job[q]
    BY <1>2, <1>3 DEF LockedLabels
  <2>2. PICK b, c : b = job[q].base /\ c = job[q].cand
    OBVIOUS
  <2>3. job[q].entry = EntryFor(b, c) /\ Continues(b, c)
    BY <2>1, <2>2 DEF EloInv, EloRests
  <2>4. job[q].entry = EntryFor(b, c)' /\ Continues(b, c)'
    BY <2>3, EntryStays
  <2>5. job'[q].base = b /\ job'[q].cand = c
    BY <2>1, <2>2
  <2> QED
    BY <2>1, <2>4, <2>5
<1> QED
  BY <1>1, <1>2, <1>3 DEF EloRests

\* A step of the evaluation that has the lock, short of a new entry.
LEMMA EloForward ==
  ASSUME EloInv, NEW p \in Procs, Others(p), UNCHANGED entries,
         pc'[p] \in LockedLabels, eloLock \in {p, Nothing}, eloLock' = p,
         NEW b, NEW c, b = job'[p].base, c = job'[p].cand,
         pc'[p] \in {"createEntry", "fillEntry"} =>
           job'[p].entry = EntryFor(b, c) /\ Continues(b, c)
  PROVE  EloRests' /\ EntriesRest'
<1>1. EntriesRest'
  BY DEF EloInv, EntriesRest, AwardedOnce
<1>2. \A q \in Procs : q # p => pc'[q] \notin LockedLabels
  BY TrustAssumption DEF EloInv, EloRests, Others
<1>3. EntryFor(b, c)' = EntryFor(b, c) /\ Continues(b, c)' = Continues(b, c)
  BY EntryStays
<1>4. pc'[p] \in {"createEntry", "fillEntry"} =>
        job'[p].entry = EntryFor(job[p].base, job[p].cand)' /\ Continues(job[p].base, job[p].cand)'
  BY <1>3
<1> QED
  BY <1>1, <1>2, <1>4 DEF EloRests, LockedLabels

\* What EntryFor makes of an accepted pair of results follows all entries there are.
LEMMA EntryFollows ==
  ASSUME EntriesRest, NEW b \in Results, NEW c \in Results, Continues(b, c),
         NEW n, n = EntryFor(b, c)
  PROVE  /\ n.seq = Cardinality(entries) + 1 /\ n.base = b /\ n.cand = c
         /\ n \in Entries /\ n.new \subseteq n.ids /\ n.score \in ScoreMin .. ScoreMax
         /\ \A e \in entries :
              /\ e.seq < n.seq /\ e.ids \subseteq n.ids /\ e.new \cap n.new = {}
              /\ Version[e.cand.package] < Version[n.cand.package]
<1>1. /\ n.seq = Cardinality(entries) + 1 /\ n.base = b /\ n.cand = c
      /\ n.new \subseteq PassedIn(c) /\ PassedIn(c) \subseteq n.ids
      /\ entries # {} => Latest.ids \subseteq n.ids /\ n.new \cap Latest.ids = {}
  BY DEF EntryFor, NewlyPassed
<1>2. Cardinality(entries) \in Nat
  BY FS_CardinalityType DEF EntriesRest
<1>3. ASSUME NEW e \in entries
      PROVE  /\ e.seq < n.seq /\ e.ids \subseteq n.ids /\ e.new \cap n.new = {}
             /\ Version[e.cand.package] < Version[n.cand.package]
  <2>1. Latest \in entries /\ e.seq <= Latest.seq
    BY LatestIsLast
  <2>2. /\ e.seq \in 1 .. Cardinality(entries) /\ Latest.seq \in 1 .. Cardinality(entries)
        /\ e.new \subseteq e.ids
    BY <2>1 DEF EntriesRest
  <2>3. e = Latest \/ e.seq < Latest.seq
    BY <2>1, <2>2 DEF EntriesRest, AwardedOnce
  <2>4. e.ids \subseteq Latest.ids
    BY <2>1, <2>3 DEF EntriesRest, AwardedOnce
  <2>5. e = Latest \/ Version[e.cand.package] < Version[Latest.cand.package]
    BY <2>1, <2>3 DEF EntriesRest, AwardedOnce
  <2>6. Version[Latest.cand.package] < Version[n.cand.package]
    BY <1>1 DEF Continues
  <2>7. /\ Version[e.cand.package] \in Nat /\ Version[Latest.cand.package] \in Nat
        /\ Version[n.cand.package] \in Nat
    <3>1. e.cand \in Results /\ Latest.cand \in Results /\ n.cand \in Results
      BY <1>1, <2>1 DEF EntriesRest
    <3> QED
      BY <3>1, SuiteAssumption
  <2>8. Version[e.cand.package] < Version[n.cand.package]
    BY <2>5, <2>6, <2>7
  <2>9. e.seq < n.seq
    BY <1>1, <1>2, <2>2
  <2> QED
    BY <1>1, <2>2, <2>4, <2>8, <2>9
<1>4. n.score \in ScoreMin .. ScoreMax
  <2>1. PICK score, ids : /\ score = IF entries = {} THEN ScoreMin ELSE Latest.score
                          /\ n.score = Clamp(ScoreMin, ScoreMax, score + Delta(ids, b, c))
    BY Zenon DEF EntryFor
  <2>2. score \in ScoreMin .. ScoreMax
    BY <2>1, LatestIsLast, SuiteAssumption DEF EntriesRest, ScoreMin
  <2>3. Delta(ids, b, c) \in Int /\ ScoreMin \in Int /\ ScoreMax \in Int /\ ScoreMin <= ScoreMax
    BY ScoreMovesAsDeserved, SuiteAssumption DEF ScoreMin
  <2> QED
    BY <2>1, <2>2, <2>3 DEF Clamp
<1>5. n \in Entries
  <2>1. entries # {} => Latest.ids \subseteq Achievements
    BY LatestIsLast DEF EntriesRest, Entries
  <2>2. n.new \subseteq Achievements /\ n.ids \subseteq Achievements
    BY <2>1 DEF EntryFor, NewlyPassed, PassedIn
  <2>3. n = [seq |-> n.seq, base |-> n.base, cand |-> n.cand, new |-> n.new, ids |-> n.ids,
             score |-> n.score]
    BY DEF EntryFor
  <2>4. n.seq \in Nat \ {0} /\ n.base \in Results /\ n.cand \in Results
    BY <1>1, <1>2
  <2> QED
    BY <1>4, <2>2, <2>3, <2>4 DEF Entries
<1> QED
  BY <1>1, <1>3, <1>4, <1>5

LEMMA EntryAdded ==
  ASSUME EntriesRest, NEW b \in Results, NEW c \in Results, Continues(b, c),
         NEW n, n = EntryFor(b, c), entries' = entries \cup {n}
  PROVE  EntriesRest'
<1>1. /\ n.seq = Cardinality(entries) + 1 /\ n.base = b /\ n.cand = c
      /\ n \in Entries /\ n.new \subseteq n.ids /\ n.score \in ScoreMin .. ScoreMax
      /\ \A e \in entries :
           /\ e.seq < n.seq /\ e.ids \subseteq n.ids /\ e.new \cap n.new = {}
           /\ Version[e.cand.package] < Version[n.cand.package]
  BY EntryFollows
<1>2. Cardinality(entries) \in Nat
  BY FS_CardinalityType DEF EntriesRest
<1>3. \A e \in entries : e.seq \in Nat /\ e.seq # n.seq
  BY <1>1, <1>2 DEF EntriesRest
<1>4. n \notin entries
  BY <1>3
<1>5. /\ IsFiniteSet(entries') /\ Cardinality(entries') = Cardinality(entries) + 1
      /\ entries' \subseteq Entries
  BY <1>1, <1>4, FS_AddElement DEF EntriesRest
<1>6. \A e \in entries' :
        /\ e.seq \in 1 .. Cardinality(entries') /\ e.new \subseteq e.ids
        /\ e.base \in Results /\ e.cand \in Results
        /\ e.score \in ScoreMin .. ScoreMax
  BY <1>1, <1>2, <1>5 DEF EntriesRest
<1>7. \A e, f \in entries' : e # f => e.seq # f.seq /\ e.new \cap f.new = {}
  BY <1>1, <1>3 DEF EntriesRest, AwardedOnce
<1>8. ASSUME NEW e \in entries', NEW f \in entries', e.seq < f.seq
      PROVE  e.ids \subseteq f.ids /\ Version[e.cand.package] < Version[f.cand.package]
  <2>1. e \in entries
    BY <1>1, <1>2, <1>3, <1>8 DEF EntriesRest
  <2> QED
    BY <1>1, <1>8, <2>1 DEF EntriesRest, AwardedOnce
<1>9. n \in entries' /\ n.seq = Cardinality(entries')
  BY <1>1, <1>5
<1> QED
  BY <1>5, <1>6, <1>7, <1>8, <1>9 DEF EntriesRest, AwardedOnce

LEMMA EvaluateLabel ==
  ASSUME HomeFits, NEW p \in Procs, pc[p] \in EvaluateLabels
  PROVE  EvaluateFits(pc[p], job[p])
  BY DEF HomeFits, CommandsFit, Fits, InstallFits, EnrollFits, OnboardFits, ProfileFits,
         SelectFits, EvaluateFits, MigrateFits, UpgradeFits, SchemaFits, RestoreFits, TrustLabels,
         EnrollLabels, OnboardLabels, PersonalLabels, SelectLabels, EvaluateLabels, MigrateLabels,
         UpgradeLabels, FileLabels, SchemaLabels, RestoreLabels

LEMMA EloStepKeeps ==
  ASSUME EloInv, NEW p \in Procs, EloNext(p)
  PROVE  EloRests' /\ EntriesRest'
<1>0. Others(p) /\ DOMAIN pc = Procs /\ DOMAIN job = Procs
  BY EloMoves DEF EloInv, HomeFits, CommandsFit
<1>b. ASSUME NEW l, Step(p, l)
      PROVE  pc'[p] = l /\ job'[p] = job[p]
  BY <1>0, <1>b DEF Step, Goto
<1>c. ASSUME Leave(p)
      PROVE  pc'[p] = "idle"
  BY <1>0, <1>c DEF Leave, Goto
<1>d. ASSUME UNCHANGED entries, pc'[p] \notin LockedLabels, UNCHANGED eloLock \/ Unlocks(p)
      PROVE  EloRests' /\ EntriesRest'
  BY <1>0, <1>d, EloQuiet DEF Unlocks
<1>e. ASSUME UNCHANGED entries, NEW l \in LockedLabels \ {"createEntry"}, Step(p, l),
             eloLock \in {p, Nothing}, eloLock' = p,
             l = "fillEntry" => pc[p] = "createEntry"
      PROVE  EloRests' /\ EntriesRest'
  <2>1. pc'[p] = l /\ job'[p] = job[p]
    BY <1>b, <1>e
  <2>2. PICK b, c : b = job[p].base /\ c = job[p].cand
    OBVIOUS
  <2>3. pc'[p] \in {"createEntry", "fillEntry"} =>
          job'[p].entry = EntryFor(b, c) /\ Continues(b, c)
    BY <1>e, <2>1, <2>2 DEF EloInv, EloRests
  <2>4. b = job'[p].base /\ c = job'[p].cand
    BY <2>1, <2>2
  <2> QED
    BY <1>0, <1>e, <2>1, <2>3, <2>4, EloForward
<1>f. pc[p] \in LockedLabels => eloLock = p
  BY DEF EloInv, EloRests
<1>1. CASE BeginEvaluate(p) \/ BeginMigrate(p)
  <2>1. pc'[p] \in {"evaluate", "migrate"} /\ UNCHANGED history
    BY <1>0, <1>1 DEF BeginEvaluate, BeginMigrate, Begin, Goto
  <2> QED
    BY <1>d, <2>1 DEF history, LockedLabels
<1>2. CASE EvaluateChecks(p) \/ LockRefused(p)
  <2>1. pc'[p] \in {"eloLock", "idle"} /\ UNCHANGED history
    BY <1>2, <1>b, <1>c DEF EvaluateChecks, LockRefused, Refuse
  <2> QED
    BY <1>d, <2>1 DEF history, LockedLabels
<1>3. CASE LockReceipt(p)
  BY <1>3, <1>e DEF LockReceipt, LockedLabels
<1>4. CASE EvaluateReads(p)
  <2>1. eloLock = p /\ UNCHANGED entries
    BY <1>4, <1>f DEF EvaluateReads, LockedLabels
  <2>2. \/ Step(p, "eloRecover") /\ UNCHANGED eloLock
        \/ Step(p, "eloDecide") /\ UNCHANGED eloLock
        \/ RefuseLocked(p)
    BY <1>4 DEF EvaluateReads
  <2> QED
    BY <1>c, <1>d, <1>e, <2>1, <2>2 DEF RefuseLocked, Refuse, LockedLabels
<1>5. CASE RecoverHead(p)
  <2>1. pc'[p] \in {"ok", "idle"} /\ UNCHANGED entries /\ Unlocks(p)
    BY <1>0, <1>5, <1>c DEF RecoverHead, Goto
  <2> QED
    BY <1>d, <2>1 DEF LockedLabels
<1>6. CASE EvaluateDecides(p)
  <2>1. eloLock = p /\ UNCHANGED entries
    BY <1>6, <1>f DEF EvaluateDecides, LockedLabels
  <2>2. CASE pc'[p] \in {"ok", "idle"} /\ Unlocks(p)
    BY <1>d, <2>1, <2>2 DEF LockedLabels
  <2>3. CASE /\ Continues(job[p].base, job[p].cand) /\ Goto(p, "createEntry") /\ UNCHANGED eloLock
             /\ job' = [job EXCEPT ![p].entry = EntryFor(job[p].base, job[p].cand)]
    <3>1. PICK b, c : b = job[p].base /\ c = job[p].cand
      OBVIOUS
    <3>2. EvaluateFits(pc[p], job[p])
      BY <1>6, EvaluateLabel DEF EvaluateDecides, EloInv, EvaluateLabels
    <3>3. job'[p].base = b /\ job'[p].cand = c /\ job'[p].entry = EntryFor(b, c)
      BY <1>0, <2>3, <3>1, <3>2 DEF EvaluateFits
    <3>4. pc'[p] = "createEntry" /\ Continues(b, c)
      BY <1>0, <2>3, <3>1 DEF Goto
    <3> QED
      BY <1>0, <2>1, <2>3, <3>3, <3>4, EloForward DEF LockedLabels
  <2>4. \/ Goto(p, "ok") /\ Unlocks(p)
        \/ /\ Continues(job[p].base, job[p].cand) /\ Goto(p, "createEntry") /\ UNCHANGED eloLock
           /\ job' = [job EXCEPT ![p].entry = EntryFor(job[p].base, job[p].cand)]
        \/ RefuseLocked(p)
    BY <1>6 DEF EvaluateDecides
  <2>5. Goto(p, "ok") => pc'[p] = "ok"
    BY <1>0 DEF Goto
  <2> QED
    BY <1>c, <2>2, <2>3, <2>4, <2>5 DEF RefuseLocked, Refuse
<1>7. CASE CreateEntry(p)
  <2>1. /\ eloLock = p /\ UNCHANGED entries /\ Step(p, "fillEntry") /\ eloLock' = p
        /\ pc[p] = "createEntry"
    BY <1>7, <1>f DEF CreateEntry, LockedLabels
  <2> QED
    BY <1>e, <2>1 DEF LockedLabels
<1>8. CASE FillEntry(p)
  <2>1. EvaluateFits(pc[p], job[p])
    BY <1>8, EvaluateLabel DEF FillEntry, EloInv, EvaluateLabels
  <2>2. PICK b \in Results, c \in Results : b = job[p].base /\ c = job[p].cand
    BY <2>1 DEF EvaluateFits
  <2>3. job[p].entry = EntryFor(b, c) /\ Continues(b, c)
    BY <1>8, <2>2 DEF FillEntry, EloInv, EloRests
  <2>4. EntriesRest'
    BY <1>8, <2>3, EntryAdded DEF FillEntry, EloInv
  <2>5. pc'[p] = "moveHead" /\ eloLock = p /\ UNCHANGED eloLock
    BY <1>8, <1>b, <1>f DEF FillEntry, LockedLabels
  <2>6. \A q \in Procs : q # p => pc'[q] \notin LockedLabels
    BY <1>0, <2>5 DEF EloInv, EloRests, Others
  <2> QED
    BY <2>4, <2>5, <2>6 DEF EloRests, LockedLabels
<1>9. CASE MoveHead(p)
  <2>1. eloLock = p /\ UNCHANGED entries /\ Step(p, "eloVerify") /\ eloLock' = p
    BY <1>9, <1>f DEF MoveHead, LockedLabels, history
  <2> QED
    BY <1>e, <2>1 DEF LockedLabels
<1>10. CASE EvaluateVerifies(p) \/ EloWriteFails(p)
  <2>1. pc'[p] \in {"ok", "idle"} /\ UNCHANGED entries /\ Unlocks(p)
    BY <1>10, <1>b, <1>c DEF EvaluateVerifies, EloWriteFails, Refuse
  <2> QED
    BY <1>d, <2>1 DEF LockedLabels
<1>11. CASE MigrateReads(p) \/ UnlinkReceipt(p) \/ CreateReceipt(p) \/ FillReceipt(p)
  <2>1. UNCHANGED history
        /\ pc'[p] \in {"unlinkReceipt", "createReceipt", "migrateMarker", "fillReceipt",
                       "createMarker", "idle"}
    BY <1>0, <1>11, <1>b, <1>c DEF MigrateReads, UnlinkReceipt, CreateReceipt, FillReceipt, Refuse, Goto
  <2> QED
    BY <1>d, <2>1 DEF history, LockedLabels
<1>12. CASE MigrateMarker(p) \/ UnlinkMarker(p) \/ CreateMarker(p) \/ FillMarker(p)
  <2>1. UNCHANGED history
        /\ pc'[p] \in {"migrateHead", "unlinkMarker", "createMarker", "fillMarker", "createHead", "idle"}
    BY <1>12, <1>b, <1>c DEF MigrateMarker, UnlinkMarker, CreateMarker, FillMarker, Refuse
  <2> QED
    BY <1>d, <2>1 DEF history, LockedLabels
<1>13. CASE MigrateHead(p) \/ UnlinkHead(p) \/ CreateHead(p) \/ FillHead(p) \/ VerifyGenesis(p)
  <2>1. UNCHANGED history
        /\ pc'[p] \in {"unlinkHead", "createHead", "fillHead", "verifyGenesis", "ok", "idle"}
    BY <1>13, <1>b, <1>c DEF MigrateHead, UnlinkHead, CreateHead, FillHead, VerifyGenesis, Refuse
  <2> QED
    BY <1>d, <2>1 DEF history, LockedLabels
<1> QED
  BY <1>1, <1>2, <1>3, <1>4, <1>5, <1>6, <1>7, <1>8, <1>9, <1>10, <1>11, <1>12, <1>13 DEF EloNext

LEMMA EloInvStep ==
  ASSUME EloInv, [Next]_vars
  PROVE  EloInv'
<1>0. HomeFits'
  BY HomeMoves DEF EloInv
<1>1. ASSUME NEW p \in Procs, TrustStep(p)
      PROVE  EloRests' /\ EntriesRest'
  <2>1. Others(p) /\ UNCHANGED entries /\ EloLeft /\ pc'[p] \notin LockedLabels
    BY <1>1, TrustMoves
    DEF TrustStep, EloInv, HomeFits, TrustLabels, EnrollLabels, PersonalLabels, LockedLabels
  <2>2. \A q \in Procs : q # p /\ eloLock = q /\ pc[q] # "idle" => eloLock' = q
    BY <2>1, TrustAssumption DEF EloLeft, Others
  <2> QED
    BY <2>1, <2>2, EloQuiet
<1>2. ASSUME NEW p \in Procs, EloStep(p)
      PROVE  EloRests' /\ EntriesRest'
  BY <1>2, EloStepKeeps DEF EloStep
<1>3. ASSUME NEW p \in Procs,
             OnboardingStep(p) \/ SelectionStep(p) \/ UpgradeStep(p) \/ MigrationStep(p)
      PROVE  EloRests' /\ EntriesRest'
  <2>1. \A id \in Personal : Len(snapshots[id]) \in Nat
    BY DEF EloInv, HomeFits, FilesFit, ProfileIds
  <2>2. Others(p) /\ pc'[p] \notin LockedLabels
    BY <1>3, <2>1, OnboardingMoves, SelectionMoves, UpgradeMoves, MigrationMoves
    DEF OnboardingStep, SelectionStep, UpgradeStep, MigrationStep, EloInv, HomeFits, FilesFit,
        OnboardLabels, SelectLabels, UpgradeLabels, FileLabels, SchemaLabels, RestoreLabels,
        LockedLabels
  <2>3. UNCHANGED <<entries, eloLock>>
    BY <1>3 DEF OnboardingStep, SelectionStep, UpgradeStep, MigrationStep, history
  <2> QED
    BY <2>2, <2>3, EloQuiet
<1>4. CASE RuleStep \/ UNCHANGED vars
  <2>1. UNCHANGED <<pc, job, entries, eloLock>>
    BY <1>4, RuleMoves DEF vars, control, history
  <2>2. EntriesRest'
    BY <2>1 DEF EloInv, EntriesRest, AwardedOnce
  <2>3. ASSUME NEW p \in Procs, pc'[p] \in {"createEntry", "fillEntry"}
        PROVE  /\ job'[p].entry = EntryFor(job[p].base, job[p].cand)'
               /\ Continues(job[p].base, job[p].cand)'
    <3>1. PICK b, c : b = job[p].base /\ c = job[p].cand
      OBVIOUS
    <3>2. job[p].entry = EntryFor(b, c) /\ Continues(b, c)
      BY <2>1, <2>3, <3>1 DEF EloInv, EloRests
    <3>3. job[p].entry = EntryFor(b, c)' /\ Continues(b, c)'
      BY <2>1, <3>2, EntryStays
    <3>4. job'[p] = job[p] /\ job'[p].base = b /\ job'[p].cand = c
      BY <2>1, <3>1
    <3> QED
      BY <3>3, <3>4
  <2>4. \A p \in Procs : pc'[p] \in LockedLabels => eloLock' = p
    BY <2>1 DEF EloInv, EloRests
  <2> QED
    BY <1>0, <2>2, <2>3, <2>4 DEF EloInv, EloRests
<1> QED
  BY <1>0, <1>1, <1>2, <1>3, <1>4 DEF Next, EloInv

LEMMA EloInvAlways == Spec => []EloInv
<1>1. Init => EloInv
  <2>1. Init => HomeFits
    BY VersionAssumption
    DEF Init, TrustInit, OnboardingInit, MigrationsInit, HomeFits, CommandsFit, FilesFit, Versions
  <2>2. Init => EloRests
    BY DEF Init, TrustInit, EloRests, LockedLabels
  <2>3. Init => EntriesRest
    BY FS_EmptySet DEF Init, EloInit, EntriesRest, AwardedOnce
  <2> QED
    BY <2>1, <2>2, <2>3 DEF EloInv
<1> QED
  BY <1>1, EloInvStep, PTL DEF Spec

\* An achievement counts once in the life of a home (elo.py appends an entry under
\* the receipt lock, numbered after the entries it has just read): retries, recovered
\* appends and rival evaluations do not count it again.
THEOREM AchievementsCountOnce == Spec => []AwardedOnce
  BY EloInvAlways, PTL DEF EloInv, EntriesRest

\* The only step that writes an entry.
LEMMA EntriesWritten ==
  ASSUME [Next]_vars, ~UNCHANGED entries
  PROVE  \E p \in Procs : FillEntry(p)
<1>1. ASSUME NEW p \in Procs, EloNext(p)
      PROVE  FillEntry(p)
  BY <1>1 DEF EloNext, BeginEvaluate, EvaluateChecks, LockReceipt, LockRefused, EvaluateReads,
              RecoverHead, EvaluateDecides, CreateEntry, MoveHead, EvaluateVerifies,
              BeginMigrate, MigrateReads, UnlinkReceipt, CreateReceipt, FillReceipt,
              MigrateMarker, UnlinkMarker, CreateMarker, FillMarker, MigrateHead, UnlinkHead,
              CreateHead, FillHead, VerifyGenesis, EloWriteFails, history
<1> QED
  BY <1>1, RuleMoves
  DEF Next, TrustStep, EloStep, OnboardingStep, SelectionStep, UpgradeStep, MigrationStep, vars,
      history

\* Where the history stands, in the terms of the files.
LEMMA StandingIs ==
  ASSUME EntriesRest
  PROVE  /\ EloChain!Standing.seq = Cardinality(entries)
         /\ EloChain!Standing.ids = IF entries = {} THEN {} ELSE Latest.ids
         /\ EloChain!Standing.score = IF entries = {} THEN ScoreMin ELSE Latest.score
         /\ EloChain!Standing.score \in ScoreMin .. ScoreMax
         /\ EloChain!Standing.package = IF entries = {} THEN Bootstrap ELSE Latest.cand.package
<1>1. EloChain!Standing =
        IF entries = {} THEN [seq |-> 0, package |-> Bootstrap, score |-> ScoreMin, ids |-> {}]
        ELSE [seq |-> Latest.seq, package |-> Latest.cand.package,
              score |-> Latest.score, ids |-> Latest.ids]
  BY Zenon DEF EloChain!Standing, Latest
<1>2. CASE entries = {}
  BY <1>1, <1>2, FS_EmptySet, SuiteAssumption DEF ScoreMin
<1>3. CASE entries # {}
  <2>1. Latest \in entries /\ \A f \in entries : f.seq <= Latest.seq
    BY <1>3, LatestIsLast
  <2>2. Cardinality(entries) \in Nat
    BY FS_CardinalityType DEF EntriesRest
  <2>3. Latest.seq = Cardinality(entries)
    BY <1>3, <2>1, <2>2 DEF EntriesRest
  <2> QED
    BY <1>1, <1>3, <2>1, <2>3 DEF EntriesRest
<1> QED
  BY <1>2, <1>3

\* The score of a new entry moves as its abstract specification says.
LEMMA EntryMoves ==
  ASSUME EntriesRest, NEW b \in Results, NEW c \in Results, Continues(b, c),
         NEW n, n = EntryFor(b, c)
  PROVE  EloChain!Counts(n) /\ EloChain!Moves(n)
<1> DEFINE ids == IF entries = {} THEN {} ELSE Latest.ids
           score == IF entries = {} THEN ScoreMin ELSE Latest.score
           delta == Delta(ids, b, c)
<1>1. /\ n.new = NewlyPassed(ids, b, c) /\ n.ids = ids \cup PassedIn(b) \cup PassedIn(c)
      /\ n.score = Clamp(ScoreMin, ScoreMax, score + delta) /\ n.base = b /\ n.cand = c
  BY Zenon DEF EntryFor
<1>2. EloChain!Standing.ids = ids /\ EloChain!Standing.score = score /\ score \in ScoreMin .. ScoreMax
  BY StandingIs
<1>3. /\ delta \in -EvaluationCap .. EvaluationCap
      /\ NewlyPassed(ids, b, c) = {} \/ Lost(b, c) # Regressed(b, c) => delta <= 0
      /\ Regressed(b, c) = {} => delta >= 0
  BY ScoreMovesAsDeserved
<1>4. EloChain!Missing(n) = Lost(b, c) /\ EloChain!Failing(n) = Regressed(b, c)
  BY <1>1 DEF EloChain!Missing, EloChain!Failing, Lost, Regressed, PassedIn, FailedIn
<1>5. EvaluationCap \in Nat /\ ScoreMin \in Int /\ ScoreMax \in Int
  BY SuiteAssumption DEF ScoreMin
<1>6. EloChain!Counts(n)
  BY <1>1, <1>2 DEF EloChain!Counts, NewlyPassed
<1> HIDE DEF ids, score, delta
<1>7. /\ n.score \in ScoreMin .. ScoreMax
      /\ n.score - score \in -EvaluationCap .. EvaluationCap
      /\ n.score > score => delta > 0
      /\ n.score < score => delta < 0
  BY <1>1, <1>2, <1>3, <1>5 DEF Clamp
<1>8. EloChain!Moves(n)
  BY <1>1, <1>2, <1>3, <1>4, <1>5, <1>7 DEF EloChain!Moves
<1> QED
  BY <1>6, <1>8

\* The Elo history is the chain of evaluations of its abstract specification, for any
\* suite, weights and caps and any number of rival or interrupted evaluations: each
\* goes on from the package accepted last to a newer one, the score moves by
\* EvaluationCap at most, up only for an achievement that was never passed, down only
\* for a confirmed loss, and stays in its range (elo.py, evaluate_elo).
THEOREM HistoryIsAChain == Spec => ImplementsRegister
<1>1. Init => EloChain!RegisterInit
  BY DEF Init, EloInit, EloChain!RegisterInit
<1>2. EloInv /\ [Next]_vars => [EloChain!RegisterNext]_entries
  <2>1. ASSUME EloInv, NEW p \in Procs, FillEntry(p)
        PROVE  EloChain!RegisterNext
    <3>1. EvaluateFits(pc[p], job[p])
      BY <2>1, EvaluateLabel DEF FillEntry, EloInv, EvaluateLabels
    <3>2. PICK b \in Results, c \in Results : b = job[p].base /\ c = job[p].cand
      BY <3>1 DEF EvaluateFits
    <3>3. PICK n : n = EntryFor(b, c)
      OBVIOUS
    <3>4. job[p].entry = n /\ Continues(b, c)
      BY <2>1, <3>2, <3>3 DEF FillEntry, EloInv, EloRests
    <3>5. EloChain!Counts(n) /\ EloChain!Moves(n)
      BY <2>1, <3>3, <3>4, EntryMoves DEF EloInv
    <3>6. n.seq = Cardinality(entries) + 1 /\ n.base = b /\ n.cand = c
      BY <3>3 DEF EntryFor
    <3>7. /\ n.seq = EloChain!Standing.seq + 1
          /\ n.base.package = EloChain!Standing.package
          /\ Version[n.cand.package] > Version[n.base.package]
      BY <2>1, <3>4, <3>6, StandingIs DEF EloInv, Continues
    <3>8. n \in entries' /\ entries' = entries \cup {n}
      BY <2>1, <3>4 DEF FillEntry
    <3> QED
      BY <3>5, <3>7, <3>8 DEF EloChain!RegisterNext, EloChain!Evaluate
  <2> QED
    BY <2>1, EntriesWritten
<1> QED
  BY <1>1, <1>2, EloInvAlways, PTL DEF Spec, ImplementsRegister, EloChain!RegisterSpec

-----------------------------------------------------------------------------
(* An interrupted append can be completed.                                 *)

\* A home that this version has installed: nothing is left in it to be enrolled.
Fresh == anchor # Nothing /\ anchor.host # Legacy
Enrolling == MigrateLabels \ {"migrate"}
Deciding == {"eloDecide", "createEntry", "fillEntry"}

\* Where a process may be, as the history and the anchors stand.
PlaceRests(q) ==
  /\ pc[q] \in {"eloLock"} \cup LockedLabels => anchor # Nothing
  /\ pc[q] \in Enrolling => anchor # Nothing /\ anchor.host = Legacy
  /\ pc[q] = "eloRecover" => entries # {}
  /\ pc[q] = "moveHead" => entries # {} /\ job[q].entry = Latest
  /\ pc[q] \in Deciding /\ Fresh => HeadIsLatest

\* An evaluation past its checks has a trust, an enrolment past its own an old one; in
\* a fresh home the anchors are whole and only the last entry may be missing from the
\* head, which an evaluation makes up for before it decides.
HeadRests ==
  /\ anchor = Nothing => entries = {}
  /\ \A p \in Procs : PlaceRests(p)
  /\ Fresh =>
       /\ receipt = anchor.host /\ marker = anchor.host
       /\ head \in [ledger : {anchor.host}, entry : Entries \cup {Nothing}]
       /\ HeadIsLatest \/ HeadIsBehind

HeadInv == TrustInv /\ EloInv /\ HeadRests

LEMMA PositionStays ==
  ASSUME UNCHANGED <<entries, head, anchor>>
  PROVE  /\ Latest' = Latest /\ Fresh' = Fresh
         /\ HeadIsLatest' = HeadIsLatest /\ HeadIsBehind' = HeadIsBehind
  BY DEF Latest, Before, Fresh, HeadIsLatest, HeadIsBehind

\* A step that leaves the anchors and the history alone.
LEMMA HeadStands ==
  ASSUME HeadInv, UNCHANGED <<anchor, receipt, marker, head, entries>>,
         \A q \in Procs : PlaceRests(q)'
  PROVE  HeadRests'
<1>1. /\ Latest' = Latest /\ Fresh' = Fresh
      /\ HeadIsLatest' = HeadIsLatest /\ HeadIsBehind' = HeadIsBehind
  BY PositionStays
<1> QED
  BY <1>1 DEF HeadInv, HeadRests

\* So does one that moves p alone.
LEMMA HeadQuiet ==
  ASSUME HeadInv, NEW p \in Procs, Others(p),
         UNCHANGED <<anchor, receipt, marker, head, entries>>,
         pc'[p] \in {"eloLock"} \cup LockedLabels => anchor # Nothing,
         pc'[p] \in Enrolling => anchor # Nothing /\ anchor.host = Legacy,
         pc'[p] = "eloRecover" => entries # {},
         pc'[p] = "moveHead" => entries # {} /\ job'[p].entry = Latest,
         pc'[p] \in Deciding => HeadIsLatest
  PROVE  HeadRests'
<1>1. /\ Latest' = Latest /\ Fresh' = Fresh /\ HeadIsLatest' = HeadIsLatest
  BY PositionStays
<1>2. ASSUME NEW q \in Procs
      PROVE  PlaceRests(q)'
  BY <1>1 DEF HeadInv, HeadRests, PlaceRests, Others
<1> QED
  BY <1>2, HeadStands

\* A trust is put in a home that has none, so nothing has been evaluated there.
LEMMA HeadPlaced ==
  ASSUME HeadInv, NEW p \in Procs, Others(p), UNCHANGED entries,
         NEW a \in Anchors, a.host = p, Places(p, a), anchor = Nothing,
         pc'[p] \notin {"eloLock"} \cup LockedLabels \cup Enrolling
  PROVE  HeadRests'
<1>1. entries = {} /\ entries' = {} /\ anchor' = a /\ anchor' # Nothing
  BY AnchorAssumption DEF HeadInv, HeadRests, Places
<1>2. /\ receipt' = anchor'.host /\ marker' = anchor'.host
      /\ head' = [ledger |-> anchor'.host, entry |-> Nothing]
  BY <1>1 DEF Places, Genesis
<1>3. HeadIsLatest'
  BY <1>1, <1>2 DEF HeadIsLatest
<1>4. \A q \in Procs : pc'[q] \notin {"eloLock"} \cup LockedLabels \cup Enrolling
  BY DEF HeadInv, HeadRests, PlaceRests, Others
<1>5. \A q \in Procs : pc'[q] \notin {"eloRecover", "moveHead"} \cup Deciding
  BY <1>4 DEF LockedLabels, Deciding
<1> QED
  BY <1>1, <1>2, <1>3, <1>4, <1>5 DEF HeadRests, PlaceRests

LEMMA TrustKeepsHead ==
  ASSUME HeadInv, NEW p \in Procs, TrustNext(p) \/ OnboardingNext(p), UNCHANGED entries
  PROVE  HeadRests'
<1>0. Others(p) /\ pc'[p] \notin {"eloLock"} \cup LockedLabels \cup Enrolling
  BY TrustMoves, OnboardingMoves
  DEF HeadInv, TrustInv, HomeFits, TrustLabels, EnrollLabels, PersonalLabels, OnboardLabels,
      LockedLabels, MigrateLabels, Enrolling
<1>1. CASE PromoteTrust(p)
  <2>1. pc[p] = "promoteTrust" /\ anchor = Nothing /\ Places(p, StagedAnchor(p))
    BY <1>1 DEF PromoteTrust
  <2>2. StagedAnchor(p) \in Anchors /\ StagedAnchor(p).host = p
    BY <2>1, AnchorsStaged DEF HeadInv, TrustInv, StagedAnchor
  <2> QED
    BY <1>0, <2>1, <2>2, HeadPlaced
<1>2. CASE RenameHome(p)
  <2>1. /\ Places(p, [host |-> p, catalog |-> job[p].key])
        /\ ~home \/ HomeEmpty
        /\ pc[p] = "renameHome"
    BY <1>2 DEF RenameHome
  <2>2. anchor = Nothing
    BY <2>1 DEF HeadInv, TrustInv, TrustRests, HomeEmpty
  <2>3. [host |-> p, catalog |-> job[p].key] \in Anchors
    BY <2>1, AnchorsStaged DEF HeadInv, TrustInv
  <2> QED
    BY <1>0, <2>1, <2>2, <2>3, HeadPlaced
<1>3. CASE UNCHANGED <<anchor, receipt, marker, head>>
  BY <1>0, <1>3, HeadQuiet DEF LockedLabels, Deciding
<1> QED
  BY <1>1, <1>2, <1>3
  DEF TrustNext, BeginInstall, InstallReads, StageTrust, PromotionLost, VerifyTrust, PersonalReads,
      AddCapability, FillCapability, BeginEnroll, EnrollReads, PromoteRelease, VerifyRelease,
      Return, TrustWriteFails, Crash, trust, elo, OnboardingNext, LockProfile, LockTimesOut,
      BeginProfile, InstallProfile, Ingest, IngestDies, BeginOnboard, OnboardReads,
      RemoveEmptyHome, RenameHomeRefused, RenameHomeFails, VerifyHome

\* The new entry is the latest, and the one before it was.
LEMMA EntryIsLatest ==
  ASSUME EntriesRest, NEW b \in Results, NEW c \in Results, Continues(b, c),
         NEW n, n = EntryFor(b, c), entries' = entries \cup {n}
  PROVE  /\ entries' # {} /\ Latest' = n /\ n \in Entries
         /\ n.seq = 1 <=> entries = {}
         /\ entries # {} => /\ Before(n)' = Latest /\ n # Latest /\ Latest \in Entries
<1>1. /\ n.seq = Cardinality(entries) + 1 /\ n \in Entries
      /\ \A e \in entries : e.seq < n.seq
  BY EntryFollows
<1>2. EntriesRest' /\ n \in entries'
  BY EntryAdded
<1>3. Cardinality(entries) \in Nat /\ \A e \in entries : e.seq \in Nat
  BY FS_CardinalityType DEF EntriesRest
<1>4. Latest' = n
  <2>1. Latest' \in entries' /\ n.seq <= Latest'.seq
    <3>1. EntriesRest' /\ entries' # {} => Latest' \in entries' /\ \A f \in entries' : f.seq <= Latest'.seq
      <4>1. EntriesRest' /\ entries' # {} => \E e \in entries' : \A f \in entries' : f.seq <= e.seq
        BY DEF EntriesRest
      <4> QED
        BY <4>1 DEF Latest
    <3> QED
      BY <1>2, <3>1
  <2> QED
    BY <1>1, <1>3, <2>1
<1>5. n.seq = 1 <=> entries = {}
  BY <1>1, <1>3, FS_EmptySet DEF EntriesRest
<1>6. ASSUME entries # {}
      PROVE  Before(n)' = Latest /\ n # Latest /\ Latest \in Entries
  <2>1. Latest \in entries /\ \A f \in entries : f.seq <= Latest.seq
    BY <1>6, LatestIsLast
  <2>2. Latest.seq = n.seq - 1 /\ Latest \in Entries /\ n # Latest
    BY <1>1, <1>3, <1>6, <2>1 DEF EntriesRest
  <2>3. \A f \in entries' : f.seq = n.seq - 1 => f = Latest
    BY <1>1, <1>3, <2>1, <2>2 DEF EntriesRest, AwardedOnce
  <2>4. Latest \in entries'
    BY <2>1
  <2>5. Before(n)' = CHOOSE f \in entries' : f.seq = n.seq - 1
    BY DEF Before
  <2> QED
    BY <2>2, <2>3, <2>4, <2>5
<1> QED
  BY <1>1, <1>2, <1>4, <1>5, <1>6

\* Steps of an evaluation: the head is behind only between the entry and the move.
LEMMA EvaluationKeepsHead ==
  ASSUME HeadInv, EloInv', NEW p \in Procs, EloNext(p), pc[p] \notin MigrateLabels,
         pc'[p] # "migrate"
  PROVE  HeadRests'
<1>0. Others(p) /\ DOMAIN pc = Procs /\ DOMAIN job = Procs
  BY EloMoves DEF HeadInv, TrustInv, HomeFits, CommandsFit
<1>b. ASSUME NEW l, Step(p, l)
      PROVE  pc'[p] = l /\ job'[p] = job[p]
  BY <1>0, <1>b DEF Step, Goto
<1>c. ASSUME Leave(p)
      PROVE  pc'[p] = "idle"
  BY <1>0, <1>c DEF Leave, Goto
<1>d. ASSUME UNCHANGED <<anchor, receipt, marker, head, entries>>,
             pc'[p] \in {"evaluate", "ok", "idle"}
      PROVE  HeadRests'
  BY <1>0, <1>d, HeadQuiet DEF LockedLabels, MigrateLabels, Enrolling, Deciding
<1>e. ASSUME UNCHANGED <<anchor, receipt, marker, head, entries>>, NEW l, Step(p, l),
             l \in {"eloLock", "eloRead", "eloRecover", "eloDecide", "fillEntry"},
             anchor # Nothing,
             l = "eloRecover" => entries # {}, l \in Deciding => HeadIsLatest \/ ~Fresh
      PROVE  HeadRests'
  <2>1. pc'[p] = l
    BY <1>b, <1>e
  <2>2. CASE HeadIsLatest \/ l \notin Deciding
    BY <1>0, <1>e, <2>1, <2>2, HeadQuiet DEF LockedLabels, MigrateLabels, Enrolling, Deciding
  <2>3. CASE ~Fresh
    <3>1. Fresh' = Fresh /\ Latest' = Latest
      BY <1>e, PositionStays
    <3> QED
      BY <1>0, <1>e, <2>1, <2>3, <3>1
      DEF HeadInv, HeadRests, PlaceRests, Others, LockedLabels, MigrateLabels, Enrolling, Deciding
  <2> QED
    BY <1>e, <2>2, <2>3
<1>f. pc[p] \in {"eloLock"} \cup LockedLabels => anchor # Nothing
  BY DEF HeadInv, HeadRests, PlaceRests
<1>1. CASE BeginEvaluate(p)
  <2>1. pc'[p] = "evaluate" /\ UNCHANGED <<anchor, receipt, marker, head, entries>>
    BY <1>0, <1>1 DEF BeginEvaluate, Begin, Goto, trust, elo, history
  <2> QED
    BY <1>d, <2>1
<1>2. CASE EvaluateChecks(p)
  <2>1. UNCHANGED <<anchor, receipt, marker, head, entries>>
        /\ (Leave(p) \/ (Step(p, "eloLock") /\ anchor # Nothing))
    BY <1>2 DEF EvaluateChecks, TrustVerifies, Refuse, trust, elo, history
  <2> QED
    BY <1>c, <1>d, <1>e, <2>1 DEF Deciding
<1>3. CASE LockReceipt(p) \/ LockRefused(p)
  <2>1. UNCHANGED <<anchor, receipt, marker, head, entries>> /\ anchor # Nothing
        /\ (Leave(p) \/ Step(p, "eloRead"))
    BY <1>3, <1>f DEF LockReceipt, LockRefused, Refuse, trust, elo, history
  <2> QED
    BY <1>c, <1>d, <1>e, <2>1 DEF Deciding
<1>4. CASE EvaluateReads(p)
  <2>1. UNCHANGED <<anchor, receipt, marker, head, entries>> /\ anchor # Nothing
        /\ (\/ Leave(p) \/ (Step(p, "eloRecover") /\ entries # {})
            \/ (Step(p, "eloDecide") /\ HeadIsLatest))
    BY <1>4, <1>f
    DEF EvaluateReads, RefuseLocked, Refuse, trust, elo, LockedLabels, HeadIsBehind
  <2> QED
    BY <1>c, <1>d, <1>e, <2>1 DEF Deciding
<1>5. CASE RecoverHead(p)
  <2>1. /\ pc[p] = "eloRecover" /\ entries # {} /\ head' = HeadAfter(Latest)
        /\ UNCHANGED <<anchor, receipt, marker, entries>>
        /\ pc'[p] \in {"ok", "idle"}
    BY <1>0, <1>5, <1>c DEF RecoverHead, Goto, HeadInv, HeadRests, PlaceRests
  <2>2. Latest' = Latest /\ Latest \in Entries /\ Fresh' = Fresh
    BY <2>1, LatestIsLast DEF HeadInv, EloInv, EntriesRest, Latest, Fresh
  <2>3. HeadIsLatest' /\ head' = [ledger |-> anchor.host, entry |-> Latest]
    BY <2>1, <2>2 DEF HeadAfter, HeadIsLatest
  <2> QED
    BY <1>0, <2>1, <2>2, <2>3
    DEF HeadInv, HeadRests, PlaceRests, Others, LockedLabels, MigrateLabels, Enrolling, Deciding
<1>6. CASE EvaluateDecides(p)
  <2>1. /\ pc[p] = "eloDecide" /\ anchor # Nothing
        /\ UNCHANGED <<anchor, receipt, marker, head, entries>>
        /\ pc'[p] \in {"ok", "createEntry", "idle"}
    BY <1>0, <1>6, <1>c, <1>f
    DEF EvaluateDecides, Goto, RefuseLocked, Refuse, trust, elo, LockedLabels
  <2>2. Fresh => HeadIsLatest
    BY <2>1 DEF HeadInv, HeadRests, PlaceRests, Deciding
  <2>3. /\ Fresh' = Fresh /\ Latest' = Latest
        /\ HeadIsLatest' = HeadIsLatest /\ HeadIsBehind' = HeadIsBehind
    BY <2>1, PositionStays
  <2> QED
    BY <1>0, <2>1, <2>2, <2>3
    DEF HeadInv, HeadRests, PlaceRests, Others, LockedLabels, MigrateLabels, Enrolling, Deciding
<1>7. CASE CreateEntry(p)
  <2>1. /\ UNCHANGED <<anchor, receipt, marker, head, entries>> /\ anchor # Nothing
        /\ Step(p, "fillEntry") /\ pc[p] = "createEntry"
    BY <1>7, <1>f DEF CreateEntry, trust, elo, LockedLabels
  <2>2. Fresh => HeadIsLatest
    BY <2>1 DEF HeadInv, HeadRests, PlaceRests, Deciding
  <2> QED
    BY <1>e, <2>1, <2>2
<1>8. CASE FillEntry(p)
  <2>1. EvaluateFits(pc[p], job[p])
    BY <1>8, EvaluateLabel DEF FillEntry, HeadInv, EloInv, EvaluateLabels
  <2>2. PICK b \in Results, c \in Results : b = job[p].base /\ c = job[p].cand
    BY <2>1 DEF EvaluateFits
  <2>3. PICK n : n = job[p].entry
    OBVIOUS
  <2>4. n = EntryFor(b, c) /\ Continues(b, c)
    BY <1>8, <2>2, <2>3 DEF FillEntry, HeadInv, EloInv, EloRests
  <2>5. /\ entries' = entries \cup {n} /\ pc[p] = "fillEntry" /\ pc'[p] = "moveHead"
        /\ job'[p].entry = n /\ UNCHANGED <<anchor, receipt, marker, head>>
    BY <1>8, <1>b, <2>3 DEF FillEntry, trust, elo
  <2>6. /\ entries' # {} /\ Latest' = n /\ n \in Entries
        /\ n.seq = 1 <=> entries = {}
        /\ entries # {} => Before(n)' = Latest /\ n # Latest
    BY <2>2, <2>4, <2>5, EntryIsLatest DEF HeadInv, EloInv
  <2>7. Fresh => HeadIsBehind'
    <3>1. Fresh => head.entry = IF entries = {} THEN Nothing ELSE Latest
      BY <2>5 DEF HeadInv, HeadRests, PlaceRests, Deciding, HeadIsLatest
    <3>2. Before(Latest)' = Before(n)'
      BY <2>6 DEF Before
    <3>3. n # Nothing
      BY <2>6, EntryAssumption
    <3> QED
      BY <2>5, <2>6, <3>1, <3>2, <3>3 DEF HeadIsBehind
  <2>8. eloLock = p /\ \A q \in Procs : q # p => pc[q] \notin LockedLabels
    BY <2>5, TrustAssumption DEF HeadInv, EloInv, EloRests, LockedLabels
  <2>9. Fresh' = Fresh /\ anchor # Nothing
    BY <1>f, <2>5 DEF Fresh, LockedLabels
  <2> QED
    BY <1>0, <2>5, <2>6, <2>7, <2>8, <2>9
    DEF HeadInv, HeadRests, PlaceRests, Others, LockedLabels, MigrateLabels, Enrolling, Deciding
<1>9. CASE MoveHead(p)
  <2>1. /\ pc[p] = "moveHead" /\ entries # {} /\ job[p].entry = Latest
        /\ head' = HeadAfter(Latest) /\ UNCHANGED <<anchor, receipt, marker, entries>>
        /\ pc'[p] = "eloVerify" /\ anchor # Nothing
    BY <1>9, <1>b, <1>f DEF MoveHead, history, HeadInv, HeadRests, PlaceRests, LockedLabels
  <2>2. Latest' = Latest /\ Latest \in Entries /\ Fresh' = Fresh
    BY <2>1, LatestIsLast DEF HeadInv, EloInv, EntriesRest, Latest, Fresh
  <2>3. HeadIsLatest' /\ head' = [ledger |-> anchor.host, entry |-> Latest]
    BY <2>1, <2>2 DEF HeadAfter, HeadIsLatest
  <2> QED
    BY <1>0, <2>1, <2>2, <2>3
    DEF HeadInv, HeadRests, PlaceRests, Others, LockedLabels, MigrateLabels, Enrolling, Deciding
<1>10. CASE EvaluateVerifies(p) \/ EloWriteFails(p)
  <2>1. /\ UNCHANGED <<anchor, receipt, marker, head, entries>> /\ pc'[p] \in {"ok", "idle"}
    BY <1>10, <1>b, <1>c
    DEF EvaluateVerifies, EloWriteFails, Refuse, trust, elo, MigrateLabels
  <2> QED
    BY <1>d, <2>1
<1>11. CASE BeginMigrate(p)
  BY <1>0, <1>11 DEF BeginMigrate, Begin, Goto
<1> QED
  BY <1>1, <1>2, <1>3, <1>4, <1>5, <1>6, <1>7, <1>8, <1>9, <1>10, <1>11
  DEF EloNext, MigrateReads, UnlinkReceipt, CreateReceipt, FillReceipt, MigrateMarker,
      UnlinkMarker, CreateMarker, FillMarker, MigrateHead, UnlinkHead, CreateHead, FillHead,
      VerifyGenesis, MigrateLabels

\* An enrolment goes past its first look only in a home of version 0.2.
LEMMA EnrolmentKeepsHead ==
  ASSUME HeadInv, NEW p \in Procs, EloNext(p),
         pc[p] \in MigrateLabels \/ BeginMigrate(p)
  PROVE  HeadRests'
<1>0. Others(p) /\ DOMAIN pc = Procs
  BY EloMoves DEF HeadInv, TrustInv, HomeFits, CommandsFit
<1>b. ASSUME NEW l, Step(p, l)
      PROVE  pc'[p] = l
  BY <1>0, <1>b DEF Step, Goto
<1>c. ASSUME Leave(p)
      PROVE  pc'[p] = "idle"
  BY <1>0, <1>c DEF Leave, Goto
<1>1. CASE BeginMigrate(p)
  <2>1. pc'[p] = "migrate" /\ UNCHANGED <<anchor, receipt, marker, head, entries>>
    BY <1>0, <1>1 DEF BeginMigrate, Begin, Goto, trust, elo, history
  <2> QED
    BY <1>0, <2>1, HeadQuiet DEF LockedLabels, Enrolling, Deciding
<1>2. CASE MigrateReads(p)
  <2>1. /\ UNCHANGED <<anchor, receipt, marker, head, entries>>
        /\ pc'[p] \in Enrolling \cup {"idle"}
        /\ pc'[p] # "idle" => /\ anchor # Nothing
                              /\ IsTorn(receipt) \/ receipt = Nothing \/ receipt = Legacy
    BY <1>2, <1>b, <1>c
    DEF MigrateReads, Refuse, TrustVerifies, trust, elo, history, Enrolling, MigrateLabels
  <2>2. ASSUME Fresh
        PROVE  receipt = anchor.host /\ receipt \in Procs
    <3>1. anchor \in Anchors /\ anchor.host # Legacy /\ receipt = anchor.host
      BY <2>2 DEF Fresh, HeadInv, TrustInv, TrustRests, HeadRests
    <3> QED
      BY <3>1 DEF Anchors, Hosts
  <2>3. Fresh => ~IsTorn(receipt) /\ receipt # Nothing /\ receipt # Legacy
    BY <2>2, TrustAssumption, FileAssumption DEF IsTorn, Hosts
  <2>4. pc'[p] # "idle" => anchor # Nothing /\ anchor.host = Legacy
    BY <2>1, <2>3 DEF Fresh
  <2> QED
    BY <1>0, <2>1, <2>4, HeadQuiet DEF LockedLabels, MigrateLabels, Enrolling, Deciding
<1>3. ASSUME pc[p] \in Enrolling
      PROVE  HeadRests'
  <2>1. anchor # Nothing /\ anchor.host = Legacy
    BY <1>3 DEF HeadInv, HeadRests, PlaceRests
  <2>2. UNCHANGED anchor /\ UNCHANGED entries
    BY <1>3, TrustUntouched
    DEF EloNext, BeginEvaluate, Begin, EvaluateChecks, LockReceipt, LockRefused, EvaluateReads,
        RecoverHead, EvaluateDecides, CreateEntry, FillEntry, MoveHead, EvaluateVerifies,
        BeginMigrate, MigrateReads, UnlinkReceipt, CreateReceipt, FillReceipt, MigrateMarker,
        UnlinkMarker, CreateMarker, FillMarker, MigrateHead, UnlinkHead, CreateHead, FillHead,
        VerifyGenesis, EloWriteFails, history, Enrolling, MigrateLabels
  <2>3. pc'[p] \in Enrolling \cup {"ok", "idle"}
    BY <1>0, <1>3, <1>b, <1>c
    DEF EloNext, BeginEvaluate, Begin, EvaluateChecks, LockReceipt, LockRefused, EvaluateReads,
        RecoverHead, EvaluateDecides, CreateEntry, FillEntry, MoveHead, EvaluateVerifies,
        BeginMigrate, MigrateReads, UnlinkReceipt, CreateReceipt, FillReceipt, MigrateMarker,
        UnlinkMarker, CreateMarker, FillMarker, MigrateHead, UnlinkHead, CreateHead, FillHead,
        VerifyGenesis, EloWriteFails, Enrolling, MigrateLabels, Refuse, Goto
  <2>4. ~Fresh /\ ~Fresh'
    BY <2>1, <2>2 DEF Fresh
  <2>5. Latest' = Latest
    BY <2>2 DEF Latest
  <2> QED
    BY <1>0, <2>1, <2>2, <2>3, <2>4, <2>5
    DEF HeadInv, HeadRests, PlaceRests, Others, LockedLabels, MigrateLabels, Enrolling, Deciding
<1>4. ASSUME pc[p] = "migrate"
      PROVE  MigrateReads(p)
  BY <1>4
  DEF EloNext, BeginEvaluate, Begin, EvaluateChecks, LockReceipt, LockRefused, EvaluateReads,
      RecoverHead, EvaluateDecides, CreateEntry, FillEntry, MoveHead, EvaluateVerifies,
      BeginMigrate, UnlinkReceipt, CreateReceipt, FillReceipt, MigrateMarker,
      UnlinkMarker, CreateMarker, FillMarker, MigrateHead, UnlinkHead, CreateHead, FillHead,
      VerifyGenesis, EloWriteFails
<1> QED
  BY <1>1, <1>2, <1>3, <1>4 DEF Enrolling

LEMMA HeadInvStep ==
  ASSUME HeadInv, [Next]_vars
  PROVE  HeadInv'
<1>0. TrustInv' /\ EloInv'
  BY TrustInvStep, EloInvStep DEF HeadInv
<1>1. ASSUME NEW p \in Procs, TrustStep(p) \/ OnboardingStep(p)
      PROVE  HeadRests'
  BY <1>1, TrustKeepsHead DEF TrustStep, OnboardingStep, history
<1>2. ASSUME NEW p \in Procs, EloStep(p)
      PROVE  HeadRests'
  <2>1. EloNext(p) /\ (pc'[p] = "migrate" => BeginMigrate(p) \/ pc[p] \in MigrateLabels)
    <3>1. EloNext(p) /\ DOMAIN pc = Procs
      BY <1>2 DEF EloStep, HeadInv, TrustInv, HomeFits, CommandsFit
    <3> QED
      BY <3>1
      DEF EloNext, BeginEvaluate, Begin, EvaluateChecks, LockReceipt, LockRefused, EvaluateReads,
          RecoverHead, EvaluateDecides, CreateEntry, FillEntry, MoveHead, EvaluateVerifies,
          MigrateReads, UnlinkReceipt, CreateReceipt, FillReceipt, MigrateMarker,
          UnlinkMarker, CreateMarker, FillMarker, MigrateHead, UnlinkHead, CreateHead, FillHead,
          VerifyGenesis, EloWriteFails, MigrateLabels, Refuse, RefuseLocked, Leave, Step, Goto
  <2> QED
    BY <1>0, <2>1, EvaluationKeepsHead, EnrolmentKeepsHead
<1>3. ASSUME NEW p \in Procs, SelectionStep(p) \/ UpgradeStep(p) \/ MigrationStep(p)
      PROVE  HeadRests'
  <2>1. \A id \in Personal : Len(snapshots[id]) \in Nat
    BY DEF HeadInv, EloInv, HomeFits, FilesFit, ProfileIds
  <2>2. Others(p) /\ pc'[p] \notin {"eloLock"} \cup LockedLabels \cup Enrolling
    BY <1>3, <2>1, SelectionMoves, UpgradeMoves, MigrationMoves
    DEF SelectionStep, UpgradeStep, MigrationStep, HeadInv, EloInv, HomeFits, FilesFit,
        SelectLabels, UpgradeLabels, FileLabels, SchemaLabels, RestoreLabels, LockedLabels,
        MigrateLabels, Enrolling
  <2>3. UNCHANGED <<anchor, receipt, marker, head, entries>>
    BY <1>3
    DEF SelectionStep, UpgradeStep, MigrationStep, history, trust, elo,
        SelectionNext, BeginSelect, ExistingRetry, CreateBinding, FillBinding, Approve,
        CreateRecord, FillRecord, SelectionWriteFails,
        UpgradeNext, BeginUpgrade, UpgradeReads, Reads, LoadProfile, LoadRules, LoadRecord,
        VerifyRecord, MakeAuthDir, CreateAuth, FillAuth, WriteAuthPointer, VerifyUpgrade,
        UpgradeWriteFails, MigrationsNext, BeginSchema, SchemaReads, CreateFile, FillFile,
        ReplaceArtifact, Advance, BeginRestore, RestoreReads, PrepareRestore, FillRestore, PutBack,
        RecordRestore, FillRestored, SchemaWriteFails
  <2> QED
    BY <2>2, <2>3, HeadQuiet DEF LockedLabels, Deciding
<1>4. CASE RuleStep \/ UNCHANGED vars
  <2>1. UNCHANGED <<pc, job, anchor, receipt, marker, head, entries>>
    BY <1>4, RuleMoves DEF vars, control, history, trust, elo
  <2>2. Latest' = Latest /\ Fresh' = Fresh /\ HeadIsLatest' = HeadIsLatest
    BY <2>1, PositionStays
  <2>3. ASSUME NEW q \in Procs
        PROVE  PlaceRests(q)'
    BY <2>1, <2>2 DEF HeadInv, HeadRests, PlaceRests
  <2> QED
    BY <1>0, <2>1, <2>3, HeadStands DEF HeadInv
<1> QED
  BY <1>0, <1>1, <1>2, <1>3, <1>4 DEF Next, HeadInv

LEMMA HeadInvAlways == Spec => []HeadInv
<1>1. Init => HeadRests
  <2>1. Init => /\ anchor # Nothing => anchor.host = Legacy
                /\ entries = {} /\ \A p \in Procs : pc[p] = "idle"
    BY DEF Init, TrustInit, EloInit
  <2> QED
    BY <2>1 DEF HeadRests, PlaceRests, LockedLabels, MigrateLabels, Enrolling, Deciding, Fresh
<1>2. HeadInv /\ [Next]_vars => HeadInv'
  BY HeadInvStep
<1>3. HeadRests /\ TrustInv /\ EloInv => HeadInv
  BY DEF HeadInv
<1> QED
  BY <1>1, <1>2, <1>3, TrustInvAlways, EloInvAlways, PTL DEF Spec

\* An interrupted append can always be completed (elo.py appends the entry and then
\* replaces the protected head, both under the receipt lock, and completes what it
\* finds half-way before it decides): in a home installed afresh the head names the
\* last entry or the one before it, for any number of evaluations, faults and refused
\* enrolments.
THEOREM HeadIsNeverFarBehind == Spec => []HeadKeepsUp
<1>1. HeadInv => HeadKeepsUp
  <2> SUFFICES ASSUME HeadInv, Fresh
               PROVE  AnchorsAgree /\ (HeadIsLatest \/ HeadIsBehind)
    BY DEF HeadKeepsUp, Fresh
  <2>1. /\ receipt = anchor.host /\ marker = receipt /\ anchor.host \in Procs
        /\ head \in [ledger : {anchor.host}, entry : Entries \cup {Nothing}]
        /\ HeadIsLatest \/ HeadIsBehind
    BY DEF HeadInv, HeadRests, TrustInv, TrustRests, Fresh, Anchors, Hosts
  <2>2. head # Nothing
    BY <2>1, FileAssumption DEF Hosts
  <2>3. ~IsTorn(head)
    <3>1. DOMAIN head = {"ledger", "entry"}
      BY <2>1
    <3>2. \A p \in Procs : DOMAIN TornBy(p) = {"torn"}
      BY DEF TornBy
    <3> QED
      BY <3>1, <3>2 DEF IsTorn
  <2> QED
    BY <2>1, <2>2, <2>3 DEF AnchorsAgree
<1> QED
  BY <1>1, HeadInvAlways, PTL

\* The Elo history and its head stand together (elo.py): no interleaving, failure or
\* crash makes an achievement count twice or leaves an append that cannot be completed.
THEOREM HistoryStandsForGood == Spec => []HistoryStands
  BY AchievementsCountOnce, HeadIsNeverFarBehind, PTL DEF HistoryStands

-----------------------------------------------------------------------------
(* An enrolment that nobody overlaps with can be repeated.                 *)

Old == anchor # Nothing /\ anchor.host = Legacy

\* An evaluation that has accepted the ledger and has not moved the head.
Accepted == {"eloRecover", "eloDecide", "createEntry", "fillEntry", "moveHead"}

\* What a command has seen of the anchors and nobody takes away.
StageRests(p) ==
  /\ pc[p] = "unlinkReceipt" => receipt # Legacy
  /\ pc[p] = "fillReceipt" => receipt = TornBy(p)
  /\ pc[p] \in {"migrateMarker", "unlinkMarker", "createMarker", "fillMarker"} =>
       receipt = Legacy
  /\ pc[p] = "unlinkMarker" => marker # Legacy
  /\ pc[p] = "fillMarker" => marker = TornBy(p)
  /\ pc[p] \in {"migrateHead", "unlinkHead", "createHead", "fillHead"} => marker = Legacy
  /\ pc[p] = "unlinkHead" => IsTorn(head)
  /\ pc[p] = "fillHead" => head = TornBy(p)
  /\ pc[p] \in Accepted => marker = Legacy /\ head # Nothing /\ ~IsTorn(head)

\* Each anchor is begun when the one before it is whole, and not taken away after that.
InOrder == (marker # Nothing => receipt = Legacy) /\ (head # Nothing => marker = Legacy)

EnrolRests == Old => InOrder /\ \A p \in Procs : StageRests(p)

LoneInv == HeadInv /\ OneEnrolment /\ EnrolRests

LEMMA TornIsNotWhole == \A p \in Procs : TornBy(p) # Legacy
  BY FileAssumption DEF Hosts

\* A step that leaves the anchors alone.
LEMMA EnrolQuiet ==
  ASSUME LoneInv, NEW p \in Procs, Others(p), UNCHANGED <<anchor, receipt, marker, head>>,
         Old => StageRests(p)'
  PROVE  EnrolRests'
<1>1. Old' = Old /\ InOrder' = InOrder
  BY DEF Old, InOrder
<1>2. ASSUME Old, NEW q \in Procs, q # p
      PROVE  StageRests(q)'
  BY <1>2 DEF LoneInv, EnrolRests, StageRests, Others, IsTorn
<1> QED
  BY <1>1, <1>2 DEF LoneInv, EnrolRests

\* A step of the one enrolment; evaluations keep what they have accepted.
LEMMA EnrolForward ==
  ASSUME LoneInv, NEW p \in Procs, Others(p), UNCHANGED anchor, pc[p] \in MigrateLabels,
         Old => /\ InOrder' /\ StageRests(p)'
                /\ marker = Legacy /\ head # Nothing /\ ~IsTorn(head) =>
                     marker' = Legacy /\ head' # Nothing /\ ~IsTorn(head')
  PROVE  EnrolRests'
<1>1. ASSUME NEW q \in Procs, q # p
      PROVE  pc[q] \notin MigrateLabels
  <2>1. /\ \A r \in Procs : pc[r] # "idle" => Fits(pc[r], job[r])
        /\ ~(Migrating(p) /\ Migrating(q))
    BY <1>1 DEF LoneInv, OneEnrolment, HeadInv, TrustInv, HomeFits, CommandsFit
  <2>2. ASSUME NEW r \in Procs, pc[r] \in MigrateLabels
        PROVE  Migrating(r)
    <3>1. pc[r] # "idle"
      BY <2>2 DEF MigrateLabels
    <3> QED
      BY <2>1, <2>2, <3>1
      DEF Migrating, Fits, InstallFits, EnrollFits, OnboardFits, ProfileFits, SelectFits,
          EvaluateFits, MigrateFits, UpgradeFits, SchemaFits, RestoreFits, TrustLabels,
          EnrollLabels, OnboardLabels, PersonalLabels, SelectLabels, EvaluateLabels,
          MigrateLabels, UpgradeLabels, FileLabels, SchemaLabels, RestoreLabels
  <2> QED
    BY <2>1, <2>2
<1>2. ASSUME Old, NEW q \in Procs, q # p
      PROVE  StageRests(q)'
  <2>1. pc'[q] = pc[q] /\ pc[q] \notin MigrateLabels /\ StageRests(q)
    BY <1>1, <1>2 DEF Others, LoneInv, EnrolRests
  <2> QED
    BY <1>2, <2>1 DEF StageRests, MigrateLabels, Accepted, IsTorn
<1>3. Old' = Old
  BY DEF Old
<1> QED
  BY <1>2, <1>3 DEF EnrolRests

LEMMA ReceiptKeepsOrder ==
  ASSUME LoneInv, NEW p \in Procs, Others(p), DOMAIN pc = Procs,
         \/ MigrateReads(p) \/ UnlinkReceipt(p) \/ CreateReceipt(p) \/ FillReceipt(p)
  PROVE  EnrolRests'
<1>b. ASSUME NEW l, Step(p, l)
      PROVE  pc'[p] = l
  BY <1>b DEF Step, Goto
<1>c. ASSUME Refuse(p)
      PROVE  pc'[p] = "idle"
  BY <1>c DEF Refuse, Leave, Goto
<1>d. /\ pc[p] \in MigrateLabels /\ UNCHANGED anchor
      /\ Old => InOrder /\ StageRests(p)
  BY DEF MigrateReads, UnlinkReceipt, CreateReceipt, FillReceipt, MigrateLabels, trust, LoneInv,
         EnrolRests
<1>e. Legacy # Nothing /\ TornBy(p) # Legacy /\ (IsTorn(receipt) => receipt # Legacy)
  BY TrustAssumption, TornIsNotWhole DEF IsTorn
<1>1. CASE MigrateReads(p)
  <2>1. UNCHANGED <<receipt, marker, head>>
    BY <1>1 DEF MigrateReads, trust, elo
  <2>2. \/ pc'[p] \in {"idle", "createReceipt"}
        \/ pc'[p] = "unlinkReceipt" /\ receipt # Legacy
        \/ pc'[p] = "migrateMarker" /\ receipt = Legacy
    BY <1>1, <1>b, <1>c, <1>e DEF MigrateReads
  <2> QED
    BY <1>d, <2>1, <2>2, EnrolQuiet DEF StageRests, Accepted
<1>2. CASE UnlinkReceipt(p)
  <2>1. /\ pc[p] = "unlinkReceipt" /\ UNCHANGED <<marker, head>>
        /\ pc'[p] \in {"idle", "createReceipt"}
    BY <1>2, <1>b, <1>c DEF UnlinkReceipt
  <2>2. Old => marker = Nothing /\ head = Nothing
    BY <1>d, <1>e, <2>1 DEF StageRests, InOrder
  <2> QED
    BY <1>d, <2>1, <2>2, EnrolForward DEF StageRests, InOrder, Accepted
<1>3. CASE CreateReceipt(p)
  <2>1. CASE UNCHANGED receipt /\ Refuse(p)
    <3>1. UNCHANGED <<receipt, marker, head>> /\ pc'[p] = "idle"
      BY <1>3, <1>c, <2>1 DEF CreateReceipt
    <3> QED
      BY <1>d, <3>1, EnrolQuiet DEF StageRests, Accepted
  <2>2. CASE ~(UNCHANGED receipt /\ Refuse(p))
    <3>1. /\ receipt' = TornBy(p) /\ UNCHANGED <<marker, head>> /\ pc'[p] = "fillReceipt"
          /\ marker = Nothing /\ head = Nothing
      BY <1>3, <2>2 DEF CreateReceipt, MayRemoveReceipt, Goto
    <3> QED
      BY <1>d, <3>1, EnrolForward DEF StageRests, InOrder, Accepted
  <2> QED
    BY <2>1, <2>2
<1>4. CASE FillReceipt(p)
  <2>1. /\ pc[p] = "fillReceipt" /\ UNCHANGED <<marker, head>>
        /\ receipt' = Filled(p, receipt, Legacy)
        /\ pc'[p] \in {"idle", "createMarker"}
    BY <1>4, <1>b, <1>c DEF FillReceipt
  <2>2. Old => receipt = TornBy(p) /\ receipt' = Legacy /\ marker = Nothing /\ head = Nothing
    BY <1>d, <1>e, <2>1 DEF StageRests, InOrder, Filled
  <2> QED
    BY <1>d, <2>1, <2>2, EnrolForward DEF StageRests, InOrder, Accepted
<1> QED
  BY <1>1, <1>2, <1>3, <1>4

LEMMA MarkerKeepsOrder ==
  ASSUME LoneInv, NEW p \in Procs, Others(p), DOMAIN pc = Procs,
         MigrateMarker(p) \/ UnlinkMarker(p) \/ CreateMarker(p) \/ FillMarker(p)
  PROVE  EnrolRests'
<1>b. ASSUME NEW l, Step(p, l)
      PROVE  pc'[p] = l
  BY <1>b DEF Step, Goto
<1>c. ASSUME Refuse(p)
      PROVE  pc'[p] = "idle"
  BY <1>c DEF Refuse, Leave, Goto
<1>d. /\ pc[p] \in MigrateLabels /\ UNCHANGED anchor /\ UNCHANGED receipt /\ UNCHANGED head
      /\ Old => InOrder /\ StageRests(p) /\ receipt = Legacy
  BY DEF MigrateMarker, UnlinkMarker, CreateMarker, FillMarker, MigrateLabels, trust, elo,
         LoneInv, EnrolRests, StageRests
<1>e. Legacy # Nothing /\ TornBy(p) # Legacy /\ (IsTorn(marker) => marker # Legacy)
  BY TrustAssumption, TornIsNotWhole DEF IsTorn
<1>1. CASE MigrateMarker(p)
  <2>1. UNCHANGED marker
    BY <1>1 DEF MigrateMarker, trust, elo
  <2>2. \/ pc'[p] \in {"idle", "createMarker"}
        \/ pc'[p] = "unlinkMarker" /\ marker # Legacy
        \/ pc'[p] = "migrateHead" /\ marker = Legacy
    BY <1>1, <1>b, <1>c, <1>e DEF MigrateMarker
  <2> QED
    BY <1>d, <2>1, <2>2, EnrolQuiet DEF StageRests, Accepted
<1>2. CASE UnlinkMarker(p)
  <2>1. /\ pc[p] = "unlinkMarker" /\ marker' = Nothing
        /\ pc'[p] \in {"idle", "createMarker"}
    BY <1>2, <1>b, <1>c DEF UnlinkMarker
  <2>2. Old => marker # Legacy /\ head = Nothing
    BY <1>d, <2>1 DEF StageRests, InOrder
  <2> QED
    BY <1>d, <2>1, <2>2, EnrolForward DEF StageRests, InOrder, Accepted
<1>3. CASE CreateMarker(p)
  <2>1. CASE UNCHANGED marker /\ Refuse(p)
    BY <1>c, <1>d, <2>1, EnrolQuiet DEF StageRests, Accepted
  <2>2. CASE ~(UNCHANGED marker /\ Refuse(p))
    <3>1. marker = Nothing /\ marker' = TornBy(p) /\ pc'[p] = "fillMarker"
      BY <1>3, <1>b, <2>2 DEF CreateMarker
    <3>2. Old => head = Nothing
      BY <1>d, <1>e, <3>1 DEF InOrder
    <3> QED
      BY <1>d, <1>e, <3>1, <3>2, EnrolForward DEF StageRests, InOrder, Accepted
  <2> QED
    BY <2>1, <2>2
<1>4. CASE FillMarker(p)
  <2>1. /\ pc[p] = "fillMarker" /\ marker' = Filled(p, marker, Legacy)
        /\ pc'[p] \in {"idle", "createHead", "migrateHead"}
    BY <1>4, <1>b, <1>c DEF FillMarker
  <2>2. Old => marker' = Legacy /\ marker # Legacy /\ head = Nothing
    BY <1>d, <1>e, <2>1 DEF StageRests, InOrder, Filled
  <2> QED
    BY <1>d, <2>1, <2>2, EnrolForward DEF StageRests, InOrder, Accepted
<1> QED
  BY <1>1, <1>2, <1>3, <1>4

LEMMA HeadKeepsOrder ==
  ASSUME LoneInv, NEW p \in Procs, Others(p), DOMAIN pc = Procs,
         \/ MigrateHead(p) \/ UnlinkHead(p) \/ CreateHead(p) \/ FillHead(p)
         \/ VerifyGenesis(p)
  PROVE  EnrolRests'
<1>b. ASSUME NEW l, Step(p, l)
      PROVE  pc'[p] = l
  BY <1>b DEF Step, Goto
<1>c. ASSUME Refuse(p)
      PROVE  pc'[p] = "idle"
  BY <1>c DEF Refuse, Leave, Goto
<1>d. /\ pc[p] \in MigrateLabels /\ UNCHANGED anchor /\ UNCHANGED receipt /\ UNCHANGED marker
      /\ Old => InOrder /\ StageRests(p)
  BY DEF MigrateHead, UnlinkHead, CreateHead, FillHead, VerifyGenesis, MigrateLabels, trust, elo,
         LoneInv, EnrolRests
<1>e. IsTorn(TornBy(p))
  BY DEF IsTorn
<1>1. CASE MigrateHead(p) \/ VerifyGenesis(p)
  <2>1. UNCHANGED head
    BY <1>1 DEF MigrateHead, VerifyGenesis, trust, elo
  <2>2. \/ pc'[p] \in {"idle", "ok"}
        \/ pc[p] = "migrateHead" /\ pc'[p] = "createHead"
        \/ pc[p] = "migrateHead" /\ pc'[p] = "unlinkHead" /\ IsTorn(head)
    BY <1>1, <1>b, <1>c DEF MigrateHead, VerifyGenesis
  <2> QED
    BY <1>d, <2>1, <2>2, EnrolQuiet DEF StageRests, Accepted, IsTorn
<1>2. CASE UnlinkHead(p)
  <2>1. /\ pc[p] = "unlinkHead" /\ head' = Nothing
        /\ pc'[p] \in {"idle", "createHead"}
    BY <1>2, <1>b, <1>c DEF UnlinkHead
  <2>2. Old => IsTorn(head) /\ marker = Legacy
    BY <1>d, <2>1 DEF StageRests
  <2> QED
    BY <1>d, <2>1, <2>2, EnrolForward DEF StageRests, InOrder, Accepted
<1>3. CASE CreateHead(p)
  <2>1. CASE UNCHANGED head /\ Refuse(p)
    BY <1>c, <1>d, <2>1, EnrolQuiet DEF StageRests, Accepted
  <2>2. CASE ~(UNCHANGED head /\ Refuse(p))
    <3>1. /\ pc[p] = "createHead" /\ head = Nothing /\ head' = TornBy(p)
          /\ pc'[p] = "fillHead"
      BY <1>3, <1>b, <2>2 DEF CreateHead
    <3>2. Old => marker = Legacy
      BY <1>d, <3>1 DEF StageRests
    <3> QED
      BY <1>d, <3>1, <3>2, EnrolForward DEF StageRests, InOrder, Accepted
  <2> QED
    BY <2>1, <2>2
<1>4. CASE FillHead(p)
  <2>1. pc[p] = "fillHead" /\ pc'[p] \in {"idle", "ok", "verifyGenesis"}
    BY <1>4, <1>b, <1>c DEF FillHead
  <2>2. Old => marker = Legacy /\ IsTorn(head)
    BY <1>d, <1>e, <2>1 DEF StageRests
  <2> QED
    BY <1>d, <2>1, <2>2, EnrolForward DEF StageRests, InOrder, Accepted
<1> QED
  BY <1>1, <1>2, <1>3, <1>4

\* An evaluation accepts whole anchors, and replaces a head that it has accepted.
LEMMA EvaluationKeepsOrder ==
  ASSUME LoneInv, NEW p \in Procs, EloNext(p), pc[p] \notin MigrateLabels
  PROVE  EnrolRests'
<1>0. Others(p) /\ DOMAIN pc = Procs /\ DOMAIN job = Procs
  BY EloMoves DEF LoneInv, HeadInv, TrustInv, HomeFits, CommandsFit
<1>b. ASSUME NEW l, Step(p, l)
      PROVE  pc'[p] = l
  BY <1>0, <1>b DEF Step, Goto
<1>c. ASSUME Leave(p)
      PROVE  pc'[p] = "idle"
  BY <1>0, <1>c DEF Leave, Goto
<1>d. ASSUME UNCHANGED <<anchor, receipt, marker, head>>,
             pc'[p] \in {"evaluate", "eloLock", "eloRead", "eloVerify", "migrate", "ok", "idle"}
      PROVE  EnrolRests'
  BY <1>0, <1>d, EnrolQuiet DEF StageRests, Accepted
<1>1. CASE BeginEvaluate(p) \/ BeginMigrate(p)
  <2>1. /\ UNCHANGED <<anchor, receipt, marker, head>>
        /\ pc'[p] \in {"evaluate", "migrate"}
    BY <1>0, <1>1 DEF BeginEvaluate, BeginMigrate, Begin, Goto, trust, elo
  <2> QED
    BY <1>d, <2>1
<1>2. CASE EvaluateChecks(p) \/ LockReceipt(p) \/ LockRefused(p) \/ EvaluateVerifies(p)
  <2>1. /\ UNCHANGED <<anchor, receipt, marker, head>>
        /\ pc'[p] \in {"eloLock", "eloRead", "ok", "idle"}
    BY <1>2, <1>b, <1>c
    DEF EvaluateChecks, LockReceipt, LockRefused, EvaluateVerifies, Refuse, trust, elo
  <2> QED
    BY <1>d, <2>1
<1>3. CASE EvaluateReads(p)
  <2>1. /\ UNCHANGED <<anchor, receipt, marker, head>>
        /\ \/ pc'[p] = "idle"
           \/ pc'[p] \in {"eloRecover", "eloDecide"} /\ AnchorsAgree
    BY <1>3, <1>b, <1>c
    DEF EvaluateReads, LedgerReads, RefuseLocked, Refuse, trust, elo
  <2>2. Old /\ AnchorsAgree => marker = Legacy /\ head # Nothing /\ ~IsTorn(head)
    BY DEF Old, AnchorsAgree
  <2>3. Old => StageRests(p)'
    BY <2>1, <2>2 DEF StageRests, Accepted, IsTorn
  <2> QED
    BY <1>0, <2>1, <2>3, EnrolQuiet
<1>4. CASE EvaluateDecides(p) \/ CreateEntry(p) \/ FillEntry(p)
  <2>1. /\ UNCHANGED <<anchor, receipt, marker, head>>
        /\ pc[p] \in Accepted
        /\ pc'[p] \in {"createEntry", "fillEntry", "moveHead", "ok", "idle"}
    BY <1>0, <1>4, <1>b, <1>c
    DEF EvaluateDecides, CreateEntry, FillEntry, RefuseLocked, Refuse, Goto, trust, elo, Accepted
  <2>2. Old => marker = Legacy /\ head # Nothing /\ ~IsTorn(head)
    BY <2>1 DEF LoneInv, EnrolRests, StageRests
  <2>3. Old => StageRests(p)'
    BY <2>1, <2>2 DEF StageRests, Accepted, IsTorn
  <2> QED
    BY <1>0, <2>1, <2>3, EnrolQuiet
<1>5. CASE RecoverHead(p) \/ MoveHead(p)
  <2>1. PICK e : head' = HeadAfter(e) /\ e \in Entries
    <3>1. CASE RecoverHead(p)
      <4>1. entries # {} /\ head' = HeadAfter(Latest)
        BY <3>1 DEF RecoverHead, LoneInv, HeadInv, HeadRests, PlaceRests
      <4>2. Latest \in Entries
        BY <4>1, LatestIsLast DEF LoneInv, HeadInv, EloInv, EntriesRest
      <4> QED
        BY <4>1, <4>2
    <3>2. CASE MoveHead(p)
      <4>1. entries # {} /\ head' = HeadAfter(Latest)
        BY <3>2 DEF MoveHead, LoneInv, HeadInv, HeadRests, PlaceRests
      <4>2. Latest \in Entries
        BY <4>1, LatestIsLast DEF LoneInv, HeadInv, EloInv, EntriesRest
      <4> QED
        BY <4>1, <4>2
    <3> QED
      BY <1>5, <3>1, <3>2
  <2>2. /\ UNCHANGED <<anchor, receipt, marker>> /\ pc[p] \in Accepted
        /\ pc'[p] \in {"eloVerify", "ok", "idle"}
    BY <1>0, <1>5, <1>b, <1>c DEF RecoverHead, MoveHead, Goto, Accepted
  <2>3. Old' = Old
    BY <2>2 DEF Old
  <2>4. Old => head' # Nothing
    BY <2>1, FileAssumption DEF Old, HeadAfter, Hosts
  <2>5. ~IsTorn(head')
    <3>1. DOMAIN head' = {"ledger", "entry"}
      BY <2>1 DEF HeadAfter
    <3>2. \A q \in Procs : DOMAIN TornBy(q) = {"torn"}
      BY DEF TornBy
    <3> QED
      BY <3>1, <3>2 DEF IsTorn
  <2>6. Old => marker = Legacy /\ ~IsTorn(head) /\ InOrder
    BY <2>2 DEF LoneInv, EnrolRests, StageRests
  <2>7. Old => InOrder'
    BY <2>2, <2>6 DEF InOrder
  <2>8. ASSUME Old, NEW q \in Procs
        PROVE  StageRests(q)'
    <3>1. StageRests(q) /\ (q # p => pc'[q] = pc[q]) /\ head # TornBy(q)
      BY <1>0, <2>6, <2>8 DEF LoneInv, EnrolRests, Others, IsTorn
    <3>2. IsTorn(head)' = IsTorn(head')
      BY DEF IsTorn
    <3> QED
      BY <2>2, <2>4, <2>5, <2>6, <2>8, <3>1, <3>2 DEF StageRests, Accepted
  <2> QED
    BY <2>3, <2>7, <2>8 DEF EnrolRests
<1>6. CASE EloWriteFails(p)
  <2>1. UNCHANGED <<anchor, receipt, marker, head>> /\ pc'[p] = "idle"
    BY <1>6, <1>c DEF EloWriteFails, MigrateLabels
  <2> QED
    BY <1>d, <2>1
<1> QED
  BY <1>1, <1>2, <1>3, <1>4, <1>5, <1>6
  DEF EloNext, MigrateReads, UnlinkReceipt, CreateReceipt, FillReceipt, MigrateMarker,
      UnlinkMarker, CreateMarker, FillMarker, MigrateHead, UnlinkHead, CreateHead, FillHead,
      VerifyGenesis, MigrateLabels

\* An enrolment whose write fails takes away what it was writing, and no more.
LEMMA FailureKeepsOrder ==
  ASSUME LoneInv, NEW p \in Procs, Others(p), DOMAIN pc = Procs, EloWriteFails(p),
         pc[p] \in MigrateLabels
  PROVE  EnrolRests'
<1>1. UNCHANGED anchor /\ pc'[p] = "idle"
  BY DEF EloWriteFails, Leave, Goto
<1>2. Old => InOrder /\ StageRests(p) /\ TornBy(p) # Legacy /\ Legacy # Nothing
  BY TornIsNotWhole, TrustAssumption DEF LoneInv, EnrolRests
<1>3. CASE pc[p] = "fillReceipt"
  <2>1. UNCHANGED <<marker, head>> /\ receipt' = Nothing
    BY <1>3 DEF EloWriteFails
  <2>2. Old => marker = Nothing /\ head = Nothing
    BY <1>2, <1>3 DEF StageRests, InOrder
  <2> QED
    BY <1>1, <1>2, <2>1, <2>2, EnrolForward DEF StageRests, InOrder, Accepted
<1>4. CASE pc[p] = "fillMarker"
  <2>1. UNCHANGED <<receipt, head>> /\ marker' = Nothing
    BY <1>4 DEF EloWriteFails
  <2>2. Old => marker # Legacy /\ head = Nothing
    BY <1>2, <1>4 DEF StageRests, InOrder
  <2> QED
    BY <1>1, <1>2, <2>1, <2>2, EnrolForward DEF StageRests, InOrder, Accepted
<1>5. CASE pc[p] = "fillHead"
  <2>1. UNCHANGED <<receipt, marker>> /\ head' = Nothing
    BY <1>5 DEF EloWriteFails
  <2>2. Old => IsTorn(head)
    BY <1>2, <1>5 DEF StageRests, IsTorn
  <2> QED
    BY <1>1, <1>2, <2>1, <2>2, EnrolForward DEF StageRests, InOrder, Accepted
<1> QED
  BY <1>3, <1>4, <1>5 DEF EloWriteFails, MigrateLabels

\* A trust that is put in place is not an old one.
LEMMA EnrolPlaced ==
  ASSUME NEW p \in Procs, NEW a, a.host = p, Places(p, a)
  PROVE  EnrolRests'
<1>1. ~Old'
  BY TrustAssumption DEF Old, Places
<1> QED
  BY <1>1 DEF EnrolRests

LEMMA TrustKeepsOrder ==
  ASSUME LoneInv, NEW p \in Procs, TrustNext(p) \/ OnboardingNext(p)
  PROVE  EnrolRests'
<1>0. Others(p) /\ pc'[p] \notin LockedLabels \cup MigrateLabels
  BY TrustMoves, OnboardingMoves
  DEF LoneInv, HeadInv, TrustInv, HomeFits, TrustLabels, EnrollLabels, PersonalLabels,
      OnboardLabels, LockedLabels, MigrateLabels
<1>1. CASE PromoteTrust(p)
  <2>1. Places(p, StagedAnchor(p)) /\ StagedAnchor(p).host = p
    BY <1>1 DEF PromoteTrust, StagedAnchor
  <2> QED
    BY <2>1, EnrolPlaced
<1>2. CASE RenameHome(p)
  <2>1. Places(p, [host |-> p, catalog |-> job[p].key])
    BY <1>2 DEF RenameHome
  <2> QED
    BY <2>1, EnrolPlaced
<1>3. CASE UNCHANGED <<anchor, receipt, marker, head>>
  BY <1>0, <1>3, EnrolQuiet DEF StageRests, LockedLabels, MigrateLabels, Accepted
<1> QED
  BY <1>1, <1>2, <1>3
  DEF TrustNext, BeginInstall, InstallReads, StageTrust, PromotionLost, VerifyTrust, PersonalReads,
      AddCapability, FillCapability, BeginEnroll, EnrollReads, PromoteRelease, VerifyRelease,
      Return, TrustWriteFails, Crash, trust, elo, OnboardingNext, LockProfile, LockTimesOut,
      BeginProfile, InstallProfile, Ingest, IngestDies, BeginOnboard, OnboardReads,
      RemoveEmptyHome, RenameHomeRefused, RenameHomeFails, VerifyHome

LEMMA LoneInvStep ==
  ASSUME LoneInv, [Next /\ OneEnrolment']_vars
  PROVE  LoneInv'
<1>0. HeadInv'
  BY HeadInvStep DEF LoneInv
<1>1. ASSUME NEW p \in Procs, TrustStep(p) \/ OnboardingStep(p)
      PROVE  EnrolRests'
  BY <1>1, TrustKeepsOrder DEF TrustStep, OnboardingStep
<1>2. ASSUME NEW p \in Procs, EloStep(p)
      PROVE  EnrolRests'
  <2>1. Others(p) /\ DOMAIN pc = Procs /\ EloNext(p)
    BY <1>2, EloMoves DEF EloStep, LoneInv, HeadInv, TrustInv, HomeFits, CommandsFit
  <2>2. CASE pc[p] \notin MigrateLabels
    BY <2>1, <2>2, EvaluationKeepsOrder
  <2>3. CASE pc[p] \in MigrateLabels
    BY <2>1, <2>3, ReceiptKeepsOrder, MarkerKeepsOrder, HeadKeepsOrder, FailureKeepsOrder
    DEF EloNext, BeginEvaluate, BeginMigrate, Begin, EvaluateChecks, LockReceipt, LockRefused,
        EvaluateReads, RecoverHead, EvaluateDecides, CreateEntry, FillEntry, MoveHead,
        EvaluateVerifies, MigrateLabels
  <2> QED
    BY <2>2, <2>3
<1>3. ASSUME NEW p \in Procs, SelectionStep(p) \/ UpgradeStep(p) \/ MigrationStep(p)
      PROVE  EnrolRests'
  <2>1. \A id \in Personal : Len(snapshots[id]) \in Nat
    BY DEF LoneInv, HeadInv, EloInv, HomeFits, FilesFit, ProfileIds
  <2>2. Others(p) /\ pc'[p] \notin LockedLabels \cup MigrateLabels
    BY <1>3, <2>1, SelectionMoves, UpgradeMoves, MigrationMoves
    DEF SelectionStep, UpgradeStep, MigrationStep, LoneInv, HeadInv, EloInv, HomeFits, FilesFit,
        SelectLabels, UpgradeLabels, FileLabels, SchemaLabels, RestoreLabels, LockedLabels,
        MigrateLabels
  <2>3. UNCHANGED <<anchor, receipt, marker, head>>
    BY <1>3
    DEF SelectionStep, UpgradeStep, MigrationStep, history, trust, elo,
        SelectionNext, BeginSelect, ExistingRetry, CreateBinding, FillBinding, Approve,
        CreateRecord, FillRecord, SelectionWriteFails,
        UpgradeNext, BeginUpgrade, UpgradeReads, Reads, LoadProfile, LoadRules, LoadRecord,
        VerifyRecord, MakeAuthDir, CreateAuth, FillAuth, WriteAuthPointer, VerifyUpgrade,
        UpgradeWriteFails, MigrationsNext, BeginSchema, SchemaReads, CreateFile, FillFile,
        ReplaceArtifact, Advance, BeginRestore, RestoreReads, PrepareRestore, FillRestore, PutBack,
        RecordRestore, FillRestored, SchemaWriteFails
  <2> QED
    BY <2>2, <2>3, EnrolQuiet DEF StageRests, LockedLabels, MigrateLabels, Accepted
<1>4. ASSUME RuleStep \/ UNCHANGED vars
      PROVE  EnrolRests'
  <2>1. UNCHANGED <<pc, job, anchor, receipt, marker, head>>
    BY <1>4, RuleMoves DEF vars, control, trust, elo
  <2> QED
    BY <2>1 DEF LoneInv, EnrolRests, Old, InOrder, StageRests, IsTorn
<1>5. OneEnrolment'
  BY RuleMoves DEF LoneInv, OneEnrolment, Migrating, vars, control
<1> QED
  BY <1>0, <1>1, <1>2, <1>3, <1>4, <1>5 DEF Next, LoneInv

\* Where enrolments do not overlap, the documented promise holds: one that stopped
\* half-way, by a failing write or a crash, can be repeated, whatever else the home sees
\* meanwhile (policy.py creates receipt, marker and head in this order, and takes away
\* only a torn file whose successors are missing).  Without the condition it does not:
\* an enrolment may unlink the whole receipt of another one.
THEOREM LoneEnrolmentRecovers == LoneSpec => []PartialEnrollmentRecovers
<1>1. Init => OneEnrolment /\ EnrolRests
  <2>1. Init => /\ \A p \in Procs : pc[p] = "idle"
                /\ receipt = Nothing /\ marker = Nothing /\ head = Nothing
    BY DEF Init, TrustInit
  <2> QED
    BY <2>1 DEF OneEnrolment, Migrating, EnrolRests, InOrder, StageRests, Accepted
<1>2. LoneInv => PartialEnrollmentRecovers
  <2> SUFFICES ASSUME LoneInv, Old, ~eloDir
               PROVE  NoGaps /\ (IsTorn(receipt) => MayRemoveReceipt)
    BY DEF PartialEnrollmentRecovers, Old
  <2>1. InOrder /\ Legacy # Nothing /\ (IsTorn(receipt) => receipt # Legacy)
    BY TrustAssumption, TornIsNotWhole DEF LoneInv, EnrolRests, IsTorn
  <2> QED
    BY <2>1 DEF InOrder, NoGaps, MayRemoveReceipt
<1>3. LoneInv /\ [Next /\ OneEnrolment']_vars => LoneInv'
  BY LoneInvStep
<1>4. LoneSpec => Spec
  <2>1. [Next /\ OneEnrolment']_vars => [Next]_vars
    OBVIOUS
  <2> QED
    BY <2>1, PTL DEF LoneSpec, Spec
<1>5. Spec => []HeadInv
  BY HeadInvAlways
<1>6. HeadInv /\ OneEnrolment /\ EnrolRests => LoneInv
  BY DEF LoneInv
<1> QED
  BY <1>1, <1>2, <1>3, <1>4, <1>5, <1>6, PTL DEF LoneSpec

-----------------------------------------------------------------------------
(* The holder of the company profile's lock.                               *)

HeldLabels == UpgradeLabels \cup SchemaLabels \cup RestoreLabels

HoldersRest ==
  /\ DOMAIN profileLock = ProfileIds
  /\ \A p \in Procs : pc[p] \in HeldLabels => profileLock[Company] = p

LockInv == HomeFits /\ HoldersRest

LEMMA LockQuiet ==
  ASSUME LockInv, NEW p \in Procs, Others(p), pc'[p] \notin HeldLabels,
         DOMAIN profileLock' = ProfileIds,
         \A q \in Procs : q # p /\ profileLock[Company] = q /\ pc[q] # "idle" =>
           profileLock'[Company] = q
  PROVE  HoldersRest'
  BY DEF LockInv, HoldersRest, Others, HeldLabels, UpgradeLabels, SchemaLabels, FileLabels,
         RestoreLabels

LEMMA HolderGoesOn ==
  ASSUME LockInv, NEW p \in Procs, Others(p), pc[p] \in HeldLabels, UNCHANGED profileLock
  PROVE  HoldersRest'
  BY DEF LockInv, HoldersRest, Others

LEMMA HolderLeaves ==
  ASSUME LockInv, NEW p \in Procs, Others(p), pc[p] \in HeldLabels,
         pc'[p] \notin HeldLabels, DOMAIN profileLock' = ProfileIds
  PROVE  HoldersRest'
  BY DEF LockInv, HoldersRest, Others

LEMMA UpgradeKeepsLock ==
  ASSUME LockInv, NEW p \in Procs, UpgradeNext(p)
  PROVE  HoldersRest'
<1>0. Others(p) /\ DOMAIN pc = Procs /\ DOMAIN profileLock = ProfileIds /\ Company \in ProfileIds
  BY UpgradeMoves DEF LockInv, HomeFits, CommandsFit, HoldersRest, ProfileIds
<1>b. ASSUME NEW l, Step(p, l)
      PROVE  pc'[p] = l
  BY <1>0, <1>b DEF Step, Goto
<1>c. ASSUME Leave(p)
      PROVE  pc'[p] = "idle"
  BY <1>0, <1>c DEF Leave, Goto
<1>1. CASE BeginUpgrade(p)
  <2>1. pc'[p] = "profileLock" /\ UNCHANGED profileLock
    BY <1>0, <1>1 DEF BeginUpgrade, Begin, Goto, catalogs
  <2> QED
    BY <1>0, <2>1, LockQuiet
       DEF HeldLabels, UpgradeLabels, SchemaLabels, FileLabels, RestoreLabels
<1>2. CASE ReadsOn(p)
  <2>1. pc[p] \in HeldLabels
    BY <1>2, UpgradeReading DEF HeldLabels
  <2>2. CASE UNCHANGED profileLock
    BY <1>0, <2>1, <2>2, HolderGoesOn
  <2>3. CASE UnlockRefused(p)
    <3>1. pc'[p] = "idle" /\ DOMAIN profileLock' = ProfileIds
      BY <1>0, <1>c, <2>3 DEF UnlockRefused, Refuse, Unlock
    <3> QED
      BY <1>0, <2>1, <3>1, HolderLeaves
         DEF HeldLabels, UpgradeLabels, SchemaLabels, FileLabels, RestoreLabels
  <2> QED
    BY <1>2, <2>2, <2>3, UpgradeReading
<1>3. CASE MakeAuthDir(p) \/ CreateAuth(p) \/ FillAuth(p) \/ WriteAuthPointer(p)
  <2>1. pc[p] \in HeldLabels /\ UNCHANGED profileLock
    BY <1>3
    DEF MakeAuthDir, CreateAuth, FillAuth, WriteAuthPointer, catalogs, HeldLabels, UpgradeLabels
  <2> QED
    BY <1>0, <2>1, HolderGoesOn
<1>4. CASE VerifyRecord(p) \/ UpgradeWriteFails(p)
  <2>1. pc[p] \in HeldLabels /\ pc'[p] \in {"ok", "idle"}
    BY <1>4, <1>b, <1>c DEF VerifyRecord, UpgradeWriteFails, Refuse, HeldLabels, UpgradeLabels
  <2>2. DOMAIN profileLock' = ProfileIds
    BY <1>0, <1>4 DEF VerifyRecord, UpgradeWriteFails, Unlock
  <2> QED
    BY <1>0, <2>1, <2>2, HolderLeaves
       DEF HeldLabels, UpgradeLabels, SchemaLabels, FileLabels, RestoreLabels
<1> QED
  BY <1>1, <1>2, <1>3, <1>4 DEF UpgradeNext, ReadsOn

LEMMA MigrationKeepsLock ==
  ASSUME LockInv, NEW p \in Procs, MigrationsNext(p)
  PROVE  HoldersRest'
<1>0. Others(p) /\ DOMAIN pc = Procs /\ DOMAIN profileLock = ProfileIds /\ Company \in ProfileIds
  BY MigrationMoves DEF LockInv, HomeFits, FilesFit, CommandsFit, HoldersRest, ProfileIds
<1>b. ASSUME NEW l, Step(p, l)
      PROVE  pc'[p] = l
  BY <1>0, <1>b DEF Step, Goto
<1>c. ASSUME Leave(p)
      PROVE  pc'[p] = "idle"
  BY <1>0, <1>c DEF Leave, Goto
<1>u. Unlock => DOMAIN profileLock' = ProfileIds
  BY <1>0 DEF Unlock
<1>h. ASSUME pc[p] \in HeldLabels,
             UNCHANGED profileLock \/ UnlockRefused(p) \/ (Step(p, "ok") /\ Unlock)
      PROVE  HoldersRest'
  <2>1. CASE UNCHANGED profileLock
    BY <1>0, <1>h, <2>1, HolderGoesOn
  <2>2. CASE UnlockRefused(p) \/ (Step(p, "ok") /\ Unlock)
    <3>1. pc'[p] \in {"ok", "idle"} /\ DOMAIN profileLock' = ProfileIds
      BY <1>b, <1>c, <1>u, <2>2 DEF UnlockRefused, Refuse
    <3> QED
      BY <1>0, <1>h, <3>1, HolderLeaves
         DEF HeldLabels, UpgradeLabels, SchemaLabels, FileLabels, RestoreLabels
  <2> QED
    BY <1>h, <2>1, <2>2
<1>1. CASE BeginSchema(p) \/ BeginRestore(p)
  <2>1. pc'[p] = "profileLock" /\ UNCHANGED profileLock
    BY <1>0, <1>1 DEF BeginSchema, BeginRestore, Begin, Goto, catalogs
  <2> QED
    BY <1>0, <2>1, LockQuiet
       DEF HeldLabels, UpgradeLabels, SchemaLabels, FileLabels, RestoreLabels
<1>2. CASE SchemaReads(p) \/ Advance(p) \/ RestoreReads(p)
  <2>1. pc[p] \in HeldLabels
    BY <1>2 DEF SchemaReads, Advance, RestoreReads, HeldLabels, SchemaLabels, FileLabels, RestoreLabels
  <2> QED
    BY <1>2, <1>h, <2>1 DEF SchemaReads, Advance, RestoreReads
<1>3. CASE CreateFile(p)
  <2>1. pc[p] \in HeldLabels
    BY <1>3 DEF CreateFile, Stages, HeldLabels, SchemaLabels, FileLabels
  <2> QED
    BY <1>3, <1>h, <2>1 DEF CreateFile
<1>4. CASE FillFile(p)
  <2>1. pc[p] \in HeldLabels /\ UNCHANGED profileLock
    BY <1>4 DEF FillFile, Stages, Filling, catalogs, HeldLabels, SchemaLabels, FileLabels
  <2> QED
    BY <1>h, <2>1
<1>5. CASE ReplaceArtifact(p) \/ PrepareRestore(p) \/ FillRestore(p) \/ PutBack(p) \/ RecordRestore(p)
  <2>1. pc[p] \in HeldLabels /\ UNCHANGED profileLock
    BY <1>5 DEF ReplaceArtifact, PrepareRestore, FillRestore, PutBack, RecordRestore, catalogs,
                HeldLabels, SchemaLabels, FileLabels, RestoreLabels
  <2> QED
    BY <1>h, <2>1
<1>6. CASE FillRestored(p)
  <2>1. pc[p] \in HeldLabels /\ Step(p, "ok") /\ Unlock
    BY <1>6 DEF FillRestored, HeldLabels, RestoreLabels
  <2> QED
    BY <1>h, <2>1
<1>7. CASE SchemaWriteFails(p)
  <2>1. pc[p] \in HeldLabels /\ pc'[p] = "idle" /\ DOMAIN profileLock' = ProfileIds
    BY <1>7, <1>c, <1>u DEF SchemaWriteFails, HeldLabels, SchemaLabels, FileLabels, RestoreLabels
  <2> QED
    BY <1>0, <2>1, HolderLeaves
       DEF HeldLabels, UpgradeLabels, SchemaLabels, FileLabels, RestoreLabels
<1> QED
  BY <1>1, <1>2, <1>3, <1>4, <1>5, <1>6, <1>7 DEF MigrationsNext

LEMMA LockInvStep ==
  ASSUME LockInv, [Next]_vars
  PROVE  LockInv'
<1>0. HomeFits' /\ DOMAIN profileLock = ProfileIds /\ Company \in ProfileIds
  BY HomeMoves DEF LockInv, HoldersRest, ProfileIds
<1> USE DEF HeldLabels, UpgradeLabels, SchemaLabels, FileLabels, RestoreLabels
<1>1. ASSUME NEW p \in Procs, TrustStep(p)
      PROVE  HoldersRest'
  <2>1. Others(p) /\ ProfileLockLeft /\ pc'[p] \notin HeldLabels
    BY <1>1, TrustMoves
    DEF TrustStep, LockInv, HomeFits, TrustLabels, EnrollLabels, PersonalLabels
  <2>2. DOMAIN profileLock' = ProfileIds
    BY <2>1 DEF ProfileLockLeft
  <2>3. \A q \in Procs : q # p /\ profileLock[Company] = q /\ pc[q] # "idle" =>
          profileLock'[Company] = q
    BY <1>0, <2>1, TrustAssumption DEF ProfileLockLeft, Others
  <2> QED
    BY <2>1, <2>2, <2>3, LockQuiet
<1>2. ASSUME NEW p \in Procs, EloStep(p)
      PROVE  HoldersRest'
  <2>1. Others(p) /\ pc'[p] \notin HeldLabels /\ UNCHANGED profileLock
    BY <1>2, EloMoves DEF EloStep, LockInv, HomeFits, catalogs, EvaluateLabels, MigrateLabels
  <2> QED
    BY <1>0, <2>1, LockQuiet
<1>3. ASSUME NEW p \in Procs, OnboardingStep(p)
      PROVE  HoldersRest'
  <2>1. Others(p) /\ OnboardingNext(p)
    BY <1>3, OnboardingMoves DEF OnboardingStep, LockInv, HomeFits
  <2>2. CASE LockProfile(p)
    <3>1. profileLock[Company] = Nothing /\ profileLock' = [profileLock EXCEPT ![Company] = p]
      BY <2>2 DEF LockProfile
    <3>2. \A q \in Procs : q # p => pc'[q] \notin HeldLabels
      BY <2>1, <3>1, TrustAssumption DEF LockInv, HoldersRest, Others
    <3> QED
      BY <1>0, <3>1, <3>2 DEF HoldersRest
  <2>3. CASE UNCHANGED profileLock /\ pc'[p] \notin HeldLabels
    BY <1>0, <2>1, <2>3, LockQuiet
  <2>4. LockProfile(p) \/ UNCHANGED profileLock
    BY <2>1
    DEF OnboardingNext, LockTimesOut, BeginProfile, InstallProfile, Ingest, IngestDies,
        BeginOnboard, OnboardReads, RemoveEmptyHome, RenameHome, RenameHomeRefused,
        RenameHomeFails, VerifyHome, catalogs
  <2>5. ~LockProfile(p) => pc'[p] \notin HeldLabels
    BY <2>1, OnboardingMoves DEF LockInv, HomeFits, OnboardLabels
  <2> QED
    BY <2>2, <2>3, <2>4, <2>5
<1>4. ASSUME NEW p \in Procs, SelectionStep(p)
      PROVE  HoldersRest'
  <2>1. \A id \in Personal : Len(snapshots[id]) \in Nat
    BY DEF LockInv, HomeFits, FilesFit, ProfileIds
  <2>2. Others(p) /\ pc'[p] \notin HeldLabels
    BY <1>4, <2>1, SelectionMoves DEF SelectionStep, LockInv, HomeFits, SelectLabels
  <2>3. UNCHANGED profileLock
    BY <1>4 DEF SelectionStep, SelectionNext, BeginSelect, ExistingRetry, CreateBinding,
                FillBinding, Approve, CreateRecord, FillRecord, SelectionWriteFails, catalogs
  <2> QED
    BY <1>0, <2>2, <2>3, LockQuiet
<1>5. ASSUME NEW p \in Procs, UpgradeStep(p) \/ MigrationStep(p)
      PROVE  HoldersRest'
  BY <1>5, UpgradeKeepsLock, MigrationKeepsLock DEF UpgradeStep, MigrationStep
<1>6. CASE RuleStep \/ UNCHANGED vars
  <2>1. UNCHANGED <<pc, profileLock>>
    BY <1>6, RuleMoves DEF vars, control, catalogs
  <2> QED
    BY <1>0, <2>1 DEF LockInv, HoldersRest
<1> QED
  BY <1>0, <1>1, <1>2, <1>3, <1>4, <1>5, <1>6 DEF Next, LockInv

-----------------------------------------------------------------------------
(* Authorizations rest on the rules they name.                             *)

WritesAuth == {"makeAuthDir", "createAuth", "fillAuth"}
Loading == {"loadProfile", "loadRules"}
Loaded ==
  {"loadRecord", "writePointer", "verifyUpgrade", "verifyProfile", "verifyRules", "verifyRecord"}

\* What the holder of the lock has established about the authorization it is granting.
GrantRests(l, b) ==
  /\ l \in WritesAuth => auths = {} /\ b.seq \in DOMAIN rules
  /\ l \in Loading => NoRecords \/ b \in auths
  /\ l \in Loaded => b \in auths

UpgradeRests ==
  /\ rules \in Seq(Revisions)
  /\ auths = {} \/ \E b : auths = {b}
  /\ \A b \in auths : b.seq \in DOMAIN rules
  /\ \A p \in Procs : GrantRests(pc[p], job[p].binding)

UpgradeInv == LockInv /\ UpgradeRests

Granting == WritesAuth \cup Loading \cup Loaded

\* The holder goes on; no other process is granting.
LEMMA GrantGoesOn ==
  ASSUME UpgradeInv, NEW p \in Procs, Others(p), pc[p] \in UpgradeLabels, UNCHANGED rules,
         auths' = {} \/ \E b : auths' = {b}, \A b \in auths' : b.seq \in DOMAIN rules,
         GrantRests(pc[p], job[p].binding)'
  PROVE  UpgradeRests'
<1>1. \A q \in Procs : q # p => pc[q] \notin UpgradeLabels /\ pc'[q] = pc[q]
  BY DEF UpgradeInv, LockInv, HoldersRest, HeldLabels, Others
<1>2. \A q \in Procs : q # p => GrantRests(pc[q], job[q].binding)'
  BY <1>1 DEF GrantRests, UpgradeLabels, WritesAuth, Loading, Loaded
<1> QED
  BY <1>2 DEF UpgradeInv, UpgradeRests

LEMMA UpgradeQuiet ==
  ASSUME UpgradeInv, NEW p \in Procs, Others(p), UNCHANGED upgrades, pc'[p] \notin Granting
  PROVE  UpgradeRests'
<1>1. \A q \in Procs : q # p => GrantRests(pc[q], job[q].binding)'
  BY DEF UpgradeInv, UpgradeRests, GrantRests, Others, NoRecords, upgrades
<1>2. GrantRests(pc[p], job[p].binding)'
  BY DEF GrantRests, Granting
<1> QED
  BY <1>1, <1>2 DEF UpgradeInv, UpgradeRests, upgrades

LEMMA UpgradeStepKeeps ==
  ASSUME UpgradeInv, NEW p \in Procs, UpgradeNext(p)
  PROVE  UpgradeRests'
<1>0. Others(p) /\ DOMAIN pc = Procs
  BY UpgradeMoves DEF UpgradeInv, LockInv, HomeFits, CommandsFit
<1>b. ASSUME NEW l, Step(p, l)
      PROVE  pc'[p] = l /\ job'[p] = job[p]
  BY <1>0, <1>b DEF Step, Goto
<1>c. ASSUME Leave(p)
      PROVE  pc'[p] = "idle"
  BY <1>0, <1>c DEF Leave, Goto
<1>r. /\ rules \in Seq(Revisions) /\ (auths = {} \/ \E b : auths = {b})
      /\ \A b \in auths : b.seq \in DOMAIN rules
      /\ GrantRests(pc[p], job[p].binding)
  BY DEF UpgradeInv, UpgradeRests
<1>1. CASE BeginUpgrade(p)
  <2>1. pc'[p] = "profileLock" /\ UNCHANGED upgrades
    BY <1>0, <1>1 DEF BeginUpgrade, Begin, Goto
  <2> QED
    BY <1>0, <2>1, UpgradeQuiet DEF Granting, WritesAuth, Loading, Loaded
<1>2. CASE ReadsOn(p)
  <2>1. pc[p] \in UpgradeLabels /\ UNCHANGED <<rules, auths, tornAuth, authPointer>>
    BY <1>2, UpgradeReading DEF upgrades
  <2>2. CASE UnlockRefused(p)
    <3>1. pc'[p] = "idle" /\ UNCHANGED upgrades
      BY <1>2, <1>c, <2>2, UpgradeReading DEF UnlockRefused, Refuse
    <3> QED
      BY <1>0, <3>1, UpgradeQuiet DEF Granting, WritesAuth, Loading, Loaded
  <2>3. ASSUME NEW l, Step(p, l), Finds(pc[p], l, job[p].binding)
        PROVE  UpgradeRests'
    <3>1. PICK b : b = job[p].binding
      OBVIOUS
    <3>2. pc'[p] = l /\ job'[p] = job[p]
      BY <1>b, <2>3
    <3>3. IsCandidate(b) => b.seq \in DOMAIN rules
      BY <1>r DEF IsCandidate, RulesLoad
    <3>4. GrantRests(l, b)
      BY <1>r, <2>3, <3>1, <3>3
      DEF Finds, GrantRests, WritesAuth, Loading, Loaded, NoRecords
    <3>5. GrantRests(pc[p], job[p].binding)'
      BY <2>1, <3>1, <3>2, <3>4 DEF GrantRests, NoRecords
    <3> QED
      BY <1>0, <1>r, <2>1, <3>5, GrantGoesOn
  <2> QED
    BY <1>2, <2>2, <2>3, UpgradeReading
<1>3. CASE MakeAuthDir(p) \/ CreateAuth(p) \/ WriteAuthPointer(p)
  <2>1. /\ UNCHANGED <<rules, auths>> /\ job'[p] = job[p] /\ pc[p] \in UpgradeLabels
        /\ \/ pc[p] \in WritesAuth /\ pc'[p] \in WritesAuth
           \/ pc[p] = "writePointer" /\ pc'[p] = "verifyUpgrade"
    BY <1>3, <1>b DEF MakeAuthDir, CreateAuth, WriteAuthPointer, WritesAuth, UpgradeLabels
  <2>2. GrantRests(pc[p], job[p].binding)'
    BY <1>r, <2>1 DEF GrantRests, WritesAuth, Loading, Loaded
  <2> QED
    BY <1>0, <1>r, <2>1, <2>2, GrantGoesOn
<1>4. CASE FillAuth(p)
  <2>1. pc[p] = "fillAuth" /\ pc'[p] = "writePointer" /\ UNCHANGED rules /\ job'[p] = job[p]
        /\ auths' = auths \cup {job[p].binding}
    BY <1>4, <1>b DEF FillAuth
  <2>2. auths' = {job[p].binding} /\ job[p].binding.seq \in DOMAIN rules
    BY <1>r, <2>1 DEF GrantRests, WritesAuth
  <2>3. GrantRests(pc[p], job[p].binding)'
    BY <2>1, <2>2 DEF GrantRests, WritesAuth, Loading
  <2> QED
    BY <1>0, <2>1, <2>2, <2>3, GrantGoesOn DEF UpgradeLabels
<1>5. CASE VerifyRecord(p)
  <2>1. UNCHANGED upgrades /\ pc'[p] \in {"ok", "idle"}
    BY <1>5, <1>b, <1>c DEF VerifyRecord, Refuse
  <2> QED
    BY <1>0, <2>1, UpgradeQuiet DEF Granting, WritesAuth, Loading, Loaded
<1>6. CASE UpgradeWriteFails(p)
  <2>1. /\ UNCHANGED <<rules, auths>> /\ pc'[p] = "idle" /\ pc[p] \in UpgradeLabels
    BY <1>6, <1>c DEF UpgradeWriteFails, UpgradeLabels
  <2>2. GrantRests(pc[p], job[p].binding)'
    BY <2>1 DEF GrantRests, WritesAuth, Loading, Loaded
  <2> QED
    BY <1>0, <1>r, <2>1, <2>2, GrantGoesOn
<1> QED
  BY <1>1, <1>2, <1>3, <1>4, <1>5, <1>6 DEF UpgradeNext, ReadsOn

\* Rules are only ever added to.
LEMMA RulesGrow ==
  ASSUME UpgradeInv, [Next]_vars
  PROVE  /\ rules' \in Seq(Revisions)
         /\ \A i \in DOMAIN rules : i \in DOMAIN rules' /\ rules'[i] = rules[i]
<1>0. rules \in Seq(Revisions)
  BY DEF UpgradeInv, UpgradeRests
<1>1. CASE AdvanceRules
  <2>1. PICK r \in Revisions : rules' = Append(rules, r)
    BY <1>1 DEF AdvanceRules
  <2> QED
    BY <1>0, <2>1, AppendProperties
<1>2. ASSUME NEW p \in Procs, UpgradeNext(p)
      PROVE  UNCHANGED rules
  <2>1. CASE ReadsOn(p)
    BY <2>1, UpgradeReading DEF upgrades
  <2> QED
    BY <1>2, <2>1
    DEF UpgradeNext, ReadsOn, BeginUpgrade, MakeAuthDir, CreateAuth, FillAuth, WriteAuthPointer,
        VerifyRecord, UpgradeWriteFails, upgrades
<1>3. CASE UNCHANGED rules
  BY <1>0, <1>3
<1> QED
  BY <1>1, <1>2, <1>3
  DEF Next, TrustStep, EloStep, OnboardingStep, SelectionStep, UpgradeStep, MigrationStep, RuleStep,
      RulesExpire, vars, upgrades

LEMMA RuleStepKeeps ==
  ASSUME UpgradeInv, RuleStep
  PROVE  UpgradeRests'
<1>1. UNCHANGED <<pc, job>>
  BY RuleMoves DEF control
<1>2. /\ rules' \in Seq(Revisions) /\ \A i \in DOMAIN rules : i \in DOMAIN rules'
      /\ UNCHANGED <<auths, tornAuth, authPointer>>
  BY RulesGrow DEF Next, RuleStep, AdvanceRules, RulesExpire, authorization
<1>3. \A p \in Procs : GrantRests(pc[p], job[p].binding)'
  BY <1>1, <1>2 DEF UpgradeInv, UpgradeRests, GrantRests, NoRecords
<1> QED
  BY <1>2, <1>3 DEF UpgradeInv, UpgradeRests

LEMMA UpgradeInvStep ==
  ASSUME UpgradeInv, [Next]_vars
  PROVE  UpgradeInv'
<1>0. LockInv'
  BY LockInvStep DEF UpgradeInv
<1>1. ASSUME NEW p \in Procs,
             \/ TrustStep(p) \/ EloStep(p) \/ OnboardingStep(p) \/ SelectionStep(p)
             \/ MigrationStep(p)
      PROVE  UpgradeRests'
  <2>1. \A id \in Personal : Len(snapshots[id]) \in Nat
    BY DEF UpgradeInv, LockInv, HomeFits, FilesFit, ProfileIds
  <2>2. UNCHANGED upgrades
    BY <1>1 DEF TrustStep, EloStep, OnboardingStep, SelectionStep, MigrationStep
  <2>3. CommandsFit /\ artifact \in Versions
    BY DEF UpgradeInv, LockInv, HomeFits, FilesFit
  <2> USE DEF Granting, WritesAuth, Loading, Loaded
  <2>4. CASE TrustStep(p) \/ EloStep(p) \/ OnboardingStep(p)
    BY <2>2, <2>3, <2>4, TrustMoves, EloMoves, OnboardingMoves, UpgradeQuiet
    DEF TrustStep, EloStep, OnboardingStep, TrustLabels, EnrollLabels, PersonalLabels,
        EvaluateLabels, MigrateLabels, OnboardLabels
  <2>5. CASE SelectionStep(p) \/ MigrationStep(p)
    BY <2>1, <2>2, <2>3, <2>5, SelectionMoves, MigrationMoves, UpgradeQuiet
    DEF SelectionStep, MigrationStep, SelectLabels, FileLabels, SchemaLabels, RestoreLabels
  <2> QED
    BY <1>1, <2>4, <2>5
<1>2. ASSUME NEW p \in Procs, UpgradeStep(p)
      PROVE  UpgradeRests'
  BY <1>2, UpgradeStepKeeps DEF UpgradeStep
<1>3. CASE UNCHANGED vars
  <2>1. UNCHANGED <<pc, job, rules, auths, tornAuth, authPointer>>
    BY <1>3 DEF vars, control, upgrades
  <2> QED
    BY <1>0, <2>1 DEF UpgradeInv, UpgradeRests, GrantRests, NoRecords
<1> QED
  BY <1>0, <1>1, <1>2, <1>3, RuleStepKeeps DEF Next, UpgradeInv

LEMMA AuthorizationsHold ==
  ASSUME UpgradeInv
  PROVE  AuthorizationsRest
<1>1. Cardinality(auths) <= 1
  <2>1. CASE auths = {}
    <3>1. Cardinality(auths) = 0
      BY <2>1, FS_EmptySet
    <3> QED
      BY <3>1
  <2>2. CASE \E b : auths = {b}
    <3>1. Cardinality(auths) = 1
      BY <2>2, FS_Singleton
    <3> QED
      BY <3>1
  <2> QED
    BY <2>1, <2>2 DEF UpgradeInv, UpgradeRests
<1> QED
  BY <1>1 DEF UpgradeInv, UpgradeRests, AuthorizationsRest

-----------------------------------------------------------------------------
(* Migrations leave every earlier version restorable.                      *)

Advancing == {"backup", "fillBackup", "prepare", "fillPrepare", "replace"}
Committing == {"commit", "fillCommit", "advance"}

\* What the holder of the lock has established about the files it goes on to write.
WorkRests(p) ==
  LET j == job[p] IN
  /\ pc[p] \in Advancing =>
       j.at = artifact /\ \A u \in 1 .. artifact - 1 : written["commit"][u] = "whole"
  /\ pc[p] \in {"prepare", "fillPrepare", "replace"} => written["backup"][j.at] = "whole"
  /\ pc[p] = "replace" => written["prepare"][j.at] = "whole"
  /\ pc[p] \in Committing => artifact = j.at + 1
  /\ pc[p] = "advance" => written["commit"][j.at] = "whole"
  /\ \A s \in Stages : pc[p] = Filling[s] => written[s][j.at] = Torn
  /\ pc[p] \in {"prepareRestore", "fillRestore", "putBack"} => written["commit"][j.to] = "whole"
  /\ pc[p] \in {"prepareRestore", "fillRestore", "putBack", "recordRestore"} =>
       restored[j.id] = Nothing
  /\ pc[p] = "fillRestore" => restoring[j.id] = Torn
  /\ pc[p] = "fillRestored" => restored[j.id] = Torn
  /\ pc[p] \in {"putBack", "recordRestore", "fillRestored"} =>
       Sealed(restoring[j.id]) /\ restoring[j.id].to = j.to

\* All that migrations to version v leave behind.
Reached(v) ==
  \A u \in 1 .. v - 1 :
    /\ written["backup"][u] = "whole" /\ written["prepare"][u] = "whole"
    /\ u < v - 1 => written["commit"][u] = "whole"

MigrationRests ==
  /\ written \in [Stages -> [Versions -> {Nothing, Torn, "whole"}]]
  /\ DOMAIN restoring = Restorations /\ DOMAIN restored = Restorations
  /\ Reached(artifact)
  /\ \A v \in Versions : written["commit"][v] = "whole" => Reached(v)
  /\ \A r \in Restorations : restored[r] # Nothing => Sealed(restoring[r])
  /\ \A p \in Procs : WorkRests(p)

MigrationInv == LockInv /\ MigrationRests

\* What is whole stays whole, whatever else is written.
LEMMA FileWritten ==
  ASSUME written \in [Stages -> [Versions -> {Nothing, Torn, "whole"}]],
         NEW s \in Stages, NEW v \in Versions, NEW x \in {Nothing, Torn, "whole"},
         written' = [written EXCEPT ![s][v] = x],
         written[s][v] = "whole" => x = "whole"
  PROVE  /\ written' \in [Stages -> [Versions -> {Nothing, Torn, "whole"}]]
         /\ written'[s][v] = x
         /\ \A t \in Stages, u \in Versions : written[t][u] = "whole" => written'[t][u] = "whole"
         /\ \A t \in Stages, u \in Versions : t # s \/ u # v => written'[t][u] = written[t][u]
<1>1. PICK f : f = [written[s] EXCEPT ![v] = x]
  OBVIOUS
<1>2. f \in [Versions -> {Nothing, Torn, "whole"}] /\ f[v] = x
      /\ \A u \in Versions : u # v => f[u] = written[s][u]
  BY <1>1
<1>3. written' = [written EXCEPT ![s] = f]
  BY <1>1
<1>4. /\ written' \in [Stages -> [Versions -> {Nothing, Torn, "whole"}]]
      /\ written'[s] = f /\ \A t \in Stages : t # s => written'[t] = written[t]
  BY <1>2, <1>3
<1> QED
  BY <1>2, <1>4

LEMMA ReachedStays ==
  ASSUME \A t \in Stages, u \in Versions : written[t][u] = "whole" => written'[t][u] = "whole",
         NEW v \in Versions, Reached(v)
  PROVE  Reached(v)'
<1>1. \A u \in 1 .. v - 1 : u \in Versions
  BY VersionAssumption DEF Versions
<1> QED
  BY <1>1 DEF Reached, Stages

\* A step of a command that has no work on the artifact.
LEMMA MigrationQuiet ==
  ASSUME MigrationInv, NEW p \in Procs, Others(p), UNCHANGED artifacts,
         pc'[p] \notin (SchemaLabels \cup RestoreLabels) \ {"schema", "restore"}
  PROVE  MigrationRests'
<1>1. UNCHANGED <<artifact, written, restoring, restored>>
  BY DEF artifacts
<1>2. ASSUME NEW q \in Procs
      PROVE  WorkRests(q)'
  <2>1. CASE q = p
    BY <2>1 DEF WorkRests, SchemaLabels, FileLabels, RestoreLabels, Advancing, Committing, Filling,
                Stages
  <2>2. CASE q # p
    <3>1. pc'[q] = pc[q] /\ job'[q] = job[q] /\ WorkRests(q)
      BY <2>2 DEF Others, MigrationInv, MigrationRests
    <3> QED
      BY <1>1, <3>1 DEF WorkRests, Sealed
  <2> QED
    BY <2>1, <2>2
<1> QED
  BY <1>1, <1>2 DEF MigrationInv, MigrationRests, Reached, Sealed

\* While one command works on the artifact, no other does.
LEMMA WorkIsAlone ==
  ASSUME MigrationInv, NEW p \in Procs, Others(p), pc[p] \in HeldLabels
  PROVE  \A q \in Procs : q # p => WorkRests(q)'
<1>1. \A q \in Procs : q # p => pc'[q] \notin HeldLabels
  BY DEF MigrationInv, LockInv, HoldersRest, Others
<1> QED
  BY <1>1 DEF WorkRests, HeldLabels, SchemaLabels, FileLabels, RestoreLabels, Advancing, Committing,
              Filling, Stages

LEMMA SchemaLabel ==
  ASSUME HomeFits, NEW p \in Procs
  PROVE  /\ pc[p] \in FileLabels \cup {"schema", "advance"} => SchemaFits(pc[p], job[p])
         /\ pc[p] \in FileLabels \cup {"advance"} =>
              /\ job[p].at \in Versions /\ job[p].at + 1 \in Versions
              /\ job[p].at \in Nat /\ job[p].at # job[p].at + 1
         /\ pc[p] \in RestoreLabels =>
              RestoreFits(pc[p], job[p]) /\ job[p].id \in Restorations /\ job[p].to \in Versions
<1>1. pc[p] # "idle" => Fits(pc[p], job[p])
  BY DEF HomeFits, CommandsFit
<1>2. /\ pc[p] \in FileLabels \cup {"schema", "advance"} => SchemaFits(pc[p], job[p])
      /\ pc[p] \in RestoreLabels => RestoreFits(pc[p], job[p])
  BY <1>1
  DEF Fits, InstallFits, EnrollFits, OnboardFits, ProfileFits, SelectFits, EvaluateFits,
      MigrateFits, UpgradeFits, SchemaFits, RestoreFits, TrustLabels, EnrollLabels,
      OnboardLabels, PersonalLabels, SelectLabels, EvaluateLabels, MigrateLabels,
      UpgradeLabels, FileLabels, SchemaLabels, RestoreLabels
<1>3. ASSUME pc[p] \in FileLabels \cup {"advance"}
      PROVE  /\ job[p].at \in Versions /\ job[p].at + 1 \in Versions
             /\ job[p].at \in Nat /\ job[p].at # job[p].at + 1
  <2>1. job[p].at \in Versions /\ job[p].at < CurrentVersion
    BY <1>2, <1>3 DEF SchemaFits
  <2> QED
    BY <2>1, VersionAssumption DEF Versions
<1> QED
  BY <1>2, <1>3 DEF RestoreFits

\* The holder of the lock takes a step.
LEMMA MigrationWorks ==
  ASSUME MigrationInv, NEW p \in Procs, Others(p), pc[p] \in HeldLabels, WorkRests(p)',
         written' \in [Stages -> [Versions -> {Nothing, Torn, "whole"}]],
         DOMAIN restoring' = Restorations, DOMAIN restored' = Restorations,
         Reached(artifact)',
         \A v \in Versions : written'["commit"][v] = "whole" => Reached(v)',
         \A r \in Restorations : restored'[r] # Nothing => Sealed(restoring'[r])
  PROVE  MigrationRests'
<1>1. \A q \in Procs : WorkRests(q)'
  BY WorkIsAlone
<1> QED
  BY <1>1 DEF MigrationRests, Sealed

LEMMA MigrationReadsOn ==
  ASSUME MigrationInv, NEW p \in Procs, Others(p), pc[p] \in HeldLabels, WorkRests(p)',
         UNCHANGED artifacts
  PROVE  MigrationRests'
<1>1. UNCHANGED <<artifact, written, restoring, restored>>
  BY DEF artifacts
<1>2. Reached(artifact)' /\ \A v \in Versions : written'["commit"][v] = "whole" => Reached(v)'
  BY <1>1 DEF Reached, MigrationInv, MigrationRests
<1>3. \A r \in Restorations : restored'[r] # Nothing => Sealed(restoring'[r])
  BY <1>1 DEF MigrationInv, MigrationRests, Sealed
<1> QED
  BY <1>1, <1>2, <1>3, MigrationWorks DEF MigrationInv, MigrationRests

\* One file is written, and the step that it belongs to is complete when it is a commit.
LEMMA MigrationWrites ==
  ASSUME MigrationInv, NEW p \in Procs, Others(p), pc[p] \in HeldLabels,
         NEW s \in Stages, NEW x \in {Nothing, Torn, "whole"}, job[p].at \in Versions,
         written' = [written EXCEPT ![s][job[p].at] = x],
         UNCHANGED <<artifact, restoring, restored>>,
         written[s][job[p].at] # "whole",
         s = "commit" /\ x = "whole" => artifact = job[p].at + 1,
         WorkRests(p)'
  PROVE  MigrationRests'
<1>1. PICK v \in Versions : v = job[p].at
  OBVIOUS
<1>2. /\ written' \in [Stages -> [Versions -> {Nothing, Torn, "whole"}]]
      /\ written'[s][v] = x
      /\ \A t \in Stages, u \in Versions : written[t][u] = "whole" => written'[t][u] = "whole"
      /\ \A t \in Stages, u \in Versions : t # s \/ u # v => written'[t][u] = written[t][u]
  BY <1>1, FileWritten DEF MigrationInv, MigrationRests
<1>3. artifact \in Versions /\ Reached(artifact)
  BY DEF MigrationInv, MigrationRests, LockInv, HomeFits, FilesFit
<1>4. Reached(artifact)'
  <2>1. PICK a \in Versions : a = artifact
    BY <1>3
  <2>2. Reached(a)'
    BY <1>2, <1>3, <2>1, ReachedStays
  <2> QED
    BY <2>1, <2>2
<1>5. ASSUME NEW u \in Versions, written'["commit"][u] = "whole"
      PROVE  Reached(u)'
  <2>1. CASE written["commit"][u] = "whole"
    BY <1>2, <2>1, ReachedStays DEF MigrationInv, MigrationRests
  <2>2. CASE written["commit"][u] # "whole"
    <3>1. s = "commit" /\ u = v /\ x = "whole"
      BY <1>2, <1>5, <2>2 DEF Stages
    <3>2. artifact = u + 1 /\ u \in Nat
      BY <1>1, <3>1, VersionAssumption DEF Versions
    <3>3. Reached(u)
      BY <1>3, <3>2 DEF Reached
    <3> QED
      BY <1>2, <3>3, ReachedStays
  <2> QED
    BY <2>1, <2>2
<1>6. \A r \in Restorations : restored'[r] # Nothing => Sealed(restoring'[r])
  BY DEF MigrationInv, MigrationRests, Sealed
<1> QED
  BY <1>2, <1>4, <1>5, <1>6, MigrationWorks DEF MigrationInv, MigrationRests

LEMMA FileCreated ==
  ASSUME MigrationInv, NEW p \in Procs, CreateFile(p)
  PROVE  MigrationRests'
<1>0. Others(p) /\ DOMAIN pc = Procs /\ DOMAIN job = Procs
  BY MigrationMoves DEF MigrationInv, LockInv, HomeFits, FilesFit, CommandsFit, MigrationsNext
<1>1. PICK s \in Stages : s = pc[p]
  BY DEF CreateFile
<1>2. pc[p] \in HeldLabels /\ pc[p] \in FileLabels
  BY <1>1 DEF Stages, HeldLabels, SchemaLabels, FileLabels
<1>3. PICK v \in Versions : v = job[p].at
  BY <1>2, SchemaLabel DEF MigrationInv, LockInv
<1>4. WorkRests(p)
  BY DEF MigrationInv, MigrationRests
<1>5. CASE written[s][v] = Nothing /\ Step(p, Filling[s])
           /\ written' = [written EXCEPT ![s][v] = Torn]
  <2>1. Nothing # "whole" /\ Torn # "whole"
    BY VersionAssumption
  <2>2. /\ written'[s][v] = Torn
        /\ \A t \in Stages, u \in Versions : written[t][u] = "whole" => written'[t][u] = "whole"
    BY <1>5, <2>1, FileWritten DEF MigrationInv, MigrationRests
  <2>3. pc'[p] = Filling[s] /\ job'[p] = job[p] /\ UNCHANGED <<artifact, restoring, restored>>
    BY <1>0, <1>5 DEF Step, Goto, CreateFile
  <2>4. \A u \in 1 .. artifact - 1 : u \in Versions
    BY VersionAssumption DEF MigrationInv, LockInv, HomeFits, FilesFit, Versions
  <2>5. WorkRests(p)'
    BY <1>1, <1>3, <1>4, <2>2, <2>3, <2>4 DEF WorkRests, Stages, Filling, Advancing, Committing
  <2> QED
    BY <1>0, <1>2, <1>3, <1>5, <2>1, <2>3, <2>5, MigrationWrites
<1>6. CASE written[s][v] = "whole" /\ Step(p, AfterFile[s]) /\ UNCHANGED written
  <2>1. pc'[p] = AfterFile[s] /\ job'[p] = job[p] /\ UNCHANGED <<artifact, restoring, restored>>
    BY <1>0, <1>6 DEF Step, Goto, CreateFile
  <2>2. WorkRests(p)'
    BY <1>1, <1>3, <1>4, <1>6, <2>1
    DEF WorkRests, Stages, Filling, AfterFile, Advancing, Committing
  <2> QED
    BY <1>0, <1>2, <1>6, <2>1, <2>2, MigrationReadsOn DEF artifacts
<1>7. CASE Leave(p) /\ UNCHANGED written
  <2>1. pc'[p] = "idle" /\ UNCHANGED artifacts
    BY <1>0, <1>7 DEF Leave, Goto, CreateFile, artifacts
  <2> QED
    BY <1>0, <2>1, MigrationQuiet DEF SchemaLabels, FileLabels, RestoreLabels
<1>8. written[s][v] \in {Nothing, Torn, "whole"}
  BY DEF MigrationInv, MigrationRests
<1> QED
  BY <1>1, <1>3, <1>5, <1>6, <1>7, <1>8 DEF CreateFile, UnlockRefused, Refuse

LEMMA FileFilled ==
  ASSUME MigrationInv, NEW p \in Procs, FillFile(p)
  PROVE  MigrationRests'
<1>0. Others(p) /\ DOMAIN pc = Procs /\ DOMAIN job = Procs
  BY MigrationMoves DEF MigrationInv, LockInv, HomeFits, FilesFit, CommandsFit, MigrationsNext
<1>1. PICK s \in Stages : pc[p] = Filling[s] /\ s = StageOf(p)
  BY DEF FillFile, StageOf
<1>2. pc[p] \in HeldLabels /\ pc[p] \in FileLabels
  BY <1>1 DEF Stages, Filling, HeldLabels, SchemaLabels, FileLabels
<1>3. PICK v \in Versions : v = job[p].at
  BY <1>2, SchemaLabel DEF MigrationInv, LockInv
<1>4. WorkRests(p) /\ Torn # "whole"
  BY VersionAssumption DEF MigrationInv, MigrationRests
<1>5. written[s][v] = Torn
  BY <1>1, <1>3, <1>4 DEF WorkRests
<1>6. written' = [written EXCEPT ![s][v] = "whole"]
  BY <1>1, <1>3 DEF FillFile
<1>7. /\ written'[s][v] = "whole"
      /\ \A t \in Stages, u \in Versions : written[t][u] = "whole" => written'[t][u] = "whole"
  BY <1>6, FileWritten DEF MigrationInv, MigrationRests
<1>8. pc'[p] = AfterFile[s] /\ job'[p] = job[p] /\ UNCHANGED <<artifact, restoring, restored>>
  BY <1>0, <1>1 DEF Step, Goto, FillFile
<1>9. \A u \in 1 .. artifact - 1 : u \in Versions
  BY VersionAssumption DEF MigrationInv, LockInv, HomeFits, FilesFit, Versions
<1>10. WorkRests(p)'
  BY <1>1, <1>3, <1>4, <1>7, <1>8, <1>9
  DEF WorkRests, Stages, Filling, AfterFile, Advancing, Committing
<1>11. s = "commit" => artifact = job[p].at + 1
  BY <1>1, <1>4 DEF WorkRests, Filling, Stages, Committing
<1> QED
  BY <1>0, <1>2, <1>3, <1>4, <1>5, <1>6, <1>8, <1>10, <1>11, MigrationWrites

LEMMA FileFails ==
  ASSUME MigrationInv, NEW p \in Procs, SchemaWriteFails(p)
  PROVE  MigrationRests'
<1>0. Others(p) /\ pc'[p] = "idle" /\ DOMAIN pc = Procs
  BY LeaveFits DEF MigrationInv, LockInv, HomeFits, CommandsFit, SchemaWriteFails
<1>1. pc[p] \in HeldLabels /\ WorkRests(p)' /\ WorkRests(p) /\ UNCHANGED artifact
  BY <1>0
  DEF SchemaWriteFails, HeldLabels, SchemaLabels, FileLabels, RestoreLabels, WorkRests, Advancing,
      Committing, Stages, Filling, MigrationInv, MigrationRests
<1>2. Nothing # "whole" /\ Torn # "whole"
  BY VersionAssumption
<1>3. CASE \E s \in Stages : pc[p] = Filling[s]
  <2>1. PICK s \in Stages : pc[p] = Filling[s] /\ s = StageOf(p)
    BY <1>3 DEF StageOf
  <2>2. pc[p] \in FileLabels /\ UNCHANGED <<restoring, restored>>
    BY <2>1 DEF Stages, Filling, FileLabels, SchemaWriteFails
  <2>3. PICK v \in Versions : v = job[p].at
    BY <2>2, SchemaLabel DEF MigrationInv, LockInv
  <2>4. written[s][v] = Torn /\ written' = [written EXCEPT ![s][v] = Nothing]
    BY <1>1, <1>3, <2>1, <2>3 DEF WorkRests, SchemaWriteFails
  <2> QED
    BY <1>0, <1>1, <1>2, <2>1, <2>2, <2>3, <2>4, MigrationWrites
<1>4. CASE ~\E s \in Stages : pc[p] = Filling[s]
  <2>1. UNCHANGED written
    BY <1>4 DEF SchemaWriteFails
  <2>2. /\ Reached(artifact)' /\ written' \in [Stages -> [Versions -> {Nothing, Torn, "whole"}]]
        /\ \A v \in Versions : written'["commit"][v] = "whole" => Reached(v)'
    BY <1>1, <2>1 DEF MigrationInv, MigrationRests, Reached
  <2>3. CASE pc[p] \in {"replace", "putBack"}
    <3>1. UNCHANGED <<restoring, restored>>
      BY <2>3 DEF SchemaWriteFails
    <3> QED
      BY <1>0, <1>1, <2>1, <3>1, MigrationReadsOn DEF artifacts
  <2>4. CASE pc[p] = "fillRestore"
    <3>1. PICK r \in Restorations : r = job[p].id
      BY <2>4, SchemaLabel DEF MigrationInv, LockInv, RestoreLabels
    <3>2. restoring' = [restoring EXCEPT ![r] = Nothing] /\ UNCHANGED restored
          /\ restored[r] = Nothing
      BY <1>1, <2>4, <3>1 DEF SchemaWriteFails, WorkRests
    <3>3. DOMAIN restoring' = Restorations /\ DOMAIN restored' = Restorations
          /\ \A q \in Restorations : restored'[q] # Nothing => Sealed(restoring'[q])
      BY <3>2 DEF MigrationInv, MigrationRests, Sealed
    <3> QED
      BY <1>0, <1>1, <2>2, <3>3, MigrationWorks
  <2>5. CASE pc[p] = "fillRestored"
    <3>1. PICK r \in Restorations : r = job[p].id
      BY <2>5, SchemaLabel DEF MigrationInv, LockInv, RestoreLabels
    <3>2. restored' = [restored EXCEPT ![r] = Nothing] /\ UNCHANGED restoring
      BY <2>5, <3>1 DEF SchemaWriteFails
    <3>3. DOMAIN restoring' = Restorations /\ DOMAIN restored' = Restorations
          /\ \A q \in Restorations : restored'[q] # Nothing => Sealed(restoring'[q])
      BY <3>2 DEF MigrationInv, MigrationRests, Sealed
    <3> QED
      BY <1>0, <1>1, <2>2, <3>3, MigrationWorks
  <2> QED
    BY <1>4, <2>3, <2>4, <2>5 DEF SchemaWriteFails, Stages, Filling
<1> QED
  BY <1>3, <1>4

LEMMA MigrationStepKeeps ==
  ASSUME MigrationInv, NEW p \in Procs, MigrationsNext(p)
  PROVE  MigrationRests'
<1>0. Others(p) /\ DOMAIN pc = Procs /\ DOMAIN job = Procs
  BY MigrationMoves DEF MigrationInv, LockInv, HomeFits, FilesFit, CommandsFit
<1>a. /\ WorkRests(p) /\ Reached(artifact) /\ CurrentVersion \in Nat /\ CurrentVersion >= 1
      /\ artifact \in 1 .. CurrentVersion
  BY VersionAssumption
  DEF MigrationInv, MigrationRests, LockInv, HomeFits, FilesFit, Versions
<1>b. ASSUME NEW l, Step(p, l)
      PROVE  pc'[p] = l /\ job'[p] = job[p]
  BY <1>0, <1>b DEF Step, Goto
<1>c. ASSUME Leave(p)
      PROVE  pc'[p] = "idle"
  BY <1>0, <1>c DEF Leave, Goto
<1>g. ASSUME NEW at, NEW l, Goes(p, at, l), SchemaFits(pc[p], job[p])
      PROVE  pc'[p] = l /\ job'[p].at = at
  BY <1>0, <1>g DEF Goes, Goto, SchemaFits
<1>q. ASSUME UNCHANGED artifacts, pc'[p] \in {"profileLock", "ok", "idle"}
      PROVE  MigrationRests'
  BY <1>0, <1>q, MigrationQuiet DEF SchemaLabels, FileLabels, RestoreLabels
<1>1. CASE BeginSchema(p) \/ BeginRestore(p)
  <2>1. pc'[p] = "profileLock" /\ UNCHANGED artifacts
    BY <1>0, <1>1 DEF BeginSchema, BeginRestore, Begin, Goto
  <2> QED
    BY <1>q, <2>1
<1>2. CASE SchemaReads(p)
  <2>1. pc[p] = "schema" /\ pc[p] \in HeldLabels /\ UNCHANGED artifacts
    BY <1>2 DEF SchemaReads, HeldLabels, SchemaLabels
  <2>2. SchemaFits(pc[p], job[p])
    BY <2>1, SchemaLabel DEF MigrationInv, LockInv
  <2>3. CASE Goes(p, artifact - 1, "commit")
    <3>1. pc'[p] = "commit" /\ job'[p].at = artifact - 1 /\ UNCHANGED artifact
      BY <1>g, <2>1, <2>2, <2>3 DEF artifacts
    <3>2. artifact' = job'[p].at + 1
      BY <1>a, <3>1
    <3>3. WorkRests(p)'
      BY <3>1, <3>2 DEF WorkRests, Advancing, Committing, Stages, Filling
    <3> QED
      BY <1>0, <2>1, <3>3, MigrationReadsOn
  <2>4. CASE Goes(p, artifact, "backup") /\ ~(artifact > 1 /\ written["prepare"][artifact - 1] = "whole")
    <3>1. artifact = 1
      BY <1>a, <2>4 DEF Reached
    <3>2. pc'[p] = "backup" /\ job'[p].at = artifact /\ UNCHANGED artifact
      BY <1>g, <2>1, <2>2, <2>4 DEF artifacts
    <3>3. 1 .. artifact' - 1 = {}
      BY <3>1, <3>2
    <3>4. WorkRests(p)'
      BY <3>2, <3>3 DEF WorkRests, Advancing, Committing, Stages, Filling
    <3> QED
      BY <1>0, <2>1, <3>4, MigrationReadsOn
  <2>5. CASE Step(p, "ok") \/ Leave(p)
    BY <1>b, <1>c, <1>q, <2>1, <2>5
  <2> QED
    BY <1>2, <2>3, <2>4, <2>5 DEF SchemaReads, UnlockRefused, Refuse
<1>3. CASE CreateFile(p)
  BY <1>3, FileCreated
<1>4. CASE FillFile(p)
  BY <1>4, FileFilled
<1>5. CASE ReplaceArtifact(p)
  <2>1. pc[p] = "replace" /\ pc[p] \in HeldLabels /\ pc[p] \in FileLabels
    BY <1>5 DEF ReplaceArtifact, HeldLabels, SchemaLabels, FileLabels
  <2>2. /\ pc'[p] = "commit" /\ job'[p] = job[p] /\ artifact' = job[p].at + 1
        /\ UNCHANGED <<written, restoring, restored>>
    BY <1>5, <1>b DEF ReplaceArtifact
  <2>3. job[p].at = artifact
    BY <1>a, <2>1 DEF WorkRests, Advancing
  <2>4. \A u \in 1 .. artifact :
          /\ written["backup"][u] = "whole" /\ written["prepare"][u] = "whole"
          /\ u < artifact => written["commit"][u] = "whole"
    <3>1. ASSUME NEW u \in 1 .. artifact
          PROVE  /\ written["backup"][u] = "whole" /\ written["prepare"][u] = "whole"
                 /\ u < artifact => written["commit"][u] = "whole"
      <4>1. CASE u = artifact
        BY <1>a, <2>1, <2>3, <4>1 DEF WorkRests
      <4>2. CASE u # artifact
        <5>1. u \in 1 .. artifact - 1
          BY <1>a, <4>2
        <5> QED
          BY <1>a, <2>1, <5>1 DEF Reached, WorkRests, Advancing
      <4> QED
        BY <4>1, <4>2
    <3> QED
      BY <3>1
  <2>5. artifact' - 1 = artifact
    BY <1>a, <2>2, <2>3
  <2>6. Reached(artifact)'
    BY <2>2, <2>4, <2>5 DEF Reached
  <2>7. WorkRests(p)'
    BY <2>2 DEF WorkRests, Advancing, Committing, Stages, Filling
  <2>8. \A v \in Versions : written'["commit"][v] = "whole" => Reached(v)'
    BY <2>2 DEF MigrationInv, MigrationRests, Reached
  <2>9. \A r \in Restorations : restored'[r] # Nothing => Sealed(restoring'[r])
    BY <2>2 DEF MigrationInv, MigrationRests, Sealed
  <2> QED
    BY <1>0, <2>1, <2>2, <2>6, <2>7, <2>8, <2>9, MigrationWorks DEF MigrationInv, MigrationRests
<1>6. CASE Advance(p)
  <2>1. pc[p] = "advance" /\ pc[p] \in HeldLabels /\ UNCHANGED artifacts
    BY <1>6 DEF Advance, HeldLabels, SchemaLabels
  <2>2. SchemaFits(pc[p], job[p]) /\ job[p].at \in Nat
    BY <2>1, SchemaLabel DEF MigrationInv, LockInv
  <2>3. CASE Goes(p, job[p].at + 1, "backup")
    <3>1. pc'[p] = "backup" /\ job'[p].at = job[p].at + 1 /\ UNCHANGED <<artifact, written>>
      BY <1>g, <2>1, <2>2, <2>3 DEF artifacts
    <3>2. artifact = job[p].at + 1 /\ written["commit"][job[p].at] = "whole"
      BY <1>a, <2>1 DEF WorkRests, Committing
    <3>3. \A u \in 1 .. artifact - 1 : written["commit"][u] = "whole"
      BY <1>a, <2>2, <3>2 DEF Reached
    <3>4. WorkRests(p)'
      BY <3>1, <3>2, <3>3 DEF WorkRests, Advancing, Committing, Stages, Filling
    <3> QED
      BY <1>0, <2>1, <3>4, MigrationReadsOn
  <2>4. CASE Step(p, "ok")
    BY <1>b, <1>q, <2>1, <2>4
  <2> QED
    BY <1>6, <2>3, <2>4 DEF Advance
<1>r. ASSUME pc[p] \in RestoreLabels
      PROVE  pc[p] \in HeldLabels /\ job[p].id \in Restorations /\ job[p].to \in Versions
  BY <1>r, SchemaLabel DEF MigrationInv, LockInv, HeldLabels
<1>w. ASSUME UNCHANGED <<artifact, written>>
      PROVE  /\ Reached(artifact)' /\ written' \in [Stages -> [Versions -> {Nothing, Torn, "whole"}]]
             /\ \A v \in Versions : written'["commit"][v] = "whole" => Reached(v)'
  BY <1>w DEF MigrationInv, MigrationRests, Reached
<1>7. CASE RestoreReads(p)
  <2>1. pc[p] = "restore" /\ UNCHANGED artifacts
    BY <1>7 DEF RestoreReads
  <2>2. PICK r \in Restorations, to \in Versions : r = job[p].id /\ to = job[p].to
    BY <1>r, <2>1 DEF RestoreLabels
  <2>3. restored[r] # Nothing => Sealed(restoring[r])
    BY DEF MigrationInv, MigrationRests
  <2>4. CASE Step(p, "prepareRestore") /\ written["commit"][to] = "whole" /\ restoring[r] = Nothing
    <3>1. pc'[p] = "prepareRestore" /\ job'[p] = job[p] /\ UNCHANGED <<artifact, written, restored>>
      BY <1>b, <2>1, <2>4 DEF artifacts
    <3>2. restored[r] = Nothing
      BY <2>3, <2>4 DEF Sealed
    <3>3. WorkRests(p)'
      BY <2>2, <2>4, <3>1, <3>2 DEF WorkRests, Advancing, Committing, Stages, Filling
    <3> QED
      BY <1>0, <1>r, <2>1, <3>3, MigrationReadsOn DEF RestoreLabels
  <2>5. CASE /\ Step(p, "putBack") /\ written["commit"][to] = "whole" /\ restoring[r] # Nothing
             /\ restoring[r] # Torn /\ restoring[r].to = to /\ restored[r] = Nothing
    <3>1. /\ pc'[p] = "putBack" /\ job'[p] = job[p]
          /\ UNCHANGED <<artifact, written, restoring, restored>>
      BY <1>b, <2>1, <2>5 DEF artifacts
    <3>2. WorkRests(p)'
      BY <2>2, <2>5, <3>1 DEF WorkRests, Sealed, Advancing, Committing, Stages, Filling
    <3> QED
      BY <1>0, <1>r, <2>1, <3>2, MigrationReadsOn DEF RestoreLabels
  <2>6. CASE Step(p, "ok") \/ Leave(p)
    BY <1>b, <1>c, <1>q, <2>1, <2>6
  <2>7. Restorable(to) => written["commit"][to] = "whole"
    BY DEF Restorable, Stages
  <2> QED
    BY <1>7, <2>2, <2>4, <2>5, <2>6, <2>7 DEF RestoreReads, UnlockRefused, Refuse
<1>8. CASE PrepareRestore(p)
  <2>1. pc[p] = "prepareRestore" /\ pc'[p] = "fillRestore" /\ job'[p] = job[p]
        /\ UNCHANGED <<artifact, written, restored>>
    BY <1>8, <1>b DEF PrepareRestore
  <2>2. PICK r \in Restorations : r = job[p].id
    BY <1>r, <2>1 DEF RestoreLabels
  <2>3. restored[r] = Nothing /\ written["commit"][job[p].to] = "whole"
    BY <1>a, <2>1, <2>2 DEF WorkRests
  <2>4. restoring' = [restoring EXCEPT ![r] = Torn]
    BY <1>8, <2>2 DEF PrepareRestore
  <2>5. DOMAIN restoring' = Restorations /\ DOMAIN restored' = Restorations
        /\ restoring'[r] = Torn
        /\ \A q \in Restorations : restored'[q] # Nothing => Sealed(restoring'[q])
    BY <2>1, <2>3, <2>4 DEF MigrationInv, MigrationRests, Sealed
  <2>6. WorkRests(p)'
    BY <2>1, <2>2, <2>3, <2>5 DEF WorkRests, Advancing, Committing, Stages, Filling
  <2> QED
    BY <1>0, <1>r, <1>w, <2>1, <2>5, <2>6, MigrationWorks DEF RestoreLabels
<1>9. CASE FillRestore(p)
  <2>1. pc[p] = "fillRestore" /\ pc'[p] = "putBack" /\ job'[p] = job[p]
        /\ UNCHANGED <<artifact, written, restored>>
    BY <1>9, <1>b DEF FillRestore
  <2>2. PICK r \in Restorations, to \in Versions : r = job[p].id /\ to = job[p].to
    BY <1>r, <2>1 DEF RestoreLabels
  <2>3. restored[r] = Nothing /\ written["commit"][to] = "whole"
    BY <1>a, <2>1, <2>2 DEF WorkRests
  <2>4. restoring' = [restoring EXCEPT ![r] = [to |-> to, previous |-> artifact]]
    BY <1>9, <2>2 DEF FillRestore
  <2>5. Sealed([to |-> to, previous |-> artifact])
    <3>1. [to |-> to, previous |-> artifact] \in [to : Versions, previous : Versions]
      BY <1>a DEF Versions
    <3> QED
      BY <3>1, VersionAssumption DEF Sealed
  <2>6. DOMAIN restoring' = Restorations /\ DOMAIN restored' = Restorations
        /\ restoring'[r] = [to |-> to, previous |-> artifact]
        /\ \A q \in Restorations : restored'[q] # Nothing => Sealed(restoring'[q])
    BY <2>1, <2>4, <2>5 DEF MigrationInv, MigrationRests, Sealed
  <2>7. Sealed(restoring'[r]) /\ restoring'[r].to = to
    BY <2>5, <2>6 DEF Sealed
  <2>8. WorkRests(p)'
    BY <2>1, <2>2, <2>3, <2>7 DEF WorkRests, Sealed, Advancing, Committing, Stages, Filling
  <2> QED
    BY <1>0, <1>r, <1>w, <2>1, <2>6, <2>8, MigrationWorks DEF RestoreLabels
<1>10. CASE PutBack(p)
  <2>1. pc[p] = "putBack" /\ pc'[p] = "recordRestore" /\ job'[p] = job[p]
        /\ artifact' = job[p].to /\ UNCHANGED <<written, restoring, restored>>
    BY <1>10, <1>b DEF PutBack
  <2>2. PICK to \in Versions : to = job[p].to
    BY <1>r, <2>1 DEF RestoreLabels
  <2>3. Reached(to)
    BY <1>a, <2>1, <2>2 DEF WorkRests, MigrationInv, MigrationRests
  <2>4. Reached(artifact)' /\ \A v \in Versions : written'["commit"][v] = "whole" => Reached(v)'
    BY <2>1, <2>2, <2>3 DEF Reached, MigrationInv, MigrationRests
  <2>5. WorkRests(p)'
    BY <1>a, <2>1 DEF WorkRests, Sealed, Advancing, Committing, Stages, Filling
  <2>6. \A q \in Restorations : restored'[q] # Nothing => Sealed(restoring'[q])
    BY <2>1 DEF MigrationInv, MigrationRests, Sealed
  <2> QED
    BY <1>0, <1>r, <2>1, <2>4, <2>5, <2>6, MigrationWorks DEF RestoreLabels, MigrationInv, MigrationRests
<1>11. CASE RecordRestore(p) \/ FillRestored(p)
  <2>1. /\ pc[p] \in {"recordRestore", "fillRestored"} /\ UNCHANGED <<artifact, written, restoring>>
        /\ job'[p] = job[p]
        /\ \/ pc'[p] = "fillRestored" /\ restored' = [restored EXCEPT ![job[p].id] = Torn]
           \/ pc'[p] = "ok" /\ restored' = [restored EXCEPT ![job[p].id] = "whole"]
    BY <1>11, <1>b DEF RecordRestore, FillRestored
  <2>2. PICK r \in Restorations : r = job[p].id
    BY <1>r, <2>1 DEF RestoreLabels
  <2>3. Sealed(restoring[r]) /\ restoring[r].to = job[p].to
    BY <1>a, <2>1, <2>2 DEF WorkRests
  <2>4. DOMAIN restoring' = Restorations /\ DOMAIN restored' = Restorations
        /\ \A q \in Restorations : restored'[q] # Nothing => Sealed(restoring'[q])
    BY <2>1, <2>2, <2>3 DEF MigrationInv, MigrationRests, Sealed
  <2>5. pc'[p] = "fillRestored" => restored'[r] = Torn
    BY <2>1, <2>2 DEF MigrationInv, MigrationRests
  <2>6. WorkRests(p)'
    BY <2>1, <2>2, <2>3, <2>5 DEF WorkRests, Sealed, Advancing, Committing, Stages, Filling
  <2> QED
    BY <1>0, <1>r, <1>w, <2>1, <2>4, <2>6, MigrationWorks DEF RestoreLabels
<1>12. CASE SchemaWriteFails(p)
  BY <1>12, FileFails
<1> QED
  BY <1>1, <1>2, <1>3, <1>4, <1>5, <1>6, <1>7, <1>8, <1>9, <1>10, <1>11, <1>12 DEF MigrationsNext

LEMMA MigrationInvStep ==
  ASSUME MigrationInv, [Next]_vars
  PROVE  MigrationInv'
<1>0. LockInv'
  BY LockInvStep DEF MigrationInv
<1>1. ASSUME NEW p \in Procs,
             \/ TrustStep(p) \/ EloStep(p) \/ OnboardingStep(p) \/ SelectionStep(p)
             \/ UpgradeStep(p)
      PROVE  MigrationRests'
  <2>1. \A id \in Personal : Len(snapshots[id]) \in Nat
    BY DEF MigrationInv, LockInv, HomeFits, FilesFit, ProfileIds
  <2>2. UNCHANGED artifacts
    BY <1>1 DEF TrustStep, EloStep, OnboardingStep, SelectionStep, UpgradeStep
  <2>3. CommandsFit
    BY DEF MigrationInv, LockInv, HomeFits
  <2> USE DEF SchemaLabels, FileLabels, RestoreLabels
  <2>4. CASE TrustStep(p) \/ EloStep(p) \/ OnboardingStep(p)
    BY <2>2, <2>3, <2>4, TrustMoves, EloMoves, OnboardingMoves, MigrationQuiet
    DEF TrustStep, EloStep, OnboardingStep, TrustLabels, EnrollLabels, PersonalLabels,
        EvaluateLabels, MigrateLabels, OnboardLabels
  <2>5. CASE SelectionStep(p) \/ UpgradeStep(p)
    BY <2>1, <2>2, <2>3, <2>5, SelectionMoves, UpgradeMoves, MigrationQuiet
    DEF SelectionStep, UpgradeStep, SelectLabels, UpgradeLabels
  <2> QED
    BY <1>1, <2>4, <2>5
<1>2. ASSUME NEW p \in Procs, MigrationStep(p)
      PROVE  MigrationRests'
  BY <1>2, MigrationStepKeeps DEF MigrationStep
<1>3. CASE RuleStep \/ UNCHANGED vars
  <2>1. UNCHANGED <<pc, job, artifact, written, restoring, restored>>
    BY <1>3, RuleMoves DEF vars, control, artifacts
  <2>2. \A p \in Procs : WorkRests(p)'
    BY <2>1 DEF MigrationInv, MigrationRests, WorkRests, Sealed
  <2> QED
    BY <1>0, <2>1, <2>2 DEF MigrationInv, MigrationRests, Reached, Sealed
<1> QED
  BY <1>0, <1>1, <1>2, <1>3 DEF Next, MigrationInv

LEMMA MigrationsHold ==
  ASSUME MigrationInv
  PROVE  MigrationsRest
  BY DEF MigrationInv, MigrationRests, MigrationsRest, Reached

-----------------------------------------------------------------------------
(* Selections rest on what they name.                                      *)

\* Personal trust that is verified once is verified ever after.  (External trust is
\* not: while a capability is being added to it, it does not verify.)
LEMMA TrustStaysVerified ==
  ASSUME TrustInv, [Next]_vars
  PROVE  /\ anchor # Nothing => anchor' = anchor
         /\ TrustVerifies /\ CapabilityVerifies => TrustVerifies' /\ CapabilityVerifies'
<1>1. anchor \in Anchors \cup {Nothing} /\ TrustHeld
  BY TrustInvStep DEF TrustInv, TrustRests
<1>2. anchor # Nothing => anchor' = anchor
  BY <1>1, AnchorAssumption DEF TrustHeld, Stays, Sealed
<1>3. ASSUME TrustVerifies, capability = Capability(anchor)
      PROVE  TrustVerifies' /\ CapabilityVerifies'
  <2>1. anchor \in Anchors /\ anchor' = anchor
    BY <1>1, <1>2, <1>3 DEF TrustVerifies
  <2>2. Capability(anchor) \in Capabilities
    BY <2>1 DEF Capabilities
  <2>3. capability' = capability
    BY <1>1, <1>3, <2>2, AnchorAssumption DEF TrustHeld, Stays, Sealed
  <2> QED
    BY <1>3, <2>1, <2>3 DEF TrustVerifies, TrustState, CapabilityVerifies
<1> QED
  BY <1>2, <1>3 DEF CapabilityVerifies

\* A personal profile is not replaced by another revision, and its snapshots stay.
LEMMA PersonalStays ==
  ASSUME HomeFits, [Next]_vars, NEW id \in Personal
  PROVE  /\ profile[id] = id => profile'[id] = id
         /\ \A n \in DOMAIN snapshots[id] :
              n \in DOMAIN snapshots'[id] /\ snapshots'[id][n] = snapshots[id][n]
<1>0. /\ DOMAIN profile = ProfileIds /\ DOMAIN snapshots = ProfileIds /\ id \in ProfileIds
      /\ id # Company /\ \A i \in ProfileIds : snapshots[i] \in Seq(SnapshotsOf(i))
  BY BundlesAssumption DEF HomeFits, FilesFit, ProfileIds
<1>1. ASSUME UNCHANGED <<profile, snapshots>>
      PROVE  /\ profile[id] = id => profile'[id] = id
             /\ \A n \in DOMAIN snapshots[id] :
                  n \in DOMAIN snapshots'[id] /\ snapshots'[id][n] = snapshots[id][n]
  BY <1>1
<1>2. ASSUME NEW p \in Procs, OnboardingNext(p)
      PROVE  /\ profile[id] = id => profile'[id] = id
             /\ \A n \in DOMAIN snapshots[id] :
                  n \in DOMAIN snapshots'[id] /\ snapshots'[id][n] = snapshots[id][n]
  <2>1. CASE InstallProfile(p)
    <3>1. RevisionOf(p) \in RevisionsOf(IdOf(p)) /\ IdOf(p) \in ProfileIds
      BY <2>1, SubjectFits DEF HomeFits, InstallProfile
    <3>2. UNCHANGED snapshots
          /\ (UNCHANGED profile \/ profile' = [profile EXCEPT ![IdOf(p)] = RevisionOf(p)])
      BY <2>1 DEF InstallProfile
    <3>3. IdOf(p) = id => RevisionOf(p) = id
      BY <1>0, <3>1 DEF RevisionsOf
    <3> QED
      BY <1>0, <3>1, <3>2, <3>3
  <2>2. CASE Ingest(p) \/ IngestDies(p)
    <3>0. IdOf(p) \in ProfileIds /\ Snapshot(p) \in SnapshotsOf(IdOf(p))
      BY <2>2, SubjectFits DEF HomeFits, Ingest, IngestDies
    <3>a. PICK i \in ProfileIds : i = IdOf(p)
      BY <3>0
    <3>1. PICK x \in SnapshotsOf(i) : x = Snapshot(p)
      BY <3>0, <3>a
    <3>2. /\ UNCHANGED profile
          /\ \/ UNCHANGED snapshots
             \/ snapshots' = [snapshots EXCEPT ![i] = Append(snapshots[i], x)]
      BY <1>0, <2>2, <3>1, <3>a DEF Ingest, IngestDies
    <3>3. \A n \in DOMAIN snapshots[i] :
            n \in DOMAIN Append(snapshots[i], x) /\ Append(snapshots[i], x)[n] = snapshots[i][n]
      BY <1>0, <3>1, AppendProperties
    <3> QED
      BY <1>0, <3>2, <3>3
  <2>3. CASE RenameHome(p)
    BY <1>0, <2>3 DEF RenameHome
  <2> QED
    BY <1>1, <1>2, <2>1, <2>2, <2>3
    DEF OnboardingNext, LockProfile, LockTimesOut, BeginProfile, BeginOnboard, OnboardReads,
        RemoveEmptyHome, RenameHomeRefused, RenameHomeFails, VerifyHome, catalogs
<1>3. ASSUME NEW p \in Procs, SelectionNext(p) \/ UpgradeNext(p) \/ MigrationsNext(p)
      PROVE  UNCHANGED <<profile, snapshots>>
  <2>1. CASE SelectionNext(p)
    BY <2>1 DEF SelectionNext, BeginSelect, ExistingRetry, CreateBinding, FillBinding, Approve,
                CreateRecord, FillRecord, SelectionWriteFails, catalogs
  <2>2. CASE UpgradeNext(p)
    BY <2>2 DEF UpgradeNext, BeginUpgrade, UpgradeReads, Reads, LoadProfile, LoadRules, LoadRecord,
                VerifyRecord, MakeAuthDir, CreateAuth, FillAuth, WriteAuthPointer, VerifyUpgrade,
                UpgradeWriteFails, catalogs
  <2>3. CASE MigrationsNext(p)
    BY <2>3 DEF MigrationsNext, BeginSchema, SchemaReads, CreateFile, FillFile, ReplaceArtifact,
                Advance, BeginRestore, RestoreReads, PrepareRestore, FillRestore, PutBack,
                RecordRestore, FillRestored, SchemaWriteFails, catalogs
  <2> QED
    BY <1>3, <2>1, <2>2, <2>3
<1> QED
  BY <1>1, <1>2, <1>3, RuleMoves
  DEF Next, TrustStep, EloStep, OnboardingStep, SelectionStep, UpgradeStep, MigrationStep, vars,
      catalogs

\* What a catalog with number seq must be for a discovery.
Retains(d, seq) ==
  LET id == Scope(d) IN
  seq \in DOMAIN snapshots[id] /\ snapshots[id][seq].catalog = PersonalCatalog(d)

\* A record rests on a seal that verifies and on a catalog that was retained.
Grounded(s) ==
  /\ Scope(s.discovery) \in Personal
  /\ ReadbackCovers(s.discovery) /\ Attributable(s.discovery)
  /\ BindingVerifies(Scope(s.discovery)) /\ Retains(s.discovery, s.seq)

SelectionRests(p) ==
  /\ pc[p] = "ingest" /\ job[p].kind = "select" => BindingVerifies(job[p].id)
  /\ pc[p] \in {"record", "fillRecord"} => Grounded(Record(p))

SelectionInv ==
  /\ TrustInv
  /\ \A p \in Procs : SelectionRests(p)
  /\ \A r \in Runs : Sealed(selection[r]) => Grounded(selection[r])

LEMMA GroundStays ==
  ASSUME TrustInv, [Next]_vars
  PROVE  /\ \A id \in Personal : BindingVerifies(id) => BindingVerifies(id)'
         /\ \A d, n : Scope(d) \in Personal /\ Retains(d, n) => Retains(d, n)'
<1>1. ASSUME NEW id \in Personal, BindingVerifies(id)
      PROVE  BindingVerifies(id)'
  <2>1. TrustVerifies' /\ CapabilityVerifies'
    BY <1>1, TrustStaysVerified DEF BindingVerifies
  <2>2. binding'[id] = id
    BY <1>1, TrustInvStep, BundlesAssumption DEF BindingVerifies, TrustHeld, Stays, Sealed
  <2>3. profile'[id] = id
    BY <1>1, PersonalStays DEF BindingVerifies, TrustInv
  <2> QED
    BY <2>1, <2>2, <2>3 DEF BindingVerifies
<1>2. ASSUME NEW d, NEW n, Scope(d) \in Personal, Retains(d, n)
      PROVE  Retains(d, n)'
  BY <1>2, PersonalStays DEF Retains, TrustInv
<1> QED
  BY <1>1, <1>2

LEMMA GroundedStays ==
  ASSUME TrustInv, [Next]_vars, NEW s, Grounded(s)
  PROVE  Grounded(s)'
  BY GroundStays DEF Grounded

LEMMA IngestLabel ==
  ASSUME HomeFits, NEW p \in Procs, pc[p] = "ingest"
  PROVE  /\ job[p].kind \in {"onboard", "select"}
         /\ job[p].kind = "select" => SelectFits(pc[p], job[p]) /\ IdOf(p) = job[p].id
  BY DEF HomeFits, CommandsFit, Fits, InstallFits, EnrollFits, OnboardFits, ProfileFits,
         SelectFits, EvaluateFits, MigrateFits, UpgradeFits, SchemaFits, RestoreFits, TrustLabels,
         EnrollLabels, OnboardLabels, PersonalLabels, SelectLabels, EvaluateLabels, MigrateLabels,
         UpgradeLabels, FileLabels, SchemaLabels, RestoreLabels, IdOf

\* A command that stands still rests on what it rested on.
LEMMA SelectionStands ==
  ASSUME SelectionInv, [Next]_vars, NEW q \in Procs, pc'[q] = pc[q], job'[q] = job[q]
  PROVE  SelectionRests(q)'
<1>1. ASSUME pc[q] = "ingest", job[q].kind = "select"
      PROVE  BindingVerifies(job[q].id)'
  <2>1. PICK id \in Personal : id = job[q].id
    BY <1>1, IngestLabel DEF SelectionInv, TrustInv, SelectFits
  <2>2. BindingVerifies(id)
    BY <1>1, <2>1 DEF SelectionInv, SelectionRests
  <2>3. BindingVerifies(id)'
    BY <2>2, GroundStays DEF SelectionInv
  <2>4. job'[q].id = id
    BY <2>1
  <2> QED
    BY <2>3, <2>4
<1>2. ASSUME pc[q] \in {"record", "fillRecord"}
      PROVE  Grounded(Record(q))'
  <2>1. PICK s : s = Record(q)
    OBVIOUS
  <2>2. Grounded(s)'
    BY <1>2, <2>1, GroundedStays DEF SelectionInv, SelectionRests
  <2>3. Record(q)' = s
    BY <2>1 DEF Record
  <2> QED
    BY <2>2, <2>3
<1> QED
  BY <1>1, <1>2 DEF SelectionRests

LEMMA SelectionMovesOn ==
  ASSUME SelectionInv, [Next]_vars, NEW p \in Procs, Others(p), SelectionRests(p)',
         \A r \in Runs : Sealed(selection'[r]) =>
           selection'[r] = selection[r] \/ Grounded(selection[r])'
  PROVE  SelectionInv'
<1>1. TrustInv'
  BY TrustInvStep DEF SelectionInv
<1>2. \A q \in Procs : SelectionRests(q)'
  BY SelectionStands DEF Others
<1>3. ASSUME NEW r \in Runs, Sealed(selection'[r])
      PROVE  Grounded(selection[r])'
  <2>1. CASE selection'[r] = selection[r]
    <3>1. PICK s : s = selection[r]
      OBVIOUS
    <3>2. Grounded(s)'
      BY <1>3, <2>1, <3>1, GroundedStays DEF SelectionInv, Sealed
    <3> QED
      BY <2>1, <3>1, <3>2
  <2>2. CASE selection'[r] # selection[r]
    BY <1>3, <2>2
  <2> QED
    BY <2>1, <2>2
<1> QED
  BY <1>1, <1>2, <1>3 DEF SelectionInv, Sealed

LEMMA SelectionQuiet ==
  ASSUME SelectionInv, [Next]_vars, NEW p \in Procs, Others(p), UNCHANGED selection,
         pc'[p] \notin {"ingest", "record", "fillRecord"}
  PROVE  SelectionInv'
<1>1. SelectionRests(p)'
  BY DEF SelectionRests
<1> QED
  BY <1>1, SelectionMovesOn

\* Every catalog that is put in for a selection, or found there, is the one it selects.
LEMMA IngestRests ==
  ASSUME SelectionInv, [Next]_vars, NEW p \in Procs, Ingest(p), UNCHANGED selection
  PROVE  SelectionInv'
<1>0. Others(p) /\ DOMAIN pc = Procs /\ DOMAIN snapshots = ProfileIds /\ HomeFits
  BY OnboardingMoves DEF SelectionInv, TrustInv, HomeFits, FilesFit, CommandsFit, OnboardingNext
<1>1. pc[p] = "ingest"
  BY DEF Ingest
<1>2. CASE Step(p, AfterIngest(p)) /\ job[p].kind = "select"
  <2>1. SelectFits(pc[p], job[p]) /\ IdOf(p) = job[p].id
    BY <1>0, <1>1, <1>2, IngestLabel
  <2>2. PICK d, id, n : d = job[p].discovery /\ id = job[p].id /\ n = job[p].seq
    OBVIOUS
  <2>3. /\ id = Scope(d) /\ id \in Personal /\ job[p].catalog = PersonalCatalog(d)
        /\ ReadbackCovers(d) /\ Attributable(d)
    BY <1>1, <2>1, <2>2 DEF SelectFits, Acceptable
  <2>4. id \in ProfileIds /\ snapshots[id] \in Seq(SnapshotsOf(id)) /\ n \in Nat
    BY <1>0, <2>1, <2>2, <2>3 DEF HomeFits, FilesFit, ProfileIds, SelectFits
  <2>5. BindingVerifies(id)'
    <3>1. BindingVerifies(id)
      BY <1>1, <1>2, <2>2 DEF SelectionInv, SelectionRests
    <3> QED
      BY <2>3, <3>1, GroundStays DEF SelectionInv
  <2>6. n \in DOMAIN snapshots'[id] /\ snapshots'[id][n].catalog = PersonalCatalog(d)
    <3>1. CASE IsNext(p) /\ snapshots' = [snapshots EXCEPT ![IdOf(p)] = Append(@, Snapshot(p))]
      <4>1. n = Len(snapshots[id]) + 1
        BY <2>1, <2>2, <3>1 DEF IsNext
      <4>2. PICK x \in SnapshotsOf(id) : x = Snapshot(p)
        BY <1>0, <1>1, <2>1, <2>2, SubjectFits DEF HomeFits
      <4>3. snapshots'[id] = Append(snapshots[id], x)
        BY <1>0, <2>1, <2>2, <2>4, <3>1, <4>2
      <4>4. n \in DOMAIN snapshots'[id] /\ snapshots'[id][n] = x
        BY <2>4, <4>1, <4>3, AppendProperties
      <4>5. x.catalog = PersonalCatalog(d)
        BY <2>3, <4>2 DEF Snapshot
      <4> QED
        BY <4>4, <4>5
    <3>2. CASE IsCurrent(p) /\ UNCHANGED snapshots
      <4>1. /\ snapshots[id] # <<>> /\ n = Len(snapshots[id])
            /\ Last(snapshots[id]).catalog = PersonalCatalog(d)
        BY <2>1, <2>2, <2>3, <3>2 DEF IsCurrent
      <4>2. n \in DOMAIN snapshots[id] /\ Last(snapshots[id]) = snapshots[id][n]
        BY <2>4, <4>1 DEF Last
      <4> QED
        BY <3>2, <4>1, <4>2
    <3>3. ~Leave(p)
      BY <1>0, <1>2 DEF Step, Leave, Goto, AfterIngest
    <3> QED
      BY <3>1, <3>2, <3>3 DEF Ingest, Refuse
  <2>7. job' = job /\ pc'[p] = "record"
    BY <1>0, <1>2 DEF Step, Goto, AfterIngest
  <2>8. PICK s : s = Record(p)
    OBVIOUS
  <2>9. s.discovery = d /\ s.seq = n
    BY <2>2, <2>8 DEF Record
  <2>10. Grounded(s)'
    BY <2>3, <2>5, <2>6, <2>9 DEF Grounded, Retains
  <2>11. Record(p)' = s
    BY <2>7, <2>8 DEF Record
  <2>12. SelectionRests(p)'
    BY <2>7, <2>10, <2>11 DEF SelectionRests
  <2> QED
    BY <1>0, <2>12, SelectionMovesOn
<1>3. CASE pc'[p] \in {"ok", "idle"}
  BY <1>0, <1>3, SelectionQuiet
<1>4. Step(p, AfterIngest(p)) \/ Leave(p)
  BY DEF Ingest, Refuse
<1>5. Leave(p) => pc'[p] = "idle"
  BY <1>0 DEF Leave, Goto
<1>6. Step(p, AfterIngest(p)) /\ job[p].kind # "select" => pc'[p] = "ok"
  BY <1>0, <1>1, IngestLabel DEF Step, Goto, AfterIngest
<1> QED
  BY <1>2, <1>3, <1>4, <1>5, <1>6

LEMMA SelectionStepRests ==
  ASSUME SelectionInv, [Next]_vars, NEW p \in Procs, SelectionNext(p)
  PROVE  SelectionInv'
<1>0. Others(p) /\ DOMAIN pc = Procs /\ DOMAIN job = Procs /\ HomeFits
  <2>1. \A id \in Personal : Len(snapshots[id]) \in Nat
    BY DEF SelectionInv, TrustInv, HomeFits, FilesFit, ProfileIds
  <2> QED
    BY <2>1, SelectionMoves DEF SelectionInv, TrustInv, HomeFits, CommandsFit
<1>b. ASSUME NEW l, Step(p, l)
      PROVE  pc'[p] = l /\ job'[p] = job[p]
  BY <1>0, <1>b DEF Step, Goto
<1>c. ASSUME Leave(p)
      PROVE  pc'[p] = "idle"
  BY <1>0, <1>c DEF Leave, Goto
<1>d. DOMAIN selection = Runs
  BY DEF SelectionInv, TrustInv, SealRests
<1>1. CASE BeginSelect(p) \/ ExistingRetry(p) \/ CreateBinding(p) \/ FillBinding(p)
  <2>1. UNCHANGED selection /\ pc'[p] \in {"existing", "personal", "ok", "fillBinding", "approve", "idle"}
    BY <1>0, <1>1, <1>b, <1>c
    DEF BeginSelect, Begin, Goto, ExistingRetry, CreateBinding, FillBinding, Refuse, selections
  <2> QED
    BY <1>0, <2>1, SelectionQuiet
<1>2. CASE Approve(p)
  <2>1. UNCHANGED selection /\ pc[p] = "approve"
    BY <1>2 DEF Approve, selections
  <2>2. PICK id \in Personal : id = job[p].id
    BY <1>0, <2>1, SelectLabel DEF SelectLabels
  <2>3. CASE BindingVerifies(id) /\ Goto(p, "ingest")
             /\ job' = [job EXCEPT ![p].seq = Len(snapshots[id])
                          + IF snapshots[id] # <<>> /\ Last(snapshots[id]).catalog = job[p].catalog
                              THEN 0 ELSE 1]
    <3>1. BindingVerifies(id)'
      BY <2>3, GroundStays DEF SelectionInv
    <3>2. pc'[p] = "ingest"
      BY <1>0, <2>3 DEF Goto
    <3>3. SelectFits(pc[p], job[p])
      BY <1>0, <2>1, SelectLabel DEF SelectLabels
    <3>4. job'[p].id = id
      BY <1>0, <2>2, <2>3, <3>3 DEF SelectFits
    <3>5. SelectionRests(p)'
      BY <3>1, <3>2, <3>4 DEF SelectionRests
    <3> QED
      BY <1>0, <2>1, <3>5, SelectionMovesOn
  <2>4. CASE Leave(p)
    BY <1>0, <1>c, <2>1, <2>4, SelectionQuiet
  <2> QED
    BY <1>2, <2>2, <2>3, <2>4 DEF Approve, Refuse
<1>3. ASSUME pc[p] \in {"record", "fillRecord"}
      PROVE  job[p].run \in Runs /\ Grounded(Record(p))
  BY <1>0, <1>3, SelectLabel DEF SelectLabels, SelectionInv, SelectionRests
<1>4. CASE CreateRecord(p)
  <2>1. pc[p] = "record"
    BY <1>4 DEF CreateRecord
  <2>2. PICK s : s = Record(p)
    OBVIOUS
  <2>3. Grounded(s)'
    BY <1>3, <2>1, <2>2, GroundedStays DEF SelectionInv
  <2>4. CASE Step(p, "fillRecord") /\ selection' = [selection EXCEPT ![job[p].run] = Torn]
    <3>1. pc'[p] = "fillRecord" /\ job'[p] = job[p]
      BY <1>b, <2>4
    <3>2. Record(p)' = s
      BY <2>2, <3>1 DEF Record
    <3>3. SelectionRests(p)'
      BY <2>3, <3>1, <3>2 DEF SelectionRests
    <3>4. \A r \in Runs : Sealed(selection'[r]) => selection'[r] = selection[r]
      BY <1>3, <1>d, <2>1, <2>4 DEF Sealed
    <3> QED
      BY <1>0, <3>3, <3>4, SelectionMovesOn
  <2>5. CASE UNCHANGED selection /\ pc'[p] \in {"ok", "idle"}
    BY <1>0, <2>5, SelectionQuiet
  <2> QED
    BY <1>4, <1>b, <1>c, <2>4, <2>5 DEF CreateRecord, Refuse
<1>5. CASE FillRecord(p)
  <2>1. /\ pc[p] = "fillRecord" /\ pc'[p] = "ok"
        /\ selection' = [selection EXCEPT ![job[p].run] = Record(p)]
    BY <1>5, <1>b DEF FillRecord
  <2>2. PICK s : s = Record(p)
    OBVIOUS
  <2>3. Grounded(s)'
    BY <1>3, <2>1, <2>2, GroundedStays DEF SelectionInv
  <2>4. ASSUME NEW r \in Runs
        PROVE  selection'[r] = selection[r] \/ Grounded(selection[r])'
    <3>1. CASE r = job[p].run
      <4>1. selection'[r] = s
        BY <1>d, <2>1, <2>2, <3>1
      <4> QED
        BY <2>3, <4>1
    <3>2. CASE r # job[p].run
      BY <1>d, <2>1, <3>2
    <3> QED
      BY <3>1, <3>2
  <2>5. SelectionRests(p)'
    BY <2>1 DEF SelectionRests
  <2> QED
    BY <1>0, <2>4, <2>5, SelectionMovesOn
<1>6. CASE SelectionWriteFails(p)
  <2>1. pc'[p] = "idle"
    BY <1>6, <1>c DEF SelectionWriteFails
  <2>2. \A r \in Runs : Sealed(selection'[r]) => selection'[r] = selection[r]
    BY <1>6, <1>d DEF SelectionWriteFails, Sealed
  <2>3. SelectionRests(p)'
    BY <2>1 DEF SelectionRests
  <2> QED
    BY <1>0, <2>2, <2>3, SelectionMovesOn
<1> QED
  BY <1>1, <1>2, <1>4, <1>5, <1>6 DEF SelectionNext

\* The kind of a command, by where it is.
LEMMA KindOfLabel ==
  ASSUME HomeFits, NEW p \in Procs
  PROVE  /\ pc[p] \in {"install", "promoteTrust", "verifyTrust"} =>
              job[p].kind \in {"install", "onboard", "select"}
         /\ pc[p] \in PersonalLabels => job[p].kind = "select"
         /\ pc[p] \in EnrollLabels => job[p].kind = "enroll" /\ job[p].key \in Keys
         /\ pc[p] \in OnboardLabels => OnboardFits(pc[p], job[p])
         /\ pc[p] \in EvaluateLabels => EvaluateFits(pc[p], job[p])
         /\ pc[p] \in MigrateLabels => job[p].kind = "migrate"
         /\ pc[p] \in UpgradeLabels => job[p].kind = "upgrade"
         /\ pc[p] \in SchemaLabels => job[p].kind = "schema"
         /\ pc[p] \in RestoreLabels => job[p].kind = "restore" /\ job[p].id \in Restorations
         /\ pc[p] \in SelectLabels => job[p].kind = "select"
         /\ pc[p] = "profileLock" => job[p].kind \in {"upgrade", "schema", "restore"}
         /\ pc[p] = "profile" => job[p].kind \in {"profile", "onboard", "select"}
         /\ pc[p] = "ingest" => job[p].kind \in {"onboard", "select"}
  BY DEF HomeFits, CommandsFit, Fits, InstallFits, EnrollFits, OnboardFits, ProfileFits,
         SelectFits, EvaluateFits, MigrateFits, UpgradeFits, SchemaFits, RestoreFits, TrustLabels,
         EnrollLabels, OnboardLabels, PersonalLabels, SelectLabels, EvaluateLabels, MigrateLabels,
         UpgradeLabels, FileLabels, SchemaLabels, RestoreLabels

LEMMA SelectionInvStep ==
  ASSUME SelectionInv, [Next]_vars
  PROVE  SelectionInv'
<1>0. /\ HomeFits /\ CommandsFit /\ artifact \in Versions /\ DOMAIN pc = Procs
      /\ \A id \in Personal : Len(snapshots[id]) \in Nat
  BY DEF SelectionInv, TrustInv, HomeFits, FilesFit, ProfileIds, CommandsFit
<1>1. ASSUME NEW p \in Procs, OnboardingStep(p)
      PROVE  SelectionInv'
  <2>1. OnboardingNext(p) /\ UNCHANGED selection /\ Others(p)
    BY <1>0, <1>1, OnboardingMoves DEF OnboardingStep, selections
  <2>2. CASE Ingest(p)
    BY <2>1, <2>2, IngestRests
  <2>3. CASE InstallProfile(p)
    <3>1. pc'[p] = "ingest" => job'[p] = job[p] /\ job[p].kind # "select"
      BY <1>0, <2>3, LeaveFits DEF InstallProfile, AfterProfile, Step, Goto, Refuse
    <3>2. pc'[p] \in {"profile", "ingest", "bind", "ok", "idle"}
      BY <1>0, <2>1, <2>3, LeaveFits, KindOfLabel DEF InstallProfile, AfterProfile, Step, Goto, Refuse
    <3>3. SelectionRests(p)'
      BY <3>1, <3>2 DEF SelectionRests
    <3> QED
      BY <2>1, <3>3, SelectionMovesOn
  <2>4. CASE ~Ingest(p) /\ ~InstallProfile(p)
    <3>1. pc'[p] \notin {"ingest", "record", "fillRecord"}
      <4>1. CASE LockProfile(p) \/ LockTimesOut(p)
        BY <1>0, <4>1, LeaveFits, KindOfLabel DEF LockProfile, LockTimesOut, Step, Goto, Refuse
      <4>2. CASE BeginProfile(p) \/ BeginOnboard(p)
        BY <1>0, <4>2 DEF BeginProfile, BeginOnboard, Begin, Goto
      <4>3. CASE IngestDies(p) \/ RemoveEmptyHome(p) \/ RenameHomeRefused(p) \/ RenameHomeFails(p)
        BY <1>0, <4>3, LeaveFits
        DEF IngestDies, RemoveEmptyHome, RenameHomeRefused, RenameHomeFails, Goto, Refuse
      <4>4. CASE OnboardReads(p) \/ RenameHome(p) \/ VerifyHome(p)
        BY <1>0, <4>4, OnboardReadsOn, LeaveFits DEF RenameHome, VerifyHome, Step, Goto, Refuse
      <4> QED
        BY <2>1, <2>4, <4>1, <4>2, <4>3, <4>4 DEF OnboardingNext
    <3> QED
      BY <2>1, <3>1, SelectionQuiet
  <2> QED
    BY <2>2, <2>3, <2>4
<1>2. ASSUME NEW p \in Procs, SelectionStep(p)
      PROVE  SelectionInv'
  BY <1>2, SelectionStepRests DEF SelectionStep
<1>3. ASSUME NEW p \in Procs, TrustStep(p) \/ EloStep(p) \/ UpgradeStep(p) \/ MigrationStep(p)
      PROVE  SelectionInv'
  <2>1. UNCHANGED selection
    BY <1>3 DEF TrustStep, EloStep, UpgradeStep, MigrationStep, selections
  <2>2. CASE TrustStep(p) \/ EloStep(p)
    BY <1>0, <2>1, <2>2, TrustMoves, EloMoves, SelectionQuiet
    DEF TrustStep, EloStep, TrustLabels, EnrollLabels, PersonalLabels, EvaluateLabels, MigrateLabels
  <2>3. CASE UpgradeStep(p) \/ MigrationStep(p)
    BY <1>0, <2>1, <2>3, UpgradeMoves, MigrationMoves, SelectionQuiet
    DEF UpgradeStep, MigrationStep, UpgradeLabels, SchemaLabels, FileLabels, RestoreLabels
  <2> QED
    BY <1>3, <2>2, <2>3
<1>4. CASE RuleStep \/ UNCHANGED vars
  <2>1. UNCHANGED <<pc, job, selection>>
    BY <1>4, RuleMoves DEF vars, control, selections
  <2>2. \A p \in Procs : SelectionRests(p)'
    BY <2>1, SelectionStands
  <2>3. ASSUME NEW r \in Runs, Sealed(selection[r])
        PROVE  Grounded(selection[r])'
    <3>1. PICK s : s = selection[r]
      OBVIOUS
    <3>2. Grounded(s)'
      BY <2>3, <3>1, GroundedStays DEF SelectionInv
    <3> QED
      BY <2>1, <3>1, <3>2
  <2> QED
    BY <2>1, <2>2, <2>3, TrustInvStep DEF SelectionInv, Sealed
<1> QED
  BY <1>1, <1>2, <1>3, <1>4 DEF Next

\* A record that is grounded rests on what it names.
LEMMA SelectionsHold ==
  ASSUME SelectionInv
  PROVE  SelectionsRest
<1>1. ASSUME NEW r \in Runs, NEW d, NEW n, NEW c, Sealed(selection[r]),
             d = selection[r].discovery, n = selection[r].seq, c = snapshots[Scope(d)][n].catalog
      PROVE  /\ BindingVerifies(Scope(d)) /\ n \in DOMAIN snapshots[Scope(d)]
             /\ \A x \in c.tokens \cup c.assets : AtVersion(x, d)
             /\ \A x \in c.sources : x = d.target \/ AtVersion(x, d)
  <2>1. /\ BindingVerifies(Scope(d)) /\ n \in DOMAIN snapshots[Scope(d)]
        /\ c = PersonalCatalog(d) /\ ReadbackCovers(d) /\ Attributable(d)
    BY <1>1 DEF SelectionInv, Grounded, Retains
  <2>2. \A x \in c.tokens : AtVersion(x, d)
    BY <2>1 DEF PersonalCatalog, ReadbackCovers
  <2>3. \A x \in c.assets : AtVersion(x, d)
    BY <2>1 DEF PersonalCatalog, Attributable
  <2>4. \A x \in c.sources : x = d.target \/ AtVersion(x, d)
    BY <2>1 DEF PersonalCatalog, Attributable
  <2> QED
    BY <2>1, <2>2, <2>3, <2>4
<1> QED
  BY <1>1 DEF SelectionsRest

-----------------------------------------------------------------------------
(* What is sealed rests on what it names.                                  *)

LEMMA HomeInits ==
  ASSUME Init
  PROVE  UpgradeInv /\ MigrationInv /\ SelectionInv
<1>1. HomeFits
  BY VersionAssumption
  DEF Init, TrustInit, OnboardingInit, MigrationsInit, HomeFits, CommandsFit, FilesFit, Versions
<1>2. \A p \in Procs : pc[p] = "idle"
  BY DEF Init, TrustInit
<1>3. HoldersRest
  BY <1>2 DEF Init, OnboardingInit, HoldersRest, HeldLabels, UpgradeLabels, SchemaLabels,
              FileLabels, RestoreLabels
<1>4. UpgradeRests
  BY <1>2 DEF Init, UpgradeInit, UpgradeRests, GrantRests, WritesAuth, Loading, Loaded
<1>5. MigrationRests
  <2>1. \A p \in Procs : WorkRests(p)
    BY <1>2 DEF WorkRests, Advancing, Committing, Stages, Filling
  <2>2. /\ artifact = 1 /\ Nothing # "whole"
        /\ written \in [Stages -> [Versions -> {Nothing, Torn, "whole"}]]
        /\ \A s \in Stages, v \in Versions : written[s][v] = Nothing
    BY VersionAssumption DEF Init, MigrationsInit
  <2>3. Reached(1)
    BY DEF Reached
  <2>4. \A v \in Versions : written["commit"][v] # "whole"
    BY <2>2 DEF Stages
  <2> QED
    BY <2>1, <2>2, <2>3, <2>4 DEF MigrationRests, Init, MigrationsInit
<1>6. TrustInv
  BY <1>1 DEF Init, TrustInit, TrustRests, Anchors, Hosts, SelectionInit, SealRests, TrustInv
<1>7. SelectionInv
  BY <1>2, <1>6 DEF SelectionInv, SelectionRests, Init, SelectionInit, Sealed
<1> QED
  BY <1>1, <1>3, <1>4, <1>5, <1>7 DEF UpgradeInv, MigrationInv, LockInv

\* What is sealed rests on what it names, for any number of processes, commands and
\* faults: a selection of personal_selection.py on its trust, profile, seal and
\* catalog, the one authorization of evaluator_upgrade.py on rules that are retained, and an artifact of migrations.py on the backups of its past versions.
THEOREM SealsRestOnWhatTheyName == Spec => []SealedRests
<1>1. Init => UpgradeInv /\ MigrationInv /\ SelectionInv
  BY HomeInits
<1>2. UpgradeInv /\ MigrationInv /\ SelectionInv /\ [Next]_vars
        => UpgradeInv' /\ MigrationInv' /\ SelectionInv'
  BY UpgradeInvStep, MigrationInvStep, SelectionInvStep
<1>3. UpgradeInv /\ MigrationInv /\ SelectionInv => SealedRests
  BY AuthorizationsHold, MigrationsHold, SelectionsHold DEF SealedRests
<1> QED
  BY <1>1, <1>2, <1>3, PTL DEF Spec

-----------------------------------------------------------------------------
(* A grant that no other revision of the profile comes into.               *)

GrantAgrees(l, b) ==
  /\ l = "loadRules" => profile[Company] = b.rev
  /\ l \in WritesAuth => rules[b.seq] = b.rev

CalmInv ==
  /\ UpgradeInv /\ RevisionsAgree
  /\ \A p \in Procs : GrantAgrees(pc[p], job[p].binding)

\* What is agreed on is not touched by the steps of others.
LEMMA AgreementStands ==
  ASSUME CalmInv, [Next]_vars, ProfileStands, UNCHANGED auths, NEW p \in Procs,
         UNCHANGED <<pc[p], job[p]>>
  PROVE  RevisionsAgree' /\ GrantAgrees(pc[p], job[p].binding)'
<1>1. \A i \in DOMAIN rules : rules'[i] = rules[i]
  BY RulesGrow DEF CalmInv
<1>2. RevisionsAgree'
  BY <1>1 DEF CalmInv, RevisionsAgree, UpgradeInv, UpgradeRests
<1>3. GrantAgrees(pc[p], job[p].binding)'
  BY <1>1 DEF CalmInv, GrantAgrees, ProfileStands, UpgradeInv, UpgradeRests, GrantRests
<1> QED
  BY <1>2, <1>3

LEMMA CalmStep ==
  ASSUME CalmInv, [Next /\ ProfileStands]_vars
  PROVE  CalmInv'
<1>0. /\ UpgradeInv' /\ [Next]_vars /\ CommandsFit /\ artifact \in Versions
      /\ \A id \in Personal : Len(snapshots[id]) \in Nat
  BY UpgradeInvStep DEF CalmInv, UpgradeInv, LockInv, HomeFits, FilesFit, ProfileIds
<1>s. UNCHANGED vars \/ ProfileStands
  OBVIOUS
<1>1. ASSUME NEW p \in Procs, Others(p), ProfileStands, UNCHANGED auths,
             pc'[p] \notin WritesAuth \cup {"loadRules"}
      PROVE  RevisionsAgree' /\ \A q \in Procs : GrantAgrees(pc[q], job[q].binding)'
  <2>1. \A q \in Procs : q # p => GrantAgrees(pc[q], job[q].binding)'
    BY <1>0, <1>1, AgreementStands DEF Others
  <2>2. GrantAgrees(pc[p], job[p].binding)'
    BY <1>1 DEF GrantAgrees
  <2>3. RevisionsAgree'
    BY <1>0, <1>1, RulesGrow DEF CalmInv, RevisionsAgree, UpgradeInv, UpgradeRests
  <2> QED
    BY <2>1, <2>2, <2>3
<1>2. ASSUME NEW p \in Procs, ProfileStands,
             \/ TrustStep(p) \/ EloStep(p) \/ OnboardingStep(p) \/ SelectionStep(p)
             \/ MigrationStep(p)
      PROVE  RevisionsAgree' /\ \A q \in Procs : GrantAgrees(pc[q], job[q].binding)'
  <2> USE DEF WritesAuth
  <2>1. UNCHANGED auths
    BY <1>2 DEF TrustStep, EloStep, OnboardingStep, SelectionStep, MigrationStep, upgrades
  <2>2. CASE TrustStep(p) \/ EloStep(p) \/ OnboardingStep(p)
    BY <1>0, <1>1, <1>2, <2>1, <2>2, TrustMoves, EloMoves, OnboardingMoves
    DEF TrustStep, EloStep, OnboardingStep, TrustLabels, EnrollLabels, PersonalLabels,
        EvaluateLabels, MigrateLabels, OnboardLabels
  <2>3. CASE SelectionStep(p) \/ MigrationStep(p)
    BY <1>0, <1>1, <1>2, <2>1, <2>3, SelectionMoves, MigrationMoves
    DEF SelectionStep, MigrationStep, SelectLabels, FileLabels, SchemaLabels, RestoreLabels
  <2> QED
    BY <1>2, <2>2, <2>3
<1>3. ASSUME NEW p \in Procs, UpgradeNext(p), ProfileStands
      PROVE  RevisionsAgree' /\ \A q \in Procs : GrantAgrees(pc[q], job[q].binding)'
  <2>0. Others(p) /\ DOMAIN pc = Procs
    BY <1>0, <1>3, UpgradeMoves DEF CommandsFit
  <2>b. ASSUME NEW l, Step(p, l)
        PROVE  pc'[p] = l /\ job'[p] = job[p]
    BY <2>0, <2>b DEF Step, Goto
  <2>c. ASSUME Leave(p)
        PROVE  pc'[p] = "idle"
    BY <2>0, <2>c DEF Leave, Goto
  <2>r. /\ rules \in Seq(Revisions) /\ GrantRests(pc[p], job[p].binding)
        /\ GrantAgrees(pc[p], job[p].binding)
    BY DEF CalmInv, UpgradeInv, UpgradeRests
  <2>o. ASSUME UNCHANGED auths, GrantAgrees(pc[p], job[p].binding)'
        PROVE  RevisionsAgree' /\ \A q \in Procs : GrantAgrees(pc[q], job[q].binding)'
    <3>1. \A q \in Procs : q # p => GrantAgrees(pc[q], job[q].binding)'
      BY <1>0, <1>3, <2>0, <2>o, AgreementStands DEF Others
    <3>2. RevisionsAgree'
      BY <1>0, <2>o, RulesGrow DEF CalmInv, RevisionsAgree, UpgradeInv, UpgradeRests
    <3> QED
      BY <2>o, <3>1, <3>2
  <2>1. CASE ReadsOn(p)
    <3>1. UNCHANGED <<auths, rules, profile>>
      BY <2>1, UpgradeReading DEF upgrades
    <3>2. CASE UnlockRefused(p)
      <4>1. pc'[p] = "idle"
        BY <2>c, <3>2 DEF UnlockRefused, Refuse
      <4> QED
        BY <1>1, <1>3, <2>0, <3>1, <4>1 DEF WritesAuth
    <3>3. ASSUME NEW l, Step(p, l), Finds(pc[p], l, job[p].binding)
          PROVE  GrantAgrees(pc[p], job[p].binding)'
      <4>1. PICK b : b = job[p].binding
        OBVIOUS
      <4>2. pc'[p] = l /\ job'[p] = job[p]
        BY <2>b, <3>3
      <4>3. pc[p] = "loadRules" /\ IsCandidate(b) => rules[b.seq] = b.rev
        BY <2>r, <4>1 DEF IsCandidate, RulesLoad, GrantAgrees
      <4>4. GrantAgrees(l, b)
        BY <3>3, <4>1, <4>3 DEF Finds, GrantAgrees, WritesAuth
      <4> QED
        BY <3>1, <4>1, <4>2, <4>4 DEF GrantAgrees
    <3> QED
      BY <2>1, <2>o, <3>1, <3>2, <3>3, UpgradeReading
  <2>2. CASE MakeAuthDir(p) \/ CreateAuth(p)
    <3>1. UNCHANGED <<auths, rules>> /\ job'[p] = job[p] /\ pc[p] \in WritesAuth
          /\ pc'[p] \in WritesAuth
      BY <2>2, <2>b DEF MakeAuthDir, CreateAuth, WritesAuth
    <3>2. GrantAgrees(pc[p], job[p].binding)'
      BY <2>r, <3>1 DEF GrantAgrees, WritesAuth
    <3> QED
      BY <2>o, <3>1, <3>2
  <2>3. CASE FillAuth(p)
    <3>1. pc[p] = "fillAuth" /\ pc'[p] = "writePointer" /\ UNCHANGED rules
          /\ auths' = auths \cup {job[p].binding}
      BY <2>3, <2>b DEF FillAuth
    <3>2. RevisionsAgree'
      BY <2>r, <3>1 DEF CalmInv, RevisionsAgree, GrantAgrees, WritesAuth
    <3>3. \A q \in Procs : q # p => pc'[q] \notin UpgradeLabels
      BY <2>0, <3>1
      DEF CalmInv, UpgradeInv, LockInv, HoldersRest, HeldLabels, UpgradeLabels, Others
    <3>4. \A q \in Procs : pc'[q] \notin WritesAuth \cup {"loadRules"}
      BY <3>1, <3>3 DEF UpgradeLabels, WritesAuth
    <3> QED
      BY <3>2, <3>4 DEF GrantAgrees
  <2>4. CASE BeginUpgrade(p) \/ WriteAuthPointer(p) \/ VerifyRecord(p) \/ UpgradeWriteFails(p)
    <3>1. UNCHANGED auths
      BY <2>4 DEF BeginUpgrade, WriteAuthPointer, VerifyRecord, UpgradeWriteFails, upgrades
    <3>2. pc'[p] \in {"profileLock", "verifyUpgrade", "ok", "idle"}
      BY <2>0, <2>4, <2>b, <2>c
      DEF BeginUpgrade, Begin, Goto, WriteAuthPointer, VerifyRecord, UpgradeWriteFails, Refuse
    <3> QED
      BY <1>1, <1>3, <2>0, <3>1, <3>2 DEF WritesAuth
  <2> QED
    BY <1>3, <2>1, <2>2, <2>3, <2>4 DEF UpgradeNext, ReadsOn
<1>4. ASSUME RuleStep \/ UNCHANGED vars
      PROVE  RevisionsAgree' /\ \A q \in Procs : GrantAgrees(pc[q], job[q].binding)'
  <2>1. UNCHANGED <<pc, job, auths, profile>>
    BY <1>4, RuleMoves
    DEF vars, control, RuleStep, AdvanceRules, RulesExpire, catalogs, authorization, upgrades
  <2>2. ProfileStands
    BY <2>1 DEF ProfileStands
  <2>3. RevisionsAgree'
    BY <1>0, <2>1, RulesGrow DEF CalmInv, RevisionsAgree, UpgradeInv, UpgradeRests
  <2> QED
    BY <1>0, <2>1, <2>2, <2>3, AgreementStands
<1> QED
  BY <1>0, <1>s, <1>2, <1>3, <1>4 DEF Next, CalmInv, UpgradeStep

\* Where no profile is installed between the two readings of it that a grant makes
\* (evaluator_upgrade.py:512 and rule_activation.py:640), the rules that an authorization
\* names are of the revision that it names, whatever else the home sees.  Without the
\* condition they need not be: nothing compares what the two readings found.
THEOREM UndisturbedGrantsAgree == CalmSpec => []RevisionsAgree
<1>1. Init => CalmInv
  <2> SUFFICES ASSUME Init
               PROVE  CalmInv
    OBVIOUS
  <2>1. auths = {} /\ \A p \in Procs : pc[p] = "idle"
    BY DEF Init, TrustInit, UpgradeInit
  <2> QED
    BY <2>1, HomeInits DEF CalmInv, RevisionsAgree, GrantAgrees, WritesAuth
<1>2. CalmInv /\ [Next /\ ProfileStands]_vars => CalmInv'
  BY CalmStep
<1>3. CalmInv => RevisionsAgree
  BY DEF CalmInv
<1> QED
  BY <1>1, <1>2, <1>3, PTL DEF CalmSpec

-----------------------------------------------------------------------------
(* What a command reports is true.                                         *)

Installed(j) == anchor # Nothing /\ j.key \in {Nothing, anchor.catalog}
Enrolled(j) == j.key \in Keys /\ release = j.key /\ anchor # Nothing /\ anchor.catalog # j.key
Onboarded(j) ==
  /\ anchor # Nothing /\ anchor.catalog = j.key
  /\ j.seq \in DOMAIN snapshots[Company]
  /\ snapshots[Company][j.seq] = [rev |-> j.rev, catalog |-> j.catalog]
RunSelected(j) ==
  j.run \in Runs /\ Sealed(selection[j.run]) /\ selection[j.run].discovery = j.discovery
Evaluated(j) == j.entry \in entries /\ j.entry.base = j.base /\ j.entry.cand = j.cand
Effective(b) == b \in auths /\ b.seq \in DOMAIN rules /\ rules[b.seq] = b.rev
Restored(j) ==
  j.id \in Restorations /\ restored[j.id] = "whole" /\ restoring[j.id].to = j.to

Succeeded(j) ==
  /\ j.kind = "install" => Installed(j)
  /\ j.kind = "enroll" => Enrolled(j)
  /\ j.kind = "onboard" => Onboarded(j)
  /\ j.kind = "select" => RunSelected(j)
  /\ j.kind = "evaluate" => Evaluated(j)
  /\ j.kind = "upgrade" => Effective(j.binding)
  /\ j.kind = "restore" => Restored(j)

\* What a command has established on its way to its report.
ReportRests(p) ==
  /\ pc[p] = "ok" => Succeeded(job[p])
  /\ pc[p] = "verifyTrust" /\ job[p].kind = "install" => Installed(job[p])
  /\ pc[p] \in {"removeEmptyHome", "renameHome", "verifyHome"} => job[p].seq = 1
  /\ pc[p] = "verifyHome" => Onboarded(job[p])
  /\ pc[p] = "eloRecover" => entries # {}
  /\ pc[p] \in {"moveHead", "eloVerify"} => Evaluated(job[p])

Reporting ==
  {"ok", "verifyTrust", "removeEmptyHome", "renameHome", "verifyHome", "eloRecover", "moveHead",
   "eloVerify"}

ReportInv ==
  /\ TrustInv /\ EloInv /\ UpgradeInv /\ MigrationInv
  /\ \A r \in Restorations : restored[r] \in {Nothing, Torn, "whole"}
  /\ \A p \in Procs : ReportRests(p)

LEMMA EntriesGrow ==
  ASSUME [Next]_vars
  PROVE  entries \subseteq entries'
<1>1. ASSUME NEW p \in Procs, EloNext(p)
      PROVE  entries \subseteq entries'
  BY <1>1 DEF EloNext, BeginEvaluate, EvaluateChecks, LockReceipt, LockRefused, EvaluateReads,
              RecoverHead, EvaluateDecides, CreateEntry, FillEntry, MoveHead, EvaluateVerifies,
              BeginMigrate, MigrateReads, UnlinkReceipt, CreateReceipt, FillReceipt,
              MigrateMarker, UnlinkMarker, CreateMarker, FillMarker, MigrateHead, UnlinkHead,
              CreateHead, FillHead, VerifyGenesis, EloWriteFails, history
<1> QED
  BY <1>1, RuleMoves
  DEF Next, TrustStep, EloStep, OnboardingStep, SelectionStep, UpgradeStep, MigrationStep, vars,
      history

\* In a home with trust the company's snapshots stay.
LEMMA CompanyStays ==
  ASSUME TrustInv, [Next]_vars, anchor # Nothing
  PROVE  \A n \in DOMAIN snapshots[Company] :
           n \in DOMAIN snapshots'[Company] /\ snapshots'[Company][n] = snapshots[Company][n]
<1>0. /\ DOMAIN snapshots = ProfileIds /\ Company \in ProfileIds
      /\ \A i \in ProfileIds : snapshots[i] \in Seq(SnapshotsOf(i))
  BY DEF TrustInv, HomeFits, FilesFit, ProfileIds
<1>1. ASSUME NEW p \in Procs, OnboardingNext(p)
      PROVE  \A n \in DOMAIN snapshots[Company] :
               n \in DOMAIN snapshots'[Company] /\ snapshots'[Company][n] = snapshots[Company][n]
  <2>1. CASE Ingest(p) \/ IngestDies(p)
    <3>1. IdOf(p) \in ProfileIds /\ Snapshot(p) \in SnapshotsOf(IdOf(p))
      BY <2>1, SubjectFits DEF TrustInv, HomeFits, Ingest, IngestDies
    <3>2. PICK i \in ProfileIds : i = IdOf(p)
      BY <3>1
    <3>3. PICK x \in SnapshotsOf(i) : x = Snapshot(p)
      BY <3>1, <3>2
    <3>4. UNCHANGED snapshots \/ snapshots' = [snapshots EXCEPT ![i] = Append(snapshots[i], x)]
      BY <1>0, <2>1, <3>2, <3>3 DEF Ingest, IngestDies
    <3>5. \A n \in DOMAIN snapshots[i] :
            n \in DOMAIN Append(snapshots[i], x) /\ Append(snapshots[i], x)[n] = snapshots[i][n]
      BY <1>0, <3>3, AppendProperties
    <3> QED
      BY <1>0, <3>4, <3>5
  <2>2. ~RenameHome(p)
    BY DEF RenameHome, HomeEmpty, TrustInv, TrustRests
  <2> QED
    BY <1>1, <2>1, <2>2
    DEF OnboardingNext, LockProfile, LockTimesOut, BeginProfile, InstallProfile, BeginOnboard,
        OnboardReads, RemoveEmptyHome, RenameHomeRefused, RenameHomeFails, VerifyHome, catalogs
<1>2. ASSUME NEW p \in Procs, SelectionNext(p) \/ UpgradeNext(p) \/ MigrationsNext(p)
      PROVE  UNCHANGED snapshots
  <2>1. CASE SelectionNext(p)
    BY <2>1 DEF SelectionNext, BeginSelect, ExistingRetry, CreateBinding, FillBinding, Approve,
                CreateRecord, FillRecord, SelectionWriteFails, catalogs
  <2>2. CASE UpgradeNext(p)
    BY <2>2 DEF UpgradeNext, BeginUpgrade, UpgradeReads, Reads, LoadProfile, LoadRules, LoadRecord,
                VerifyRecord, MakeAuthDir, CreateAuth, FillAuth, WriteAuthPointer, VerifyUpgrade,
                UpgradeWriteFails, catalogs
  <2>3. CASE MigrationsNext(p)
    BY <2>3 DEF MigrationsNext, BeginSchema, SchemaReads, CreateFile, FillFile, ReplaceArtifact,
                Advance, BeginRestore, RestoreReads, PrepareRestore, FillRestore, PutBack,
                RecordRestore, FillRestored, SchemaWriteFails, catalogs
  <2> QED
    BY <1>2, <2>1, <2>2, <2>3
<1> QED
  BY <1>1, <1>2, RuleMoves
  DEF Next, TrustStep, EloStep, OnboardingStep, SelectionStep, UpgradeStep, MigrationStep, vars,
      catalogs

\* A restoration that is recorded stays, with what was prepared for it.
LEMMA RestorationsStay ==
  ASSUME MigrationInv, [Next]_vars,
         \A r \in Restorations : restored[r] \in {Nothing, Torn, "whole"}
  PROVE  /\ \A r \in Restorations : restored'[r] \in {Nothing, Torn, "whole"}
         /\ \A r \in Restorations : restored[r] = "whole" =>
              restored'[r] = "whole" /\ restoring'[r] = restoring[r]
<1>0. /\ DOMAIN restoring = Restorations /\ DOMAIN restored = Restorations
      /\ Nothing # "whole" /\ Torn # "whole"
  BY VersionAssumption DEF MigrationInv, MigrationRests
<1>1. ASSUME NEW p \in Procs, MigrationsNext(p)
      PROVE  /\ \A r \in Restorations : restored'[r] \in {Nothing, Torn, "whole"}
             /\ \A r \in Restorations : restored[r] = "whole" =>
                  restored'[r] = "whole" /\ restoring'[r] = restoring[r]
  <2>0. WorkRests(p)
    BY DEF MigrationInv, MigrationRests
  <2>1. CASE PrepareRestore(p) \/ FillRestore(p)
    <3>1. restored[job[p].id] = Nothing
      BY <2>0, <2>1 DEF WorkRests, PrepareRestore, FillRestore
    <3>2. /\ UNCHANGED restored
          /\ \A r \in Restorations : r # job[p].id => restoring'[r] = restoring[r]
      BY <1>0, <2>1 DEF PrepareRestore, FillRestore
    <3> QED
      BY <1>0, <3>1, <3>2
  <2>2. CASE RecordRestore(p)
    <3>1. restored[job[p].id] = Nothing
      BY <2>0, <2>2 DEF WorkRests, RecordRestore
    <3> QED
      BY <1>0, <2>2, <3>1 DEF RecordRestore
  <2>3. CASE FillRestored(p)
    BY <1>0, <2>3 DEF FillRestored
  <2>4. CASE SchemaWriteFails(p)
    <3>1. /\ pc[p] = "fillRestore" => restored[job[p].id] = Nothing
          /\ pc[p] = "fillRestored" => restored[job[p].id] = Torn
      BY <2>0 DEF WorkRests
    <3>2. CASE pc[p] = "fillRestored"
      <4>1. restored' = [restored EXCEPT ![job[p].id] = Nothing] /\ UNCHANGED restoring
        BY <2>4, <3>2 DEF SchemaWriteFails
      <4> QED
        BY <1>0, <3>1, <3>2, <4>1
    <3>3. CASE pc[p] = "fillRestore"
      <4>1. restoring' = [restoring EXCEPT ![job[p].id] = Nothing] /\ UNCHANGED restored
        BY <2>4, <3>3 DEF SchemaWriteFails
      <4> QED
        BY <1>0, <3>1, <3>3, <4>1
    <3>4. CASE pc[p] \notin {"fillRestore", "fillRestored"}
      BY <2>4, <3>4 DEF SchemaWriteFails
    <3> QED
      BY <3>2, <3>3, <3>4
  <2> QED
    BY <1>1, <2>1, <2>2, <2>3, <2>4
    DEF MigrationsNext, BeginSchema, SchemaReads, CreateFile, FillFile, ReplaceArtifact, Advance,
        BeginRestore, RestoreReads, PutBack, artifacts
<1> QED
  BY <1>1, RuleMoves
  DEF Next, TrustStep, EloStep, OnboardingStep, SelectionStep, UpgradeStep, MigrationStep, vars,
      artifacts

\* What a report says stays true.
LEMMA SuccessStays ==
  ASSUME ReportInv, [Next]_vars, NEW j
  PROVE  /\ Installed(j) => Installed(j)'
         /\ Onboarded(j) => Onboarded(j)'
         /\ Evaluated(j) => Evaluated(j)'
         /\ Succeeded(j) => Succeeded(j)'
<1>1. anchor # Nothing => anchor' = anchor
  BY TrustStaysVerified DEF ReportInv
<1>2. Installed(j) => Installed(j)'
  BY <1>1 DEF Installed
<1>3. Enrolled(j) => Enrolled(j)'
  BY <1>1, TrustInvStep, TrustAssumption DEF Enrolled, TrustHeld, Stays, Sealed, ReportInv
<1>4. Onboarded(j) => Onboarded(j)'
  BY <1>1, CompanyStays DEF Onboarded, ReportInv
<1>5. RunSelected(j) => RunSelected(j)'
  BY TrustInvStep DEF RunSelected, TrustHeld, Stays, Sealed, ReportInv
<1>6. Evaluated(j) => Evaluated(j)'
  BY EntriesGrow DEF Evaluated
<1>7. Restored(j) => Restored(j)'
  BY RestorationsStay DEF Restored, ReportInv
<1>8. Effective(j.binding) => Effective(j.binding)'
  BY RulesGrow, AuthorizationsGrow DEF Effective, ReportInv
<1> QED
  BY <1>2, <1>3, <1>4, <1>5, <1>6, <1>7, <1>8 DEF Succeeded

LEMMA ReportStands ==
  ASSUME ReportInv, [Next]_vars, NEW q \in Procs, pc'[q] = pc[q], job'[q] = job[q]
  PROVE  ReportRests(q)'
<1>1. PICK j : j = job[q]
  OBVIOUS
<1>2. /\ Installed(j) => Installed(j)'
      /\ Onboarded(j) => Onboarded(j)'
      /\ Evaluated(j) => Evaluated(j)'
      /\ Succeeded(j) => Succeeded(j)'
  BY SuccessStays
<1>3. entries # {} => entries' # {}
  BY EntriesGrow
<1>4. job'[q] = j
  BY <1>1
<1>5. ReportRests(q)
  BY DEF ReportInv
<1> QED
  BY <1>1, <1>2, <1>3, <1>4, <1>5 DEF ReportRests

LEMMA ReportMovesOn ==
  ASSUME ReportInv, [Next]_vars, NEW p \in Procs, Others(p), pc'[p] \in Reporting => ReportRests(p)'
  PROVE  \A q \in Procs : ReportRests(q)'
<1>1. pc'[p] \notin Reporting => ReportRests(p)'
  BY DEF ReportRests, Reporting
<1>2. \A q \in Procs : q # p => ReportRests(q)'
  BY ReportStands DEF Others
<1> QED
  BY <1>1, <1>2

\* Reports of the commands about trust.
LEMMA TrustReports ==
  ASSUME ReportInv, NEW p \in Procs, TrustNext(p), pc'[p] \in Reporting
  PROVE  ReportRests(p)'
<1>0. DOMAIN pc = Procs /\ DOMAIN job = Procs /\ HomeFits /\ ReportRests(p)
  BY DEF ReportInv, TrustInv, HomeFits, CommandsFit
<1>1. pc'[p] # "idle"
  BY DEF Reporting
<1>2. ~Leave(p)
  BY <1>0, <1>1 DEF Leave, Goto
<1>b. ASSUME NEW l, Step(p, l)
      PROVE  pc'[p] = l /\ job'[p] = job[p]
  BY <1>0, <1>b DEF Step, Goto
<1>k. /\ pc[p] \in {"install", "promoteTrust", "verifyTrust"} =>
           job[p].kind \in {"install", "onboard", "select"}
      /\ pc[p] \in {"personal", "addCapability", "fillCapability"} => job[p].kind = "select"
      /\ pc[p] \in {"enroll", "promoteRelease", "verifyRelease"} =>
           job[p].kind = "enroll" /\ job[p].key \in Keys
  BY <1>0, KindOfLabel DEF PersonalLabels, EnrollLabels
<1> USE DEF Reporting, ReportRests
<1>3. ASSUME Step(p, AfterTrust(p)), Pinned(p), anchor' = anchor,
             pc[p] \in {"install", "promoteTrust", "verifyTrust"}
      PROVE  ReportRests(p)'
  BY <1>1, <1>3, <1>b, <1>k DEF AfterTrust, Pinned, TrustVerifies, Succeeded, Installed
<1>4. CASE InstallReads(p) \/ PromotionLost(p)
  <2>1. \/ Step(p, AfterTrust(p)) /\ Pinned(p)
        \/ Step(p, "stageTrust") \/ Step(p, "personal")
    <3>1. CASE InstallReads(p)
      <4>1. ~Refuse(p)
        BY <1>2 DEF Refuse
      <4>2. TrustState \in {"absent", "personal", "external", "hybrid"}
        BY DEF TrustState
      <4>3. AnchorState \in {"absent", "incompatible", "complete"}
        BY <4>2 DEF AnchorState
      <4>4. CASE AnchorState = "complete"
        BY <3>1, <4>1, <4>4 DEF InstallReads
      <4>5. CASE AnchorState = "incompatible"
        BY <3>1, <4>1, <4>5 DEF InstallReads
      <4>6. CASE AnchorState = "absent"
        BY <3>1, <4>1, <4>6 DEF InstallReads
      <4> QED
        BY <4>3, <4>4, <4>5, <4>6
    <3>2. CASE PromotionLost(p)
      BY <1>2, <3>2 DEF PromotionLost, Refuse
    <3> QED
      BY <1>4, <3>1, <3>2
  <2>2. anchor' = anchor /\ pc[p] \in {"install", "promoteTrust"}
    BY <1>4 DEF InstallReads, PromotionLost, trust
  <2>3. CASE Step(p, "stageTrust") \/ Step(p, "personal")
    BY <1>b, <2>3
  <2> QED
    BY <1>3, <2>1, <2>2, <2>3
<1>5. CASE PromoteTrust(p)
  <2>1. pc'[p] = "verifyTrust" /\ job'[p] = job[p] /\ anchor' = StagedAnchor(p)
    BY <1>5, <1>b DEF PromoteTrust, Places
  <2>2. anchor' # Nothing
    BY <1>0, <1>5, <2>1, AnchorsStaged, AnchorAssumption DEF PromoteTrust
  <2>3. job[p].kind = "install" => anchor'.catalog = job[p].key
    BY <2>1 DEF StagedAnchor
  <2> QED
    BY <2>1, <2>2, <2>3 DEF Installed
<1>6. CASE VerifyTrust(p)
  <2>1. Step(p, AfterTrust(p)) /\ anchor' = anchor /\ pc[p] = "verifyTrust"
    BY <1>2, <1>6 DEF VerifyTrust, Refuse, trust
  <2> QED
    BY <1>0, <1>b, <1>k, <2>1 DEF AfterTrust, Succeeded, Installed
<1>7. CASE PersonalReads(p) \/ AddCapability(p) \/ FillCapability(p)
  <2>1. pc'[p] \in {"stageTrust", "addCapability", "verifyTrust", "fillCapability"}
        /\ job'[p] = job[p] /\ job[p].kind = "select"
    <3>1. CASE PersonalReads(p)
      <4>1. TrustState \in {"absent", "personal", "external", "hybrid"}
        BY DEF TrustState
      <4>2. Step(p, "stageTrust") \/ Step(p, "addCapability") \/ Step(p, "verifyTrust")
        BY <3>1, <4>1 DEF PersonalReads
      <4> QED
        BY <1>b, <1>k, <3>1, <4>2 DEF PersonalReads
    <3>2. CASE AddCapability(p)
      BY <1>2, <1>b, <1>k, <3>2 DEF AddCapability, Refuse
    <3>3. CASE FillCapability(p)
      BY <1>b, <1>k, <3>3 DEF FillCapability
    <3> QED
      BY <1>7, <3>1, <3>2, <3>3
  <2> QED
    BY <2>1
<1>8. CASE EnrollReads(p) \/ VerifyRelease(p) \/ PromoteRelease(p)
  <2>1. job[p].kind = "enroll" /\ job[p].key \in Keys
    BY <1>8, <1>k DEF EnrollReads, VerifyRelease, PromoteRelease
  <2>2. \/ Step(p, "ok") /\ EnrolledAs(p) /\ UNCHANGED <<anchor, release>>
        \/ Step(p, "promoteRelease") \/ Step(p, "verifyRelease")
    BY <1>2, <1>8 DEF EnrollReads, VerifyRelease, PromoteRelease, Refuse, trust
  <2>3. CASE Step(p, "ok") /\ EnrolledAs(p) /\ UNCHANGED <<anchor, release>>
    BY <1>b, <2>1, <2>3 DEF Succeeded, Enrolled, EnrolledAs, ReleaseVerifies, TrustVerifies
  <2>4. CASE Step(p, "promoteRelease") \/ Step(p, "verifyRelease")
    BY <1>b, <2>4
  <2> QED
    BY <2>2, <2>3, <2>4
<1>9. CASE BeginInstall(p) \/ BeginEnroll(p)
  BY <1>0, <1>9 DEF BeginInstall, BeginEnroll, Begin, Goto
<1>10. CASE StageTrust(p)
  BY <1>2, <1>10, <1>b DEF StageTrust, Refuse
<1>11. ~(Return(p) \/ TrustWriteFails(p) \/ Crash(p))
  BY <1>2 DEF Return, TrustWriteFails, Crash, Refuse
<1> QED
  BY <1>4, <1>5, <1>6, <1>7, <1>8, <1>9, <1>10, <1>11 DEF TrustNext

\* Reports of evaluations and enrolments.
LEMMA EloReports ==
  ASSUME ReportInv, NEW p \in Procs, EloNext(p), pc'[p] \in Reporting
  PROVE  ReportRests(p)'
<1>0. DOMAIN pc = Procs /\ DOMAIN job = Procs /\ HomeFits /\ ReportRests(p)
  BY DEF ReportInv, TrustInv, HomeFits, CommandsFit
<1>1. ~Leave(p)
  BY <1>0 DEF Leave, Goto, Reporting
<1>b. ASSUME NEW l, Step(p, l)
      PROVE  pc'[p] = l /\ job'[p] = job[p]
  BY <1>0, <1>b DEF Step, Goto
<1>k. /\ pc[p] \in {"eloRead", "eloRecover", "eloDecide", "fillEntry", "moveHead", "eloVerify"} =>
           EvaluateFits(pc[p], job[p])
      /\ pc[p] \in {"migrateHead", "fillHead", "verifyGenesis"} => job[p].kind = "migrate"
  BY <1>0, KindOfLabel DEF EvaluateLabels, MigrateLabels
<1> USE DEF Reporting, ReportRests
<1>2. ASSUME entries # {}
      PROVE  Latest \in entries
  BY <1>2, LatestIsLast DEF ReportInv, EloInv
<1>3. ASSUME entries # {}, IsRetry(p), job' = [job EXCEPT ![p].entry = Latest], Goto(p, "ok"),
             UNCHANGED entries, EvaluateFits(pc[p], job[p])
      PROVE  ReportRests(p)'
  <2>1. PICK e, b, c : e = Latest /\ b = job[p].base /\ c = job[p].cand
    OBVIOUS
  <2>2. /\ job'[p].entry = e /\ job'[p].base = b /\ job'[p].cand = c
        /\ job'[p].kind = "evaluate"
    BY <1>0, <1>3, <2>1 DEF EvaluateFits
  <2>3. e \in entries /\ e.base = b /\ e.cand = c
    BY <1>2, <1>3, <2>1 DEF IsRetry
  <2>4. pc'[p] = "ok"
    BY <1>0, <1>3 DEF Goto
  <2> QED
    BY <1>3, <2>2, <2>3, <2>4 DEF Succeeded, Evaluated
<1>4. CASE EvaluateReads(p)
  <2>1. \/ Step(p, "eloRecover") /\ HeadIsBehind
        \/ Step(p, "eloDecide")
    BY <1>1, <1>4 DEF EvaluateReads, RefuseLocked, Refuse
  <2>2. UNCHANGED entries
    BY <1>4 DEF EvaluateReads
  <2> QED
    BY <1>b, <2>1, <2>2 DEF HeadIsBehind
<1>5. CASE RecoverHead(p)
  BY <1>0, <1>1, <1>3, <1>5, <1>k DEF RecoverHead
<1>6. CASE EvaluateDecides(p)
  <2>1. \/ /\ entries # {} /\ IsRetry(p)
           /\ job' = [job EXCEPT ![p].entry = Latest] /\ Goto(p, "ok")
        \/ Goto(p, "createEntry")
    BY <1>1, <1>6 DEF EvaluateDecides, RefuseLocked, Refuse
  <2>2. UNCHANGED entries /\ pc[p] = "eloDecide"
    BY <1>6 DEF EvaluateDecides
  <2>3. ~Goto(p, "createEntry")
    BY <1>0 DEF Goto
  <2> QED
    BY <1>3, <1>k, <2>1, <2>2, <2>3
<1>7. CASE FillEntry(p)
  <2>1. /\ entries' = entries \cup {job[p].entry} /\ pc'[p] = "moveHead" /\ job'[p] = job[p]
        /\ pc[p] = "fillEntry"
    BY <1>7, <1>b DEF FillEntry
  <2>2. PICK b, c : b = job[p].base /\ c = job[p].cand
    OBVIOUS
  <2>3. job[p].entry = EntryFor(b, c)
    BY <2>1, <2>2 DEF ReportInv, EloInv, EloRests
  <2>4. job[p].entry.base = b /\ job[p].entry.cand = c
    BY <2>3 DEF EntryFor
  <2> QED
    BY <2>1, <2>2, <2>4 DEF Evaluated
<1>8. CASE MoveHead(p)
  <2>1. pc'[p] = "eloVerify" /\ job'[p] = job[p] /\ pc[p] = "moveHead" /\ UNCHANGED entries
    BY <1>8, <1>b DEF MoveHead, history
  <2> QED
    BY <1>0, <2>1 DEF Evaluated
<1>9. CASE EvaluateVerifies(p)
  <2>1. pc'[p] = "ok" /\ job'[p] = job[p] /\ pc[p] = "eloVerify" /\ UNCHANGED entries
    BY <1>1, <1>9, <1>b DEF EvaluateVerifies, Refuse
  <2> QED
    BY <1>0, <1>k, <2>1 DEF Evaluated, Succeeded, EvaluateFits
<1>10. CASE MigrateHead(p) \/ FillHead(p) \/ VerifyGenesis(p)
  <2>1. job[p].kind = "migrate" /\ job'[p] = job[p]
        /\ pc'[p] \in {"ok", "unlinkHead", "createHead", "verifyGenesis"}
    BY <1>1, <1>10, <1>b, <1>k DEF MigrateHead, FillHead, VerifyGenesis, Refuse
  <2> QED
    BY <2>1 DEF Succeeded
<1>11. CASE BeginEvaluate(p) \/ BeginMigrate(p)
  BY <1>0, <1>11 DEF BeginEvaluate, BeginMigrate, Begin, Goto
<1>12. CASE EvaluateChecks(p) \/ LockReceipt(p) \/ LockRefused(p) \/ CreateEntry(p)
  BY <1>1, <1>12, <1>b DEF EvaluateChecks, LockReceipt, LockRefused, CreateEntry, Refuse
<1>13. CASE MigrateReads(p) \/ UnlinkReceipt(p) \/ CreateReceipt(p) \/ FillReceipt(p)
  BY <1>0, <1>1, <1>13, <1>b DEF MigrateReads, UnlinkReceipt, CreateReceipt, FillReceipt, Refuse, Goto
<1>14. CASE MigrateMarker(p) \/ UnlinkMarker(p) \/ CreateMarker(p) \/ FillMarker(p)
  BY <1>1, <1>14, <1>b DEF MigrateMarker, UnlinkMarker, CreateMarker, FillMarker, Refuse
<1>15. CASE UnlinkHead(p) \/ CreateHead(p) \/ EloWriteFails(p)
  BY <1>1, <1>15, <1>b DEF UnlinkHead, CreateHead, EloWriteFails, Refuse
<1> QED
  BY <1>4, <1>5, <1>6, <1>7, <1>8, <1>9, <1>10, <1>11, <1>12, <1>13, <1>14, <1>15 DEF EloNext

\* Reports of onboarding.
LEMMA OnboardingReports ==
  ASSUME ReportInv, [Next]_vars, NEW p \in Procs, OnboardingNext(p), pc'[p] \in Reporting
  PROVE  ReportRests(p)'
<1>0. /\ DOMAIN pc = Procs /\ DOMAIN job = Procs /\ HomeFits /\ ReportRests(p)
      /\ DOMAIN snapshots = ProfileIds /\ Company \in ProfileIds
      /\ snapshots[Company] \in Seq(SnapshotsOf(Company))
  BY DEF ReportInv, TrustInv, HomeFits, CommandsFit, FilesFit, ProfileIds
<1>1. ~Leave(p)
  BY <1>0 DEF Leave, Goto, Reporting
<1>b. ASSUME NEW l, Step(p, l)
      PROVE  pc'[p] = l /\ job'[p] = job[p]
  BY <1>0, <1>b DEF Step, Goto
<1>k. /\ pc[p] = "profileLock" => job[p].kind \in {"upgrade", "schema", "restore"}
      /\ pc[p] = "profile" => job[p].kind \in {"profile", "onboard", "select"}
      /\ pc[p] = "ingest" => job[p].kind \in {"onboard", "select"}
      /\ pc[p] \in OnboardLabels => OnboardFits(pc[p], job[p])
  BY <1>0, KindOfLabel
<1> USE DEF Reporting, ReportRests
<1>2. CASE LockProfile(p) \/ LockTimesOut(p)
  BY <1>1, <1>2, <1>b, <1>k DEF LockProfile, LockTimesOut, Refuse
<1>3. CASE BeginProfile(p) \/ BeginOnboard(p)
  BY <1>0, <1>3 DEF BeginProfile, BeginOnboard, Begin, Goto
<1>4. CASE InstallProfile(p)
  <2>1. Step(p, AfterProfile(p)) /\ pc[p] = "profile"
    BY <1>1, <1>4 DEF InstallProfile, Refuse
  <2>2. pc'[p] = "ok" => job'[p].kind = "profile"
    BY <1>b, <1>k, <2>1 DEF AfterProfile
  <2>3. pc'[p] \in {"ok", "ingest", "bind"} /\ job'[p] = job[p]
    BY <1>b, <1>k, <2>1 DEF AfterProfile
  <2> QED
    BY <2>2, <2>3 DEF Succeeded
<1>5. CASE Ingest(p)
  <2>1. /\ Step(p, AfterIngest(p)) /\ Approved(p) /\ Whole(IdOf(p)) /\ pc[p] = "ingest"
        /\ UNCHANGED anchor
        /\ \/ IsNext(p) /\ snapshots' = [snapshots EXCEPT ![IdOf(p)] = Append(@, Snapshot(p))]
           \/ IsCurrent(p) /\ UNCHANGED snapshots
    BY <1>1, <1>5 DEF Ingest, Refuse, trust
  <2>2. job[p].kind = "onboard" /\ pc'[p] = "ok" /\ job'[p] = job[p]
    BY <1>b, <1>k, <2>1 DEF AfterIngest
  <2>3. IdOf(p) = Company /\ RevisionOf(p) = job[p].rev /\ Snapshot(p) \in SnapshotsOf(Company)
    BY <1>0, <2>1, <2>2, SubjectFits DEF IdOf, RevisionOf, HomeFits
  <2>a. PICK j : j = job[p]
    OBVIOUS
  <2>4. PICK x \in SnapshotsOf(Company) : j = job[p] /\ x = Snapshot(p)
    BY <2>3, <2>a
  <2>5. x = [rev |-> j.rev, catalog |-> j.catalog]
    BY <2>3, <2>4 DEF Snapshot
  <2>6. anchor # Nothing /\ anchor.catalog = j.key
    BY <2>1, <2>2, <2>4 DEF Approved, TrustVerifies
  <2>7. j.seq \in DOMAIN snapshots'[Company] /\ snapshots'[Company][j.seq] = x
    <3>1. CASE IsNext(p) /\ snapshots' = [snapshots EXCEPT ![Company] = Append(snapshots[Company], x)]
      <4>1. j.seq = Len(snapshots[Company]) + 1
        BY <2>3, <2>4, <3>1 DEF IsNext
      <4>2. snapshots'[Company] = Append(snapshots[Company], x)
        BY <1>0, <3>1
      <4> QED
        BY <1>0, <4>1, <4>2, AppendProperties
    <3>2. CASE IsCurrent(p) /\ UNCHANGED snapshots
      <4>1. /\ snapshots[Company] # <<>> /\ j.seq = Len(snapshots[Company])
            /\ Last(snapshots[Company]).catalog = j.catalog
        BY <2>3, <2>4, <3>2 DEF IsCurrent
      <4>2. /\ j.seq \in DOMAIN snapshots[Company] /\ j.seq \in 1 .. Len(snapshots[Company])
            /\ Last(snapshots[Company]) = snapshots[Company][j.seq]
            /\ snapshots[Company][j.seq] \in SnapshotsOf(Company)
        BY <1>0, <4>1 DEF Last
      <4>3. profile[Company] = j.rev
        BY <2>1, <2>3, <2>4 DEF Approved
      <4>4. snapshots[Company][j.seq].rev = j.rev
        BY <2>1, <2>3, <4>2, <4>3 DEF Whole
      <4>5. snapshots[Company][j.seq] = x
        BY <2>5, <4>1, <4>2, <4>4 DEF SnapshotsOf
      <4> QED
        BY <3>2, <4>2, <4>5
    <3> QED
      BY <2>1, <2>3, <2>4, <3>1, <3>2
  <2>8. Onboarded(j)'
    BY <2>1, <2>5, <2>6, <2>7 DEF Onboarded
  <2> QED
    BY <2>2, <2>4, <2>8 DEF Succeeded
<1>6. CASE OnboardReads(p)
  BY <1>1, <1>6, <1>b, OnboardReadsOn DEF Refuse
<1>7. CASE RemoveEmptyHome(p)
  <2>1. job' = [job EXCEPT ![p].empty = TRUE] /\ Goto(p, "renameHome") /\ pc[p] = "removeEmptyHome"
    BY <1>1, <1>7 DEF RemoveEmptyHome, Refuse
  <2>2. OnboardFits(pc[p], job[p])
    BY <1>k, <2>1 DEF OnboardLabels
  <2>3. job'[p].seq = job[p].seq /\ pc'[p] = "renameHome"
    BY <1>0, <2>1, <2>2 DEF OnboardFits, Goto
  <2> QED
    BY <1>0, <2>1, <2>3
<1>8. CASE RenameHome(p)
  <2>1. /\ pc'[p] = "verifyHome" /\ job'[p] = job[p] /\ pc[p] = "renameHome"
        /\ anchor' = [host |-> p, catalog |-> job[p].key]
        /\ snapshots' = [snapshots EXCEPT ![Company] = <<Snapshot(p)>>]
    BY <1>8, <1>b DEF RenameHome, Places
  <2>2. anchor' # Nothing /\ anchor'.catalog = job[p].key
    BY <1>0, <2>1, AnchorsStaged, AnchorAssumption
  <2>3. RevisionOf(p) = job[p].rev
    BY <1>0, <2>1, SubjectFits DEF HomeFits, OnboardLabels
  <2>4. PICK j, x : j = job[p] /\ x = Snapshot(p)
    OBVIOUS
  <2>5. j.seq = 1 /\ x = [rev |-> j.rev, catalog |-> j.catalog]
    BY <1>0, <2>1, <2>3, <2>4 DEF Snapshot
  <2>6. snapshots'[Company] = <<x>>
    BY <1>0, <2>1, <2>4
  <2>7. Onboarded(j)'
    BY <2>2, <2>4, <2>5, <2>6 DEF Onboarded
  <2> QED
    BY <2>1, <2>4, <2>5, <2>7
<1>9. CASE VerifyHome(p)
  <2>1. pc'[p] = "ok" /\ job'[p] = job[p] /\ pc[p] = "verifyHome" /\ UNCHANGED <<anchor, snapshots>>
    BY <1>1, <1>9, <1>b DEF VerifyHome, Refuse, trust, catalogs
  <2>2. job[p].kind = "onboard"
    BY <1>k, <2>1 DEF OnboardLabels, OnboardFits
  <2> QED
    BY <1>0, <2>1, <2>2 DEF Succeeded, Onboarded
<1>10. ~(IngestDies(p) \/ RenameHomeRefused(p) \/ RenameHomeFails(p))
  BY <1>1 DEF IngestDies, RenameHomeRefused, RenameHomeFails, Refuse
<1> QED
  BY <1>2, <1>3, <1>4, <1>5, <1>6, <1>7, <1>8, <1>9, <1>10 DEF OnboardingNext

\* Reports of selections.
LEMMA SelectionReports ==
  ASSUME ReportInv, NEW p \in Procs, SelectionNext(p), pc'[p] \in Reporting
  PROVE  ReportRests(p)'
<1>0. DOMAIN pc = Procs /\ DOMAIN job = Procs /\ HomeFits /\ DOMAIN selection = Runs
  BY DEF ReportInv, TrustInv, HomeFits, CommandsFit, SealRests
<1>1. ~Leave(p)
  BY <1>0 DEF Leave, Goto, Reporting
<1>b. ASSUME NEW l, Step(p, l)
      PROVE  pc'[p] = l /\ job'[p] = job[p]
  BY <1>0, <1>b DEF Step, Goto
<1> USE DEF Reporting
<1>2. CASE ExistingRetry(p) \/ CreateRecord(p) \/ FillRecord(p)
  <2>1. pc[p] \in SelectLabels
    BY <1>2 DEF ExistingRetry, CreateRecord, FillRecord, SelectLabels
  <2>2. SelectFits(pc[p], job[p])
    BY <1>0, <2>1, SelectLabel
  <2>3. PICK j, s : j = job[p] /\ s = Record(p)
    OBVIOUS
  <2>4. j.kind = "select" /\ j.run \in Runs
    BY <2>2, <2>3 DEF SelectFits
  <2>5. s.discovery = j.discovery /\ Sealed(s)
    <3>1. s = [discovery |-> j.discovery, seq |-> j.seq]
      BY <2>3 DEF Record
    <3>2. j.discovery \in {r.discovery : r \in Requests} /\ j.seq \in Nat
      BY <2>2, <2>3 DEF SelectFits
    <3> QED
      BY <3>1, <3>2, RequestsAssumption DEF Sealed
  <2>6. ASSUME Step(p, "ok"), Sealed(selection'[j.run]), selection'[j.run].discovery = j.discovery
        PROVE  ReportRests(p)'
    <3>1. RunSelected(j)'
      BY <2>4, <2>6 DEF RunSelected, Sealed
    <3>2. pc'[p] = "ok" /\ job'[p] = j
      BY <1>b, <2>3, <2>6
    <3> QED
      BY <2>4, <3>1, <3>2 DEF ReportRests, Succeeded
  <2>7. CASE ExistingRetry(p)
    <3>1. \/ Step(p, "personal")
          \/ Step(p, "ok") /\ Sealed(selection[j.run]) /\ selection[j.run].discovery = j.discovery
      BY <1>1, <2>3, <2>7 DEF ExistingRetry, Refuse, Sealed
    <3>2. UNCHANGED selection
      BY <2>7 DEF ExistingRetry, selections
    <3> QED
      BY <1>b, <2>6, <3>1, <3>2
  <2>8. CASE CreateRecord(p)
    <3>1. \/ Step(p, "fillRecord")
          \/ Step(p, "ok") /\ selection[j.run] = s /\ UNCHANGED selection
      BY <1>1, <2>3, <2>8 DEF CreateRecord, Refuse
    <3> QED
      BY <1>b, <2>5, <2>6, <3>1
  <2>9. CASE FillRecord(p)
    <3>1. Step(p, "ok") /\ selection'[j.run] = s
      BY <1>0, <2>3, <2>4, <2>9 DEF FillRecord
    <3> QED
      BY <2>5, <2>6, <3>1
  <2> QED
    BY <1>2, <2>7, <2>8, <2>9
<1>3. CASE BeginSelect(p)
  BY <1>0, <1>3 DEF BeginSelect, Begin, Goto
<1>4. CASE CreateBinding(p) \/ FillBinding(p) \/ SelectionWriteFails(p)
  BY <1>1, <1>4, <1>b DEF CreateBinding, FillBinding, SelectionWriteFails, Refuse
<1>5. CASE Approve(p)
  BY <1>0, <1>1, <1>5 DEF Approve, Refuse, Goto
<1> QED
  BY <1>2, <1>3, <1>4, <1>5 DEF SelectionNext

\* Reports of upgrades.
LEMMA UpgradeReports ==
  ASSUME ReportInv, NEW p \in Procs, UpgradeNext(p), pc'[p] \in Reporting
  PROVE  ReportRests(p)'
<1>0. DOMAIN pc = Procs /\ DOMAIN job = Procs /\ HomeFits
  BY DEF ReportInv, TrustInv, HomeFits, CommandsFit
<1>1. ~Leave(p)
  BY <1>0 DEF Leave, Goto, Reporting
<1>b. ASSUME NEW l, Step(p, l)
      PROVE  pc'[p] = l /\ job'[p] = job[p]
  BY <1>0, <1>b DEF Step, Goto
<1> USE DEF Reporting
<1>2. CASE VerifyRecord(p)
  <2>1. /\ pc'[p] = "ok" /\ job'[p] = job[p] /\ pc[p] = "verifyRecord"
        /\ UNCHANGED <<auths, rules>> /\ LineageHolds(job[p].binding)
    BY <1>1, <1>2, <1>b DEF VerifyRecord, Refuse, upgrades
  <2>2. job[p].kind = "upgrade"
    BY <1>0, <2>1, KindOfLabel DEF UpgradeLabels
  <2>3. Effective(job[p].binding)
    BY <2>1
    DEF LineageHolds, Effective, ReportInv, UpgradeInv, UpgradeRests, GrantRests, Loaded
  <2> QED
    BY <2>1, <2>2, <2>3 DEF ReportRests, Succeeded, Effective
<1>3. CASE BeginUpgrade(p)
  BY <1>0, <1>3 DEF BeginUpgrade, Begin, Goto
<1>4. CASE ReadsOn(p)
  BY <1>1, <1>4, <1>b, UpgradeReading DEF Finds, UnlockRefused, Refuse
<1>5. CASE MakeAuthDir(p) \/ CreateAuth(p) \/ FillAuth(p) \/ WriteAuthPointer(p)
  BY <1>5, <1>b DEF MakeAuthDir, CreateAuth, FillAuth, WriteAuthPointer
<1>6. ~UpgradeWriteFails(p)
  BY <1>1 DEF UpgradeWriteFails
<1> QED
  BY <1>2, <1>3, <1>4, <1>5, <1>6 DEF UpgradeNext, ReadsOn

\* Reports of migrations and restorations.
LEMMA MigrationReports ==
  ASSUME ReportInv, NEW p \in Procs, MigrationsNext(p), pc'[p] \in Reporting
  PROVE  ReportRests(p)'
<1>0. /\ DOMAIN pc = Procs /\ DOMAIN job = Procs /\ HomeFits /\ WorkRests(p)
      /\ DOMAIN restored = Restorations
  BY DEF ReportInv, TrustInv, HomeFits, CommandsFit, MigrationInv, MigrationRests
<1>1. ~Leave(p)
  BY <1>0 DEF Leave, Goto, Reporting
<1>b. ASSUME NEW l, Step(p, l)
      PROVE  pc'[p] = l /\ job'[p] = job[p]
  BY <1>0, <1>b DEF Step, Goto
<1>g. ASSUME NEW at, NEW l, Goes(p, at, l)
      PROVE  pc'[p] = l
  BY <1>0, <1>g DEF Goes, Goto
<1>k. /\ pc[p] \in {"schema", "advance"} => job[p].kind = "schema"
      /\ pc[p] \in {"restore", "fillRestored"} =>
           job[p].kind = "restore" /\ job[p].id \in Restorations
  BY <1>0, KindOfLabel DEF SchemaLabels, RestoreLabels
<1> USE DEF Reporting
<1>2. CASE SchemaReads(p) \/ Advance(p)
  <2>1. pc[p] \in {"schema", "advance"} /\ Step(p, "ok")
    BY <1>1, <1>2, <1>g DEF SchemaReads, Advance, UnlockRefused, Refuse
  <2> QED
    BY <1>b, <1>k, <2>1 DEF ReportRests, Succeeded
<1>3. CASE RestoreReads(p)
  <2>1. PICK j : j = job[p]
    OBVIOUS
  <2>2. /\ Step(p, "ok") /\ restored[j.id] \notin {Nothing, Torn} /\ restoring[j.id].to = j.to
        /\ pc[p] = "restore" /\ UNCHANGED <<restored, restoring>>
    BY <1>1, <1>3, <1>b, <2>1 DEF RestoreReads, UnlockRefused, Refuse, artifacts
  <2>3. restored[j.id] = "whole" /\ j.kind = "restore" /\ j.id \in Restorations
    BY <1>k, <2>1, <2>2 DEF ReportInv
  <2>4. Restored(j)'
    BY <2>2, <2>3 DEF Restored
  <2> QED
    BY <1>b, <2>1, <2>2, <2>3, <2>4 DEF ReportRests, Succeeded
<1>4. CASE FillRestored(p)
  <2>1. PICK j : j = job[p]
    OBVIOUS
  <2>2. /\ pc[p] = "fillRestored" /\ Step(p, "ok") /\ UNCHANGED restoring
        /\ restored' = [restored EXCEPT ![j.id] = "whole"]
    BY <1>4, <2>1 DEF FillRestored
  <2>3. j.kind = "restore" /\ j.id \in Restorations /\ restoring[j.id].to = j.to
    BY <1>0, <1>k, <2>1, <2>2 DEF WorkRests
  <2>4. Restored(j)'
    BY <1>0, <2>2, <2>3 DEF Restored
  <2> QED
    BY <1>b, <2>1, <2>2, <2>3, <2>4 DEF ReportRests, Succeeded
<1>5. CASE BeginSchema(p) \/ BeginRestore(p)
  BY <1>0, <1>5 DEF BeginSchema, BeginRestore, Begin, Goto
<1>6. CASE CreateFile(p)
  BY <1>1, <1>6, <1>b DEF CreateFile, Stages, Filling, AfterFile, UnlockRefused, Refuse
<1>7. CASE FillFile(p)
  <2>1. PICK s \in Stages : pc[p] = Filling[s] /\ s = StageOf(p)
    BY <1>7 DEF FillFile, StageOf
  <2> QED
    BY <1>7, <1>b, <2>1 DEF FillFile, Stages, AfterFile
<1>8. CASE ReplaceArtifact(p) \/ PrepareRestore(p) \/ FillRestore(p) \/ PutBack(p) \/ RecordRestore(p)
  BY <1>8, <1>b DEF ReplaceArtifact, PrepareRestore, FillRestore, PutBack, RecordRestore
<1>9. ~SchemaWriteFails(p)
  BY <1>1 DEF SchemaWriteFails
<1> QED
  BY <1>2, <1>3, <1>4, <1>5, <1>6, <1>7, <1>8, <1>9 DEF MigrationsNext

LEMMA ReportInvStep ==
  ASSUME ReportInv, [Next]_vars
  PROVE  ReportInv'
<1>0. /\ CommandsFit /\ artifact \in Versions
      /\ \A id \in Personal : Len(snapshots[id]) \in Nat
  BY DEF ReportInv, TrustInv, HomeFits, FilesFit, ProfileIds
<1>1. SUFFICES \A q \in Procs : ReportRests(q)'
  BY TrustInvStep, EloInvStep, UpgradeInvStep, MigrationInvStep, RestorationsStay DEF ReportInv
<1>2. ASSUME NEW p \in Procs, TrustStep(p) \/ EloStep(p) \/ OnboardingStep(p)
      PROVE  \A q \in Procs : ReportRests(q)'
  <2>1. TrustNext(p) \/ EloNext(p) \/ OnboardingNext(p)
    BY <1>2 DEF TrustStep, EloStep, OnboardingStep
  <2>2. Others(p)
    BY <1>0, <2>1, TrustMoves, EloMoves, OnboardingMoves
  <2> QED
    BY <2>1, <2>2, TrustReports, EloReports, OnboardingReports, ReportMovesOn
<1>3. ASSUME NEW p \in Procs, SelectionStep(p) \/ UpgradeStep(p) \/ MigrationStep(p)
      PROVE  \A q \in Procs : ReportRests(q)'
  <2>1. SelectionNext(p) \/ UpgradeNext(p) \/ MigrationsNext(p)
    BY <1>3 DEF SelectionStep, UpgradeStep, MigrationStep
  <2>2. Others(p)
    BY <1>0, <2>1, SelectionMoves, UpgradeMoves, MigrationMoves
  <2> QED
    BY <2>1, <2>2, SelectionReports, UpgradeReports, MigrationReports, ReportMovesOn
<1>4. CASE RuleStep \/ UNCHANGED vars
  <2>1. UNCHANGED <<pc, job>>
    BY <1>4, RuleMoves DEF vars, control
  <2> QED
    BY <2>1, ReportStands
<1> QED
  BY <1>2, <1>3, <1>4 DEF Next

LEMMA ReportsAreTrue ==
  ASSUME ReportInv
  PROVE  SuccessIsTrue
<1>1. SUFFICES ASSUME NEW p \in Procs, pc[p] = "ok"
               PROVE  LET j == job[p] IN
                 CASE j.kind = "install" -> anchor # Nothing /\ j.key \in {Nothing, anchor.catalog}
                   [] j.kind = "enroll" -> release = j.key /\ anchor.catalog # j.key
                   [] j.kind = "onboard" ->
                        /\ anchor.catalog = j.key
                        /\ snapshots[Company][j.seq] = [rev |-> j.rev, catalog |-> j.catalog]
                   [] j.kind = "select" ->
                        Sealed(selection[j.run]) /\ selection[j.run].discovery = j.discovery
                   [] j.kind = "evaluate" ->
                        j.entry \in entries /\ j.entry.base = j.base /\ j.entry.cand = j.cand
                   [] j.kind = "upgrade" ->
                        /\ j.binding \in auths
                        /\ rules[j.binding.seq] = j.binding.rev
                   [] j.kind = "restore" ->
                        restored[j.id] = "whole" /\ restoring[j.id].to = j.to
                   [] j.kind \in {"migrate", "profile", "schema"} -> TRUE
  BY DEF SuccessIsTrue
<1>2. PICK j : j = job[p]
  OBVIOUS
<1>3. Succeeded(j)
  BY <1>1, <1>2 DEF ReportInv, ReportRests
<1>4. j.kind \in {"install", "enroll", "onboard", "select", "evaluate", "upgrade", "restore",
                  "migrate", "profile", "schema"}
  BY <1>1, <1>2 DEF ReportInv, TrustInv, HomeFits, CommandsFit, Fits, InstallFits, EnrollFits,
                    OnboardFits, ProfileFits, SelectFits, EvaluateFits, MigrateFits, UpgradeFits,
                    SchemaFits, RestoreFits
<1>5. CASE j.kind = "install"
  BY <1>2, <1>3, <1>5 DEF Succeeded, Installed
<1>6. CASE j.kind = "enroll"
  BY <1>2, <1>3, <1>6 DEF Succeeded, Enrolled
<1>7. CASE j.kind = "onboard"
  BY <1>2, <1>3, <1>7 DEF Succeeded, Onboarded
<1>8. CASE j.kind = "select"
  BY <1>2, <1>3, <1>8 DEF Succeeded, RunSelected
<1>9. CASE j.kind = "evaluate"
  BY <1>2, <1>3, <1>9 DEF Succeeded, Evaluated
<1>10. CASE j.kind = "upgrade"
  BY <1>2, <1>3, <1>10 DEF Succeeded, Effective
<1>11. CASE j.kind = "restore"
  BY <1>2, <1>3, <1>11 DEF Succeeded, Restored
<1>12. CASE j.kind \in {"migrate", "profile", "schema"}
  BY <1>2, <1>12
<1> QED
  BY <1>4, <1>5, <1>6, <1>7, <1>8, <1>9, <1>10, <1>11, <1>12

\* A command that reports success is right about the home, and stays right, for any
\* number of processes, commands and faults: what policy.py, release.py,
\* onboarding.py, personal_selection.py, elo.py, evaluator_upgrade.py and
\* migrations.py report is in place whatever ran beside them.
THEOREM SuccessIsReportedTruly == Spec => []SuccessIsTrue
<1>1. Init => ReportInv
  <2>1. ASSUME Init
        PROVE  ReportInv
    <3>1. UpgradeInv /\ MigrationInv /\ SelectionInv
      BY <2>1, HomeInits
    <3>2. EloInv
      BY <2>1, <3>1, FS_EmptySet
      DEF SelectionInv, TrustInv, Init, TrustInit, EloInit, EloInv, EloRests, LockedLabels,
          EntriesRest, AwardedOnce
    <3>3. \A p \in Procs : ReportRests(p)
      BY <2>1 DEF Init, TrustInit, ReportRests
    <3>4. \A r \in Restorations : restored[r] \in {Nothing, Torn, "whole"}
      BY <2>1 DEF Init, MigrationsInit
    <3> QED
      BY <3>1, <3>2, <3>3, <3>4 DEF ReportInv, SelectionInv
  <2> QED
    BY <2>1
<1> QED
  BY <1>1, ReportInvStep, ReportsAreTrue, PTL DEF Spec

-----------------------------------------------------------------------------
(* Types, bounds and the life of commands.                                 *)

\* A step stays within the bounds, and a command that ends leaves nothing behind.
Counts ==
  /\ UNCHANGED agenda
  /\ UNCHANGED commands \/ (commands < agenda.most /\ commands' = commands + 1)
  /\ UNCHANGED faults \/ (faults < MaxFaults /\ faults' = faults + 1)

Clears(p) == pc'[p] = "idle" => job'[p] = NoCommand

LEMMA StepCounts ==
  ASSUME CommandsFit, NEW p \in Procs, NEW l, l # "idle", Step(p, l)
  PROVE  Counts /\ Clears(p)
  BY DEF CommandsFit, Step, Goto, Counts, Clears

LEMMA GotoClears ==
  ASSUME CommandsFit, NEW p \in Procs, NEW l, l # "idle", Goto(p, l)
  PROVE  Clears(p)
  BY DEF CommandsFit, Goto, Clears

LEMMA LeaveClears ==
  ASSUME CommandsFit, NEW p \in Procs, Leave(p)
  PROVE  Clears(p)
  BY DEF CommandsFit, Leave, Clears

LEMMA RefuseCounts ==
  ASSUME CommandsFit, NEW p \in Procs, Refuse(p)
  PROVE  Counts /\ Clears(p)
  BY LeaveClears DEF Refuse, Counts

LEMMA BeginCounts ==
  ASSUME CommandsFit, NEW p \in Procs, NEW l, l # "idle", NEW j, Begin(p, j, l)
  PROVE  Counts /\ Clears(p)
  BY GotoClears DEF Begin, Counts

LEMMA FaultCounts ==
  ASSUME CommandsFit, NEW p \in Procs, Leave(p), UNCHANGED <<agenda, commands>>,
         faults < MaxFaults, faults' = faults + 1
  PROVE  Counts /\ Clears(p)
  BY LeaveClears DEF Counts

LEMMA TrustCounts ==
  ASSUME CommandsFit, NEW p \in Procs, TrustNext(p)
  PROVE  Counts /\ Clears(p)
<1>1. CASE BeginInstall(p) \/ BeginEnroll(p)
  BY <1>1, BeginCounts DEF BeginInstall, BeginEnroll
<1>2. CASE TrustWriteFails(p) \/ Crash(p)
  BY <1>2, FaultCounts DEF TrustWriteFails, Crash
<1>3. CASE InstallReads(p) \/ StageTrust(p) \/ PromoteTrust(p) \/ PromotionLost(p) \/ VerifyTrust(p)
  <2>1. AfterTrust(p) # "idle"
    BY DEF AfterTrust
  <2> QED
    BY <1>3, <2>1, StepCounts, RefuseCounts
    DEF InstallReads, StageTrust, PromoteTrust, PromotionLost, VerifyTrust, AnchorState, TrustState
<1>4. CASE PersonalReads(p) \/ AddCapability(p) \/ FillCapability(p)
  BY <1>4, StepCounts, RefuseCounts DEF PersonalReads, AddCapability, FillCapability, TrustState
<1>5. CASE EnrollReads(p) \/ PromoteRelease(p) \/ VerifyRelease(p) \/ Return(p)
  BY <1>5, StepCounts, RefuseCounts DEF EnrollReads, PromoteRelease, VerifyRelease, Return
<1> QED
  BY <1>1, <1>2, <1>3, <1>4, <1>5 DEF TrustNext

LEMMA EloCounts ==
  ASSUME CommandsFit, NEW p \in Procs, EloNext(p)
  PROVE  Counts /\ Clears(p) /\ eloLock' \in {eloLock, p, Nothing}
<1> USE DEF history
<1>1. CASE BeginEvaluate(p) \/ BeginMigrate(p)
  BY <1>1, BeginCounts DEF BeginEvaluate, BeginMigrate
<1>2. CASE EloWriteFails(p)
  BY <1>2, FaultCounts DEF EloWriteFails, Unlocks
<1>3. CASE EvaluateChecks(p) \/ LockReceipt(p) \/ LockRefused(p) \/ EvaluateReads(p)
  BY <1>3, StepCounts, RefuseCounts
  DEF EvaluateChecks, LockReceipt, LockRefused, EvaluateReads, RefuseLocked, Unlocks
<1>4. CASE RecoverHead(p)
  BY <1>4, GotoClears, LeaveClears DEF RecoverHead, Unlocks, Counts
<1>5. CASE EvaluateDecides(p)
  <2>1. \/ Goto(p, "ok") /\ Unlocks(p) /\ UNCHANGED <<agenda, commands, faults>>
        \/ Goto(p, "createEntry") /\ UNCHANGED <<eloLock, agenda, commands, faults>>
        \/ RefuseLocked(p)
    BY <1>5 DEF EvaluateDecides
  <2> QED
    BY <2>1, GotoClears, RefuseCounts DEF RefuseLocked, Unlocks, Counts
<1>6. CASE CreateEntry(p) \/ FillEntry(p) \/ MoveHead(p) \/ EvaluateVerifies(p)
  BY <1>6, StepCounts, RefuseCounts DEF CreateEntry, FillEntry, MoveHead, EvaluateVerifies, Unlocks
<1>7. CASE CreateReceipt(p)
  BY <1>7, GotoClears, RefuseCounts DEF CreateReceipt, Counts
<1>8. CASE MigrateReads(p) \/ UnlinkReceipt(p) \/ FillReceipt(p) \/ MigrateMarker(p)
           \/ UnlinkMarker(p) \/ CreateMarker(p) \/ FillMarker(p)
  BY <1>8, StepCounts, RefuseCounts
  DEF MigrateReads, UnlinkReceipt, FillReceipt, MigrateMarker, UnlinkMarker, CreateMarker,
      FillMarker
<1>9. CASE MigrateHead(p) \/ UnlinkHead(p) \/ CreateHead(p) \/ FillHead(p) \/ VerifyGenesis(p)
  BY <1>9, StepCounts, RefuseCounts
  DEF MigrateHead, UnlinkHead, CreateHead, FillHead, VerifyGenesis
<1> QED
  BY <1>1, <1>2, <1>3, <1>4, <1>5, <1>6, <1>7, <1>8, <1>9 DEF EloNext

LEMMA OnboardingCounts ==
  ASSUME CommandsFit, NEW p \in Procs, OnboardingNext(p)
  PROVE  /\ Counts /\ Clears(p)
         /\ UNCHANGED profileLock \/ profileLock' = [profileLock EXCEPT ![Company] = p]
<1> USE DEF catalogs
<1>1. CASE BeginProfile(p) \/ BeginOnboard(p)
  BY <1>1, BeginCounts DEF BeginProfile, BeginOnboard
<1>2. CASE IngestDies(p) \/ RenameHomeFails(p)
  BY <1>2, FaultCounts DEF IngestDies, RenameHomeFails
<1>3. CASE LockProfile(p)
  <2>1. job[p].kind # "idle"
    BY <1>3
    DEF LockProfile, CommandsFit, Fits, InstallFits, EnrollFits, OnboardFits, ProfileFits,
        SelectFits, EvaluateFits, MigrateFits, UpgradeFits, SchemaFits, RestoreFits
  <2> QED
    BY <1>3, <2>1, StepCounts DEF LockProfile
<1>4. CASE RemoveEmptyHome(p)
  BY <1>4, GotoClears, RefuseCounts DEF RemoveEmptyHome, Counts
<1>5. CASE InstallProfile(p)
  <2>1. Fits(pc[p], job[p]) /\ pc[p] = "profile"
    BY <1>5 DEF InstallProfile, CommandsFit
  <2>2. AfterProfile(p) # "idle"
    BY <2>1
    DEF AfterProfile, Fits, InstallFits, EnrollFits, OnboardFits, ProfileFits, SelectFits,
        EvaluateFits, MigrateFits, UpgradeFits, SchemaFits, RestoreFits, TrustLabels,
        EnrollLabels, EvaluateLabels, MigrateLabels, UpgradeLabels, FileLabels, SchemaLabels,
        RestoreLabels
  <2> QED
    BY <1>5, <2>2, StepCounts, RefuseCounts DEF InstallProfile
<1>6. CASE Ingest(p)
  <2>1. AfterIngest(p) # "idle"
    BY DEF AfterIngest
  <2> QED
    BY <1>6, <2>1, StepCounts, RefuseCounts DEF Ingest
<1>7. CASE LockTimesOut(p) \/ OnboardReads(p) \/ RenameHome(p) \/ RenameHomeRefused(p) \/ VerifyHome(p)
  BY <1>7, StepCounts, RefuseCounts
  DEF LockTimesOut, OnboardReads, RenameHome, RenameHomeRefused, VerifyHome, AnchorState, TrustState
<1> QED
  BY <1>1, <1>2, <1>3, <1>4, <1>5, <1>6, <1>7 DEF OnboardingNext

LEMMA SelectionCounts ==
  ASSUME CommandsFit, NEW p \in Procs, SelectionNext(p)
  PROVE  Counts /\ Clears(p) /\ UNCHANGED profileLock
<1> USE DEF catalogs
<1>1. CASE BeginSelect(p)
  BY <1>1, BeginCounts DEF BeginSelect
<1>2. CASE SelectionWriteFails(p)
  BY <1>2, FaultCounts DEF SelectionWriteFails
<1>3. CASE Approve(p)
  BY <1>3, GotoClears, RefuseCounts DEF Approve, Counts
<1>4. CASE ExistingRetry(p) \/ CreateBinding(p) \/ FillBinding(p) \/ CreateRecord(p) \/ FillRecord(p)
  BY <1>4, StepCounts, RefuseCounts
  DEF ExistingRetry, CreateBinding, FillBinding, CreateRecord, FillRecord
<1> QED
  BY <1>1, <1>2, <1>3, <1>4 DEF SelectionNext

LEMMA UpgradeCounts ==
  ASSUME CommandsFit, NEW p \in Procs, UpgradeNext(p)
  PROVE  Counts /\ Clears(p) /\ (UNCHANGED profileLock \/ Unlock)
<1> USE DEF catalogs
<1>1. CASE BeginUpgrade(p)
  BY <1>1, BeginCounts DEF BeginUpgrade
<1>2. CASE UpgradeWriteFails(p)
  BY <1>2, FaultCounts DEF UpgradeWriteFails
<1>3. CASE ReadsOn(p)
  <2>1. ASSUME NEW l, Step(p, l), Finds(pc[p], l, job[p].binding)
        PROVE  Counts /\ Clears(p)
    <3>1. l # "idle"
      BY <2>1 DEF Finds
    <3> QED
      BY <2>1, <3>1, StepCounts
  <2>2. UnlockRefused(p) => Counts /\ Clears(p) /\ Unlock
    BY RefuseCounts DEF UnlockRefused
  <2> QED
    BY <1>3, <2>1, <2>2, UpgradeReading
<1>4. CASE MakeAuthDir(p) \/ CreateAuth(p) \/ FillAuth(p) \/ WriteAuthPointer(p) \/ VerifyRecord(p)
  BY <1>4, StepCounts, RefuseCounts
  DEF MakeAuthDir, CreateAuth, FillAuth, WriteAuthPointer, VerifyRecord
<1> QED
  BY <1>1, <1>2, <1>3, <1>4 DEF UpgradeNext, ReadsOn

LEMMA MigrationCounts ==
  ASSUME CommandsFit, NEW p \in Procs, MigrationsNext(p)
  PROVE  Counts /\ Clears(p) /\ (UNCHANGED profileLock \/ Unlock)
<1> USE DEF catalogs
<1>0. ASSUME NEW v, NEW l, l # "idle", Goes(p, v, l)
      PROVE  Counts /\ Clears(p)
  BY <1>0, GotoClears DEF Goes, Counts
<1>1. CASE BeginSchema(p) \/ BeginRestore(p)
  BY <1>1, BeginCounts DEF BeginSchema, BeginRestore
<1>2. CASE SchemaWriteFails(p)
  BY <1>2, FaultCounts DEF SchemaWriteFails
<1>3. CASE SchemaReads(p) \/ Advance(p)
  BY <1>3, <1>0, StepCounts, RefuseCounts DEF SchemaReads, Advance, UnlockRefused
<1>4. CASE CreateFile(p)
  <2>1. Filling[pc[p]] # "idle" /\ AfterFile[pc[p]] # "idle"
    BY <1>4 DEF CreateFile, Stages, Filling, AfterFile
  <2> QED
    BY <1>4, <2>1, StepCounts, RefuseCounts DEF CreateFile, UnlockRefused
<1>5. CASE FillFile(p)
  <2>1. \E s \in Stages : Filling[s] = pc[p]
    BY <1>5 DEF FillFile
  <2>2. StageOf(p) \in Stages
    BY <2>1 DEF StageOf
  <2>3. AfterFile[StageOf(p)] # "idle"
    BY <2>2 DEF Stages, AfterFile
  <2> QED
    BY <1>5, <2>3, StepCounts DEF FillFile
<1>6. CASE ReplaceArtifact(p) \/ RestoreReads(p) \/ PrepareRestore(p) \/ FillRestore(p)
  BY <1>6, StepCounts, RefuseCounts
  DEF ReplaceArtifact, RestoreReads, PrepareRestore, FillRestore, UnlockRefused
<1>7. CASE PutBack(p) \/ RecordRestore(p) \/ FillRestored(p)
  BY <1>7, StepCounts, RefuseCounts DEF PutBack, RecordRestore, FillRestored
<1> QED
  BY <1>1, <1>2, <1>3, <1>4, <1>5, <1>6, <1>7 DEF MigrationsNext

\* Commands, locks and bounds.
ControlRests ==
  /\ \A p \in Procs : pc[p] = "idle" => job[p] = NoCommand
  /\ eloLock \in Procs \cup {Nothing}
  /\ profileLock \in [ProfileIds -> Procs \cup {Nothing}]
  /\ agenda \in Agendas /\ commands \in 0 .. agenda.most /\ faults \in 0 .. MaxFaults

LEMMA ControlKept ==
  ASSUME HomeFits, ControlRests, [Next]_vars
  PROVE  ControlRests'
<1>0. /\ CommandsFit /\ \A id \in Personal : Len(snapshots[id]) \in Nat
      /\ MaxFaults \in Nat /\ agenda.most \in Nat /\ Company \in ProfileIds
  BY TrustAssumption DEF HomeFits, FilesFit, ProfileIds, ControlRests
<1>1. ASSUME NEW p \in Procs, Others(p), Clears(p), Counts, eloLock' \in {eloLock, p, Nothing},
             profileLock' \in [ProfileIds -> Procs \cup {Nothing}]
      PROVE  ControlRests'
  <2>1. \A q \in Procs : pc'[q] = "idle" => job'[q] = NoCommand
    BY <1>1 DEF ControlRests, Others, Clears
  <2>2. agenda' \in Agendas /\ commands' \in 0 .. agenda'.most /\ faults' \in 0 .. MaxFaults
    BY <1>0, <1>1 DEF ControlRests, Counts
  <2> QED
    BY <1>1, <2>1, <2>2 DEF ControlRests
<1>2. ASSUME NEW p \in Procs,
             \/ UNCHANGED profileLock \/ Unlock \/ ProfileLockLeft
             \/ profileLock' = [profileLock EXCEPT ![Company] = p]
      PROVE  profileLock' \in [ProfileIds -> Procs \cup {Nothing}]
  BY <1>0, <1>2 DEF ControlRests, Unlock, ProfileLockLeft
<1>3. ASSUME NEW p \in Procs, TrustStep(p)
      PROVE  ControlRests'
  BY <1>0, <1>1, <1>2, <1>3, TrustMoves, TrustCounts DEF TrustStep, EloLeft
<1>4. ASSUME NEW p \in Procs, EloStep(p)
      PROVE  ControlRests'
  BY <1>0, <1>1, <1>2, <1>4, EloMoves, EloCounts DEF EloStep, catalogs
<1>5. ASSUME NEW p \in Procs, OnboardingStep(p)
      PROVE  ControlRests'
  BY <1>0, <1>1, <1>2, <1>5, OnboardingMoves, OnboardingCounts DEF OnboardingStep, history
<1>6. ASSUME NEW p \in Procs, SelectionStep(p)
      PROVE  ControlRests'
  BY <1>0, <1>1, <1>2, <1>6, SelectionMoves, SelectionCounts DEF SelectionStep, history
<1>7. ASSUME NEW p \in Procs, UpgradeStep(p)
      PROVE  ControlRests'
  BY <1>0, <1>1, <1>2, <1>7, UpgradeMoves, UpgradeCounts DEF UpgradeStep, history
<1>8. ASSUME NEW p \in Procs, MigrationStep(p)
      PROVE  ControlRests'
  BY <1>0, <1>1, <1>2, <1>8, MigrationMoves, MigrationCounts
  DEF MigrationStep, history, HomeFits, FilesFit
<1>9. CASE RuleStep \/ UNCHANGED vars
  <2>1. UNCHANGED <<pc, job, agenda, commands, faults, profileLock, eloLock>>
    BY <1>9, RuleMoves DEF vars, control, catalogs, history
  <2> QED
    BY <2>1 DEF ControlRests
<1> QED
  BY <1>3, <1>4, <1>5, <1>6, <1>7, <1>8, <1>9 DEF Next

\* What the files of the trust directory hold.
TrustHolds ==
  /\ release \in Keys \cup {Nothing}
  /\ capability \in Capabilities \cup {Nothing, Torn}
  /\ debris \subseteq {"home", "trust"}

LEMMA CapabilityFits ==
  ASSUME NEW a \in Anchors
  PROVE  Capability(a) \in Capabilities
  BY DEF Capabilities

LEMMA TrustHoldsOn ==
  ASSUME TrustInv, TrustHolds, NEW p \in Procs, TrustNext(p) \/ OnboardingNext(p)
  PROVE  TrustHolds'
<1> USE DEF TrustHolds, TrustInv
<1>1. CASE PromoteTrust(p) \/ RenameHome(p)
  <2>1. PICK a \in Anchors : Places(p, a)
    BY <1>1, AnchorsStaged DEF PromoteTrust, RenameHome
  <2>2. capability' \in Capabilities \cup {Nothing} /\ UNCHANGED <<release, debris>>
    BY <1>1, <2>1, CapabilityFits DEF Places, PromoteTrust, RenameHome
  <2> QED
    BY <2>2
<1>2. CASE FillCapability(p)
  <2>1. anchor \in Anchors /\ capability' = Capability(anchor) /\ UNCHANGED <<release, debris>>
    BY <1>2 DEF FillCapability, TrustRests
  <2> QED
    BY <2>1, CapabilityFits
<1>3. CASE PromoteRelease(p)
  <2>1. job[p].key \in Keys
    BY <1>3
    DEF PromoteRelease, HomeFits, CommandsFit, Fits, InstallFits, EnrollFits, OnboardFits,
        ProfileFits, SelectFits, EvaluateFits, MigrateFits, UpgradeFits, SchemaFits, RestoreFits,
        TrustLabels, EnrollLabels, OnboardLabels, PersonalLabels, SelectLabels, EvaluateLabels,
        MigrateLabels, UpgradeLabels, FileLabels, SchemaLabels, RestoreLabels
  <2> QED
    BY <1>3, <2>1 DEF PromoteRelease
<1>4. CASE AddCapability(p) \/ TrustWriteFails(p) \/ Crash(p)
  BY <1>4 DEF AddCapability, TrustWriteFails, Crash
<1>5. CASE UNCHANGED <<release, capability, debris>>
  BY <1>5
<1> QED
  BY <1>1, <1>2, <1>3, <1>4, <1>5
  DEF TrustNext, BeginInstall, InstallReads, StageTrust, PromotionLost, VerifyTrust, PersonalReads,
      BeginEnroll, EnrollReads, VerifyRelease, Return, OnboardingNext, LockProfile, LockTimesOut,
      BeginProfile, InstallProfile, Ingest, IngestDies, BeginOnboard, OnboardReads,
      RemoveEmptyHome, RenameHomeRefused, RenameHomeFails, VerifyHome, trust

\* What the seals of personal profiles hold.
BindingsHold == \A i \in Personal : binding[i] \in {Nothing, Torn, i}

LEMMA BindingsHoldOn ==
  ASSUME TrustInv, BindingsHold, NEW p \in Procs, SelectionNext(p)
  PROVE  BindingsHold'
<1>1. ASSUME pc[p] \in SelectLabels
      PROVE  job[p].id \in Personal /\ DOMAIN binding = Personal
  BY <1>1, SelectLabel DEF TrustInv, SealRests
<1>2. CASE CreateBinding(p) \/ FillBinding(p) \/ SelectionWriteFails(p)
  <2>1. pc[p] \in SelectLabels
    BY <1>2 DEF CreateBinding, FillBinding, SelectionWriteFails, SelectLabels
  <2>2. \/ UNCHANGED binding
        \/ binding' = [binding EXCEPT ![job[p].id] = Torn]
        \/ binding' = [binding EXCEPT ![job[p].id] = job[p].id]
        \/ binding' = [binding EXCEPT ![job[p].id] = Nothing]
    BY <1>2 DEF CreateBinding, FillBinding, SelectionWriteFails
  <2> QED
    BY <1>1, <2>1, <2>2 DEF BindingsHold
<1>3. CASE UNCHANGED binding
  BY <1>3 DEF BindingsHold
<1> QED
  BY <1>2, <1>3
  DEF SelectionNext, BeginSelect, ExistingRetry, Approve, CreateRecord, FillRecord, selections

\* The pointer to an authorization is never ahead of the record.
PointersHold == auths \subseteq Bindings /\ authPointer \in auths \cup {Nothing}

LEMMA PointersHoldOn ==
  ASSUME UpgradeInv, PointersHold, NEW p \in Procs, UpgradeNext(p)
  PROVE  PointersHold'
<1>1. CASE FillAuth(p)
  <2>1. job[p].binding \in Bindings
    BY <1>1
    DEF FillAuth, UpgradeInv, LockInv, HomeFits, CommandsFit, Fits, InstallFits, EnrollFits,
        OnboardFits, ProfileFits, SelectFits, EvaluateFits, MigrateFits, UpgradeFits, SchemaFits,
        RestoreFits, TrustLabels, EnrollLabels, OnboardLabels, PersonalLabels, SelectLabels,
        EvaluateLabels, MigrateLabels, UpgradeLabels, FileLabels, SchemaLabels, RestoreLabels
  <2> QED
    BY <1>1, <2>1 DEF FillAuth, PointersHold
<1>2. CASE WriteAuthPointer(p)
  <2>1. job[p].binding \in auths
    BY <1>2 DEF WriteAuthPointer, UpgradeInv, UpgradeRests, GrantRests, Loaded
  <2> QED
    BY <1>2, <2>1 DEF WriteAuthPointer, PointersHold
<1>3. CASE ReadsOn(p)
  BY <1>3, UpgradeReading DEF upgrades, PointersHold
<1> QED
  BY <1>1, <1>2, <1>3
  DEF UpgradeNext, ReadsOn, BeginUpgrade, MakeAuthDir, CreateAuth, VerifyRecord, UpgradeWriteFails,
      upgrades, PointersHold

\* All that HomeInv says beside the invariants of trust and of the Elo history.
TypesRest == ControlRests /\ TrustHolds /\ BindingsHold /\ PointersHold

LEMMA TypesKept ==
  ASSUME TrustInv, UpgradeInv, TypesRest, [Next]_vars
  PROVE  TypesRest'
<1> USE DEF TypesRest, TrustInv
<1>0. ControlRests'
  BY ControlKept
<1>1. ASSUME UNCHANGED <<release, capability, debris>>
      PROVE  TrustHolds'
  BY <1>1 DEF TrustHolds
<1>2. ASSUME UNCHANGED binding
      PROVE  BindingsHold'
  BY <1>2 DEF BindingsHold
<1>3. ASSUME UNCHANGED <<auths, authPointer>>
      PROVE  PointersHold'
  BY <1>3 DEF PointersHold
<1>4. ASSUME NEW p \in Procs, TrustStep(p)
      PROVE  TrustHolds' /\ BindingsHold' /\ PointersHold'
  BY <1>2, <1>3, <1>4, TrustHoldsOn DEF TrustStep, selections, upgrades
<1>5. ASSUME NEW p \in Procs, EloStep(p)
      PROVE  TrustHolds' /\ BindingsHold' /\ PointersHold'
  BY <1>1, <1>2, <1>3, <1>5, TrustUntouched DEF EloStep, selections, upgrades
<1>6. ASSUME NEW p \in Procs, OnboardingStep(p)
      PROVE  TrustHolds' /\ BindingsHold' /\ PointersHold'
  BY <1>2, <1>3, <1>6, TrustHoldsOn DEF OnboardingStep, selections, upgrades
<1>7. ASSUME NEW p \in Procs, SelectionStep(p)
      PROVE  TrustHolds' /\ BindingsHold' /\ PointersHold'
  BY <1>1, <1>3, <1>7, TrustUntouched, BindingsHoldOn DEF SelectionStep, upgrades
<1>8. ASSUME NEW p \in Procs, UpgradeStep(p)
      PROVE  TrustHolds' /\ BindingsHold' /\ PointersHold'
  BY <1>1, <1>2, <1>8, TrustUntouched, PointersHoldOn DEF UpgradeStep, selections
<1>9. ASSUME NEW p \in Procs, MigrationStep(p)
      PROVE  TrustHolds' /\ BindingsHold' /\ PointersHold'
  BY <1>1, <1>2, <1>3, <1>9, TrustUntouched DEF MigrationStep, selections, upgrades
<1>10. CASE RuleStep \/ UNCHANGED vars
  <2>1. UNCHANGED <<release, capability, debris, binding, auths, authPointer>>
    <3>1. CASE RuleStep
      BY <3>1, RuleMoves DEF control, trust, selections, RuleStep, AdvanceRules, RulesExpire,
                             authorization
    <3>2. CASE UNCHANGED vars
      BY <3>2 DEF vars, control, trust, selections, upgrades
    <3> QED
      BY <1>10, <3>1, <3>2
  <2> QED
    BY <1>0, <1>1, <1>2, <1>3, <2>1
<1> QED
  BY <1>0, <1>4, <1>5, <1>6, <1>7, <1>8, <1>9, <1>10 DEF Next

LEMMA TypesAlways == Spec => []TypesRest
<1>1. Init => TypesRest
  <2>1. Init => ControlRests
    BY TrustAssumption DEF Init, TrustInit, EloInit, OnboardingInit, ControlRests, NoCommand
  <2>2. Init => TrustHolds /\ BindingsHold /\ PointersHold
    BY DEF Init, TrustInit, SelectionInit, UpgradeInit, TrustHolds, BindingsHold, PointersHold
  <2> QED
    BY <2>1, <2>2 DEF TypesRest
<1>2. TrustInv /\ UpgradeInv /\ TypesRest /\ [Next]_vars => TypesRest'
  BY TypesKept
<1>3. Init => UpgradeInv
  BY HomeInits
<1>4. UpgradeInv /\ [Next]_vars => UpgradeInv'
  BY UpgradeInvStep
<1> QED
  BY <1>1, <1>2, <1>3, <1>4, TrustInvAlways, PTL DEF Spec

\* Every file of a home holds what its writers put there: authorities and capabilities
\* of this home, revisions of the profile that they are kept for, a pointer to a record
\* that exists, scores between the least and the greatest; a process between commands
\* holds nothing, and no bound is passed (policy.py, elo.py, profile.py,
\* personal_selection.py, evaluator_upgrade.py and migrations.py, after every step of
\* any number of commands).
THEOREM HomeIsWellFormed == Spec => []HomeInv
<1>1. TrustInv /\ EloInv /\ TypesRest => HomeInv
  <2> SUFFICES ASSUME TrustInv, EloInv, TypesRest
               PROVE  Anchored /\ Controlled /\ Filed
    BY DEF HomeInv
  <2>1. Anchored
    BY DEF Anchored, TrustInv, TrustRests, TypesRest, TrustHolds
  <2>2. Controlled
    <3>1. \A p \in Procs : pc[p] # "idle" => job[p] # NoCommand
      BY DEF TrustInv, HomeFits, CommandsFit, Fits, InstallFits, EnrollFits, OnboardFits,
             ProfileFits, SelectFits, EvaluateFits, MigrateFits, UpgradeFits, SchemaFits,
             RestoreFits, NoCommand
    <3> QED
      BY <3>1 DEF Controlled, TrustInv, HomeFits, CommandsFit, TypesRest, ControlRests
  <2>3. ASSUME NEW i \in ProfileIds
        PROVE  /\ profile[i] \in RevisionsOf(i) \cup {Nothing}
               /\ \A k \in DOMAIN snapshots[i] : snapshots[i][k].rev \in RevisionsOf(i)
    <3>1. snapshots[i] \in Seq(SnapshotsOf(i)) /\ profile[i] \in RevisionsOf(i) \cup {Nothing}
      BY DEF TrustInv, HomeFits, FilesFit
    <3>2. \A k \in DOMAIN snapshots[i] : snapshots[i][k] \in SnapshotsOf(i)
      BY <3>1
    <3> QED
      BY <3>1, <3>2 DEF SnapshotsOf
  <2>4. Filed
    BY <2>3 DEF Filed, TrustInv, HomeFits, FilesFit, TypesRest, BindingsHold, PointersHold,
                EloInv, EntriesRest
  <2> QED
    BY <2>1, <2>2, <2>4
<1> QED
  BY <1>1, TrustInvAlways, EloInvAlways, TypesAlways, PTL

-----------------------------------------------------------------------------
(* No command goes round for ever.                                         *)

\* The versions that a migration has still to come.
Ahead(j) == IF j.kind = "schema" THEN 8 * (CurrentVersion - j.at) ELSE 0

LEMMA AheadFits ==
  ASSUME CommandsFit, NEW p \in Procs, pc[p] # "idle"
  PROVE  Ahead(job[p]) \in 0 .. 8 * CurrentVersion
<1>1. Fits(pc[p], job[p])
  BY DEF CommandsFit
<1>2. job[p].kind = "schema" => job[p].at \in 0 .. CurrentVersion
  BY <1>1, VersionAssumption
  DEF Versions, Fits, InstallFits, EnrollFits, OnboardFits, ProfileFits, SelectFits, EvaluateFits,
      MigrateFits, UpgradeFits, SchemaFits, RestoreFits
<1> QED
  BY <1>2, VersionAssumption DEF Ahead

\* A step to a lower label, and a step that follows the first look at the trust.
LEMMA StepRunsDown ==
  ASSUME CommandsFit, NEW p \in Procs, pc[p] # "idle", NEW l, Step(p, l), l # "personal",
         Remaining[l] \in Int, Remaining[pc[p]] \in Int, Remaining[l] < Remaining[pc[p]]
  PROVE  StepsLeft(p)' < StepsLeft(p)
<1>1. pc'[p] = l /\ job'[p] = job[p]
  BY DEF Step, Goto, CommandsFit
<1>2. Ahead(job[p]) \in Int
  BY AheadFits, VersionAssumption
<1>3. StepsLeft(p)' = Remaining[l] + Ahead(job[p])
  BY <1>1, <1>2 DEF StepsLeft, Ahead
<1>4. StepsLeft(p) \in Int /\ StepsLeft(p) >= Remaining[pc[p]] + Ahead(job[p])
  BY <1>2 DEF StepsLeft, Ahead
<1> QED
  BY <1>2, <1>3, <1>4

LEMMA RefusalRunsDown ==
  ASSUME CommandsFit, NEW p \in Procs, Leave(p)
  PROVE  pc'[p] = "idle"
  BY DEF Leave, Goto, CommandsFit

\* The command goes on with another job that leaves as many versions to come.
LEMMA JobRunsDown ==
  ASSUME CommandsFit, NEW p \in Procs, pc[p] # "idle", NEW l, NEW j, Goto(p, l),
         job' = [job EXCEPT ![p] = j], l # "personal",
         Remaining[l] \in Int, Remaining[pc[p]] \in Int, Ahead(j) \in Int,
         Remaining[l] + Ahead(j) < Remaining[pc[p]] + Ahead(job[p])
  PROVE  StepsLeft(p)' < StepsLeft(p)
<1>1. pc'[p] = l /\ job'[p] = j
  BY DEF Goto, CommandsFit
<1>2. Ahead(job[p]) \in Int
  BY AheadFits, VersionAssumption
<1>3. StepsLeft(p)' = Remaining[l] + Ahead(j)
  BY <1>1 DEF StepsLeft, Ahead
<1>4. StepsLeft(p) \in Int /\ StepsLeft(p) >= Remaining[pc[p]] + Ahead(job[p])
  BY <1>2 DEF StepsLeft, Ahead
<1> QED
  BY <1>2, <1>3, <1>4

\* A lost race leads back to the first look at the trust, which finds one now.
LEMMA RaceRunsDown ==
  ASSUME CommandsFit, NEW p \in Procs, pc[p] \in {"existing", "promoteTrust"}, Step(p, "personal"),
         UNCHANGED anchor, pc[p] = "promoteTrust" => anchor # Nothing
  PROVE  StepsLeft(p)' < StepsLeft(p)
<1>1. pc'[p] = "personal" /\ job'[p] = job[p]
  BY DEF Step, Goto, CommandsFit
<1>2. Ahead(job[p]) \in Int
  BY AheadFits, VersionAssumption
<1>3. StepsLeft(p)' = 11 + Ahead(job[p]) + (IF anchor = Nothing THEN 3 ELSE 0)
  BY <1>1, <1>2 DEF StepsLeft, Ahead, Remaining
<1>4. StepsLeft(p) = (IF pc[p] = "existing" THEN 15 ELSE 12) + Ahead(job[p])
  BY <1>2 DEF StepsLeft, Ahead, Remaining
<1> QED
  BY <1>2, <1>3, <1>4

LEMMA PersonalRunsDown ==
  ASSUME CommandsFit, NEW p \in Procs, PersonalReads(p)
  PROVE  StepsLeft(p)' < StepsLeft(p)
<1>1. pc[p] = "personal"
  BY DEF PersonalReads
<1>2. CASE TrustState = "absent"
  <2>1. pc'[p] = "stageTrust" /\ job'[p] = job[p] /\ anchor = Nothing
    BY <1>2 DEF PersonalReads, Step, Goto, CommandsFit, TrustState
  <2>2. Ahead(job[p]) \in Int
    BY <1>1, AheadFits, VersionAssumption
  <2>3. StepsLeft(p)' = 13 + Ahead(job[p]) /\ StepsLeft(p) = 14 + Ahead(job[p])
    BY <1>1, <2>1, <2>2 DEF StepsLeft, Ahead, Remaining
  <2> QED
    BY <2>2, <2>3
<1>3. CASE TrustState # "absent"
  <2>1. Step(p, "addCapability") \/ Step(p, "verifyTrust")
    BY <1>3 DEF PersonalReads, TrustState
  <2> QED
    BY <1>1, <2>1, StepRunsDown DEF Remaining
<1> QED
  BY <1>2, <1>3

LEMMA TrustRunsDown ==
  ASSUME CommandsFit, NEW p \in Procs, TrustNext(p), pc[p] # "idle"
  PROVE  pc'[p] = "idle" \/ StepsLeft(p)' < StepsLeft(p)
<1> USE DEF Remaining
<1>0. AnchorState \in {"absent", "incompatible", "complete"}
  BY DEF AnchorState, TrustState
<1>1. CASE InstallReads(p)
  <2>1. Refuse(p) \/ Step(p, "ok") \/ Step(p, "profile") \/ Step(p, "stageTrust")
    BY <1>0, <1>1 DEF InstallReads, AfterTrust
  <2> QED
    BY <1>1, <2>1, StepRunsDown, RefusalRunsDown DEF InstallReads, Refuse
<1>2. CASE StageTrust(p)
  BY <1>2, StepRunsDown, RefusalRunsDown DEF StageTrust, Refuse
<1>3. CASE PromoteTrust(p)
  BY <1>3, StepRunsDown DEF PromoteTrust
<1>4. CASE PromotionLost(p)
  <2>1. CASE job[p].kind = "select"
    BY <1>4, <2>1, RaceRunsDown DEF PromotionLost, trust
  <2>2. CASE job[p].kind # "select"
    <3>1. Refuse(p) \/ Step(p, "ok") \/ Step(p, "profile")
      BY <1>4, <2>2 DEF PromotionLost, AfterTrust
    <3> QED
      BY <1>4, <3>1, StepRunsDown, RefusalRunsDown DEF PromotionLost, Refuse
  <2> QED
    BY <2>1, <2>2
<1>5. CASE VerifyTrust(p)
  BY <1>5, StepRunsDown, RefusalRunsDown DEF VerifyTrust, Refuse, AfterTrust
<1>6. CASE PersonalReads(p)
  BY <1>6, PersonalRunsDown
<1>7. CASE AddCapability(p) \/ FillCapability(p)
  BY <1>7, StepRunsDown, RefusalRunsDown DEF AddCapability, FillCapability, Refuse
<1>8. CASE EnrollReads(p) \/ PromoteRelease(p) \/ VerifyRelease(p)
  BY <1>8, StepRunsDown, RefusalRunsDown DEF EnrollReads, PromoteRelease, VerifyRelease, Refuse
<1>9. CASE Return(p) \/ TrustWriteFails(p) \/ Crash(p)
  BY <1>9, RefusalRunsDown DEF Return, TrustWriteFails, Crash, Refuse
<1>10. CASE BeginInstall(p) \/ BeginEnroll(p)
  BY <1>10 DEF BeginInstall, BeginEnroll, Begin
<1> QED
  BY <1>1, <1>2, <1>3, <1>4, <1>5, <1>6, <1>7, <1>8, <1>9, <1>10 DEF TrustNext

LEMMA EloRunsDown ==
  ASSUME CommandsFit, NEW p \in Procs, EloNext(p), pc[p] # "idle"
  PROVE  pc'[p] = "idle" \/ StepsLeft(p)' < StepsLeft(p)
<1> USE DEF Remaining
<1>0. Fits(pc[p], job[p])
  BY DEF CommandsFit
<1>1. CASE EvaluateChecks(p) \/ LockReceipt(p) \/ LockRefused(p) \/ EvaluateReads(p)
  BY <1>1, StepRunsDown, RefusalRunsDown
  DEF EvaluateChecks, LockReceipt, LockRefused, EvaluateReads, Refuse, RefuseLocked
<1>2. CASE RecoverHead(p) \/ EvaluateDecides(p)
  <2>1. CASE Refuse(p) \/ Leave(p)
    BY <2>1, RefusalRunsDown DEF Refuse
  <2>2. ASSUME NEW e, NEW l \in {"ok", "createEntry"},
               job' = [job EXCEPT ![p].entry = e], Goto(p, l)
        PROVE  StepsLeft(p)' < StepsLeft(p)
    <3>1. PICK j : j = [job[p] EXCEPT !.entry = e]
      OBVIOUS
    <3>2. job' = [job EXCEPT ![p] = j]
      BY <2>2, <3>1
    <3>3. pc[p] \in {"eloRecover", "eloDecide"}
      BY <1>2 DEF RecoverHead, EvaluateDecides
    <3>4. job[p].kind = "evaluate" /\ DOMAIN job[p] = {"kind", "base", "cand", "entry"}
      BY <1>0, <3>3
      DEF Fits, InstallFits, EnrollFits, OnboardFits, ProfileFits, SelectFits, EvaluateFits,
          MigrateFits, UpgradeFits, SchemaFits, RestoreFits, TrustLabels, EnrollLabels,
          OnboardLabels, PersonalLabels, SelectLabels, EvaluateLabels, MigrateLabels,
          UpgradeLabels, FileLabels, SchemaLabels, RestoreLabels
    <3>5. Ahead(job[p]) = 0 /\ Ahead(j) = 0
      BY <3>1, <3>4 DEF Ahead
    <3>6. Remaining[pc[p]] = 5 /\ Remaining[l] \in {0, 4}
      BY <2>2, <3>3
    <3>7. pc[p] # "idle" /\ l # "personal"
      BY <2>2, <3>3
    <3> HIDE DEF Remaining
    <3>8. /\ Remaining[l] \in Int /\ Remaining[pc[p]] \in Int /\ Ahead(j) \in Int
          /\ Remaining[l] + Ahead(j) < Remaining[pc[p]] + Ahead(job[p])
      BY <3>5, <3>6
    <3> QED
      BY <2>2, <3>2, <3>7, <3>8, JobRunsDown
  <2> QED
    BY <1>2, <2>1, <2>2 DEF RecoverHead, EvaluateDecides, RefuseLocked
<1>3. CASE CreateEntry(p) \/ FillEntry(p) \/ MoveHead(p) \/ EvaluateVerifies(p)
  BY <1>3, StepRunsDown, RefusalRunsDown
  DEF CreateEntry, FillEntry, MoveHead, EvaluateVerifies, Refuse
<1>4. CASE MigrateReads(p) \/ UnlinkReceipt(p) \/ FillReceipt(p)
  BY <1>4, StepRunsDown, RefusalRunsDown DEF MigrateReads, UnlinkReceipt, FillReceipt, Refuse
<1>5. CASE CreateReceipt(p)
  <2>1. CASE receipt = Nothing /\ MayRemoveReceipt /\ OnlyLegacyFiles
    <3>1. PICK j : j = [job[p] EXCEPT !.fresh = TRUE]
      OBVIOUS
    <3>2. job' = [job EXCEPT ![p] = j] /\ Goto(p, "fillReceipt") /\ pc[p] = "createReceipt"
      BY <1>5, <2>1, <3>1 DEF CreateReceipt
    <3>3. job[p].kind = "migrate" /\ DOMAIN job[p] = {"kind", "fresh"}
      BY <1>0, <3>2
      DEF Fits, InstallFits, EnrollFits, OnboardFits, ProfileFits, SelectFits, EvaluateFits,
          MigrateFits, UpgradeFits, SchemaFits, RestoreFits, TrustLabels, EnrollLabels,
          OnboardLabels, PersonalLabels, SelectLabels, EvaluateLabels, MigrateLabels,
          UpgradeLabels, FileLabels, SchemaLabels, RestoreLabels
    <3>4. Ahead(job[p]) = 0 /\ Ahead(j) = 0
      BY <3>1, <3>3 DEF Ahead
    <3>5. Remaining[pc[p]] = 10 /\ Remaining["fillReceipt"] = 9
      BY <3>2
    <3> HIDE DEF Remaining
    <3>6. /\ Remaining["fillReceipt"] \in Int /\ Remaining[pc[p]] \in Int /\ Ahead(j) \in Int
          /\ Remaining["fillReceipt"] + Ahead(j) < Remaining[pc[p]] + Ahead(job[p])
      BY <3>4, <3>5
    <3> QED
      BY <3>2, <3>6, JobRunsDown
  <2> QED
    BY <1>5, <2>1, RefusalRunsDown DEF CreateReceipt, Refuse
<1>6. CASE MigrateMarker(p) \/ UnlinkMarker(p) \/ CreateMarker(p) \/ FillMarker(p)
  BY <1>6, StepRunsDown, RefusalRunsDown
  DEF MigrateMarker, UnlinkMarker, CreateMarker, FillMarker, Refuse
<1>7. CASE MigrateHead(p) \/ UnlinkHead(p) \/ CreateHead(p) \/ FillHead(p) \/ VerifyGenesis(p)
  BY <1>7, StepRunsDown, RefusalRunsDown
  DEF MigrateHead, UnlinkHead, CreateHead, FillHead, VerifyGenesis, Refuse
<1>8. CASE EloWriteFails(p)
  BY <1>8, RefusalRunsDown DEF EloWriteFails
<1>9. CASE BeginEvaluate(p) \/ BeginMigrate(p)
  BY <1>9 DEF BeginEvaluate, BeginMigrate, Begin
<1> QED
  BY <1>1, <1>2, <1>3, <1>4, <1>5, <1>6, <1>7, <1>8, <1>9 DEF EloNext

LEMMA OnboardingRunsDown ==
  ASSUME CommandsFit, NEW p \in Procs, OnboardingNext(p), pc[p] # "idle"
  PROVE  pc'[p] = "idle" \/ StepsLeft(p)' < StepsLeft(p)
<1> USE DEF Remaining
<1>0. Fits(pc[p], job[p])
  BY DEF CommandsFit
<1>1. CASE LockProfile(p)
  <2>1. pc[p] = "profileLock" /\ Step(p, job[p].kind)
    BY <1>1 DEF LockProfile
  <2>2. job[p].kind \in {"upgrade", "schema", "restore"}
    BY <1>0, <2>1
    DEF Fits, InstallFits, EnrollFits, OnboardFits, ProfileFits, SelectFits, EvaluateFits,
        MigrateFits, UpgradeFits, SchemaFits, RestoreFits, TrustLabels, EnrollLabels,
        OnboardLabels, PersonalLabels, SelectLabels, EvaluateLabels, MigrateLabels
  <2> QED
    BY <2>1, <2>2, StepRunsDown
<1>2. CASE LockTimesOut(p)
  BY <1>2, RefusalRunsDown DEF LockTimesOut, Refuse
<1>3. CASE InstallProfile(p)
  <2>1. Refuse(p) \/ Step(p, AfterProfile(p))
    BY <1>3 DEF InstallProfile
  <2>2. pc[p] = "profile"
    BY <1>3 DEF InstallProfile
  <2>3. AfterProfile(p) \in {"ok", "ingest", "bind"}
    BY <1>0, <2>2
    DEF AfterProfile, Fits, InstallFits, EnrollFits, OnboardFits, ProfileFits, SelectFits,
        EvaluateFits, MigrateFits, UpgradeFits, SchemaFits, RestoreFits, TrustLabels, EnrollLabels,
        EvaluateLabels, MigrateLabels, UpgradeLabels, FileLabels, SchemaLabels, RestoreLabels
  <2> QED
    BY <2>1, <2>2, <2>3, StepRunsDown, RefusalRunsDown DEF Refuse
<1>4. CASE Ingest(p) \/ IngestDies(p)
  BY <1>4, StepRunsDown, RefusalRunsDown DEF Ingest, IngestDies, Refuse, AfterIngest
<1>5. CASE OnboardReads(p)
  <2>1. pc[p] = "onboard"
    BY <1>5 DEF OnboardReads
  <2> QED
    BY <1>5, <2>1, OnboardReadsOn, StepRunsDown, RefusalRunsDown DEF Refuse
<1>6. CASE RemoveEmptyHome(p)
  <2>1. CASE home /\ HomeEmpty
    <3>1. PICK j : j = [job[p] EXCEPT !.empty = TRUE]
      OBVIOUS
    <3>2. job' = [job EXCEPT ![p] = j] /\ Goto(p, "renameHome") /\ pc[p] = "removeEmptyHome"
      BY <1>6, <2>1, <3>1 DEF RemoveEmptyHome
    <3>3. OnboardFits(pc[p], job[p])
      BY <1>0, <3>2
      DEF Fits, InstallFits, EnrollFits, ProfileFits, SelectFits, EvaluateFits,
          MigrateFits, UpgradeFits, SchemaFits, RestoreFits, TrustLabels, EnrollLabels,
          PersonalLabels, SelectLabels, EvaluateLabels, MigrateLabels,
          UpgradeLabels, FileLabels, SchemaLabels, RestoreLabels
    <3>4. Ahead(job[p]) = 0 /\ Ahead(j) = 0
      BY <3>1, <3>3 DEF Ahead, OnboardFits
    <3>5. Remaining[pc[p]] = 3 /\ Remaining["renameHome"] = 2
      BY <3>2
    <3> HIDE DEF Remaining
    <3>6. /\ Remaining["renameHome"] \in Int /\ Remaining[pc[p]] \in Int /\ Ahead(j) \in Int
          /\ Remaining["renameHome"] + Ahead(j) < Remaining[pc[p]] + Ahead(job[p])
      BY <3>4, <3>5
    <3> QED
      BY <3>2, <3>6, JobRunsDown
  <2> QED
    BY <1>6, <2>1, RefusalRunsDown DEF RemoveEmptyHome, Refuse
<1>7. CASE RenameHome(p) \/ VerifyHome(p)
  BY <1>7, StepRunsDown, RefusalRunsDown DEF RenameHome, VerifyHome, Refuse
<1>8. CASE RenameHomeRefused(p) \/ RenameHomeFails(p)
  BY <1>8, RefusalRunsDown DEF RenameHomeRefused, RenameHomeFails, Refuse
<1>9. CASE BeginProfile(p) \/ BeginOnboard(p)
  BY <1>9 DEF BeginProfile, BeginOnboard, Begin
<1> QED
  BY <1>1, <1>2, <1>3, <1>4, <1>5, <1>6, <1>7, <1>8, <1>9 DEF OnboardingNext

LEMMA SelectionRunsDown ==
  ASSUME CommandsFit, NEW p \in Procs, SelectionNext(p), UNCHANGED anchor, pc[p] # "idle"
  PROVE  pc'[p] = "idle" \/ StepsLeft(p)' < StepsLeft(p)
<1> USE DEF Remaining
<1>0. Fits(pc[p], job[p])
  BY DEF CommandsFit
<1>1. CASE ExistingRetry(p)
  <2>1. pc[p] = "existing" /\ (Refuse(p) \/ Step(p, "ok") \/ Step(p, "personal"))
    BY <1>1 DEF ExistingRetry
  <2> QED
    BY <2>1, StepRunsDown, RaceRunsDown, RefusalRunsDown DEF Refuse
<1>2. CASE CreateBinding(p) \/ FillBinding(p)
  BY <1>2, StepRunsDown, RefusalRunsDown DEF CreateBinding, FillBinding, Refuse
<1>3. CASE Approve(p)
  <2>1. CASE BindingVerifies(job[p].id) /\ Whole(job[p].id)
    <3>1. PICK n : job' = [job EXCEPT ![p].seq = n]
      BY <1>3, <2>1 DEF Approve
    <3>2. PICK j : j = [job[p] EXCEPT !.seq = n]
      OBVIOUS
    <3>3. job' = [job EXCEPT ![p] = j] /\ Goto(p, "ingest") /\ pc[p] = "approve"
      BY <1>3, <2>1, <3>1, <3>2 DEF Approve
    <3>4. SelectFits(pc[p], job[p])
      BY <1>0, <3>3
      DEF Fits, InstallFits, EnrollFits, OnboardFits, ProfileFits, EvaluateFits,
          MigrateFits, UpgradeFits, SchemaFits, RestoreFits, TrustLabels, EnrollLabels,
          OnboardLabels, EvaluateLabels, MigrateLabels,
          UpgradeLabels, FileLabels, SchemaLabels, RestoreLabels
    <3>5. Ahead(job[p]) = 0 /\ Ahead(j) = 0
      BY <3>2, <3>4 DEF Ahead, SelectFits
    <3>6. Remaining[pc[p]] = 4 /\ Remaining["ingest"] = 3
      BY <3>3
    <3> HIDE DEF Remaining
    <3>7. /\ Remaining["ingest"] \in Int /\ Remaining[pc[p]] \in Int /\ Ahead(j) \in Int
          /\ Remaining["ingest"] + Ahead(j) < Remaining[pc[p]] + Ahead(job[p])
      BY <3>5, <3>6
    <3> QED
      BY <3>3, <3>7, JobRunsDown
  <2> QED
    BY <1>3, <2>1, RefusalRunsDown DEF Approve, Refuse
<1>4. CASE CreateRecord(p) \/ FillRecord(p) \/ SelectionWriteFails(p)
  BY <1>4, StepRunsDown, RefusalRunsDown DEF CreateRecord, FillRecord, SelectionWriteFails, Refuse
<1>5. CASE BeginSelect(p)
  BY <1>5 DEF BeginSelect, Begin
<1> QED
  BY <1>1, <1>2, <1>3, <1>4, <1>5 DEF SelectionNext

LEMMA UpgradeRunsDown ==
  ASSUME CommandsFit, NEW p \in Procs, UpgradeNext(p), pc[p] # "idle"
  PROVE  pc'[p] = "idle" \/ StepsLeft(p)' < StepsLeft(p)
<1> USE DEF Remaining
<1>1. CASE ReadsOn(p)
  <2>1. UnlockRefused(p) => pc'[p] = "idle"
    BY RefusalRunsDown DEF UnlockRefused, Refuse
  <2>2. ASSUME NEW l, Step(p, l), Finds(pc[p], l, job[p].binding)
        PROVE  StepsLeft(p)' < StepsLeft(p)
    <3>1. /\ pc[p] # "idle" /\ l # "personal" /\ Remaining[l] \in Int /\ Remaining[pc[p]] \in Int
          /\ Remaining[l] < Remaining[pc[p]]
      BY <2>2 DEF Finds
    <3> QED
      BY <2>2, <3>1, StepRunsDown
  <2> QED
    BY <1>1, <2>1, <2>2, UpgradeReading
<1>2. CASE MakeAuthDir(p) \/ CreateAuth(p) \/ FillAuth(p) \/ WriteAuthPointer(p)
  BY <1>2, StepRunsDown DEF MakeAuthDir, CreateAuth, FillAuth, WriteAuthPointer
<1>3. CASE VerifyRecord(p) \/ UpgradeWriteFails(p)
  BY <1>3, StepRunsDown, RefusalRunsDown DEF VerifyRecord, UpgradeWriteFails, Refuse
<1>4. CASE BeginUpgrade(p)
  BY <1>4 DEF BeginUpgrade, Begin
<1> QED
  BY <1>1, <1>2, <1>3, <1>4 DEF UpgradeNext, ReadsOn

\* A migration that goes on to a later version has eight steps less ahead of it.
LEMMA VersionRunsDown ==
  ASSUME CommandsFit, NEW p \in Procs, pc[p] \in {"schema", "advance"}, job[p].kind = "schema",
         NEW at \in 1 .. CurrentVersion, job[p].at < at, NEW l \in {"commit", "backup"},
         Goes(p, at, l)
  PROVE  StepsLeft(p)' < StepsLeft(p)
<1>1. CurrentVersion \in Nat /\ job[p].at \in 0 .. CurrentVersion /\ pc[p] # "idle"
  <2>1. Fits(pc[p], job[p]) /\ pc[p] # "idle"
    BY DEF CommandsFit
  <2> QED
    BY <2>1, VersionAssumption
    DEF Versions, Fits, InstallFits, EnrollFits, OnboardFits, ProfileFits, SelectFits, EvaluateFits,
        MigrateFits, UpgradeFits, SchemaFits, RestoreFits
<1>2. PICK j : j = [job[p] EXCEPT !.at = at]
  OBVIOUS
<1>3. job' = [job EXCEPT ![p] = j] /\ Goto(p, l)
  BY <1>2 DEF Goes
<1>4. j.at = at /\ j.kind = "schema"
  <2>1. Fits(pc[p], job[p])
    BY <1>1 DEF CommandsFit
  <2>2. DOMAIN job[p] = {"kind", "at"}
    BY <2>1
    DEF Fits, InstallFits, EnrollFits, OnboardFits, ProfileFits, SelectFits, EvaluateFits,
        MigrateFits, UpgradeFits, SchemaFits, RestoreFits
  <2> QED
    BY <1>2, <2>2
<1>5. Ahead(job[p]) = 8 * (CurrentVersion - job[p].at) /\ Ahead(j) = 8 * (CurrentVersion - at)
  BY <1>4 DEF Ahead
<1>6. Remaining[pc[p]] = 1 /\ Remaining[l] \in {3, 8}
  BY DEF Remaining
<1>7. Remaining[l] + Ahead(j) < Remaining[pc[p]] + Ahead(job[p])
  BY <1>1, <1>5, <1>6
<1>8. Remaining[l] \in Int /\ Remaining[pc[p]] \in Int /\ Ahead(j) \in Int /\ l # "personal"
  BY <1>1, <1>5, <1>6
<1> QED
  BY <1>1, <1>3, <1>7, <1>8, JobRunsDown

LEMMA MigrationRunsDown ==
  ASSUME CommandsFit, artifact \in Versions, NEW p \in Procs, MigrationsNext(p), pc[p] # "idle"
  PROVE  pc'[p] = "idle" \/ StepsLeft(p)' < StepsLeft(p)
<1> USE DEF Remaining
<1>0. Fits(pc[p], job[p])
  BY DEF CommandsFit
<1>1. CASE SchemaReads(p)
  <2>1. pc[p] = "schema" /\ job[p].kind = "schema" /\ job[p].at = 0
    BY <1>0, <1>1
    DEF SchemaReads, Fits, InstallFits, EnrollFits, OnboardFits, ProfileFits, SelectFits,
        EvaluateFits, MigrateFits, UpgradeFits, SchemaFits, RestoreFits, TrustLabels, EnrollLabels,
        OnboardLabels, PersonalLabels, SelectLabels, EvaluateLabels, MigrateLabels,
        UpgradeLabels, FileLabels, SchemaLabels, RestoreLabels
  <2>2. artifact \in 1 .. CurrentVersion /\ (artifact > 1 => artifact - 1 \in 1 .. CurrentVersion)
    BY VersionAssumption DEF Versions
  <2>3. CASE Goes(p, artifact - 1, "commit") /\ artifact > 1
    BY <2>1, <2>2, <2>3, VersionRunsDown
  <2>4. CASE Goes(p, artifact, "backup")
    BY <2>1, <2>2, <2>4, VersionRunsDown
  <2>5. CASE Step(p, "ok") \/ Refuse(p)
    BY <2>1, <2>5, StepRunsDown, RefusalRunsDown DEF Refuse
  <2> QED
    BY <1>1, <2>3, <2>4, <2>5 DEF SchemaReads, UnlockRefused
<1>2. CASE CreateFile(p)
  <2>1. pc[p] \in Stages /\ (Refuse(p) \/ Step(p, Filling[pc[p]]) \/ Step(p, AfterFile[pc[p]]))
    BY <1>2 DEF CreateFile, UnlockRefused
  <2> QED
    BY <2>1, StepRunsDown, RefusalRunsDown DEF Stages, Filling, AfterFile, Refuse
<1>3. CASE FillFile(p)
  <2>1. PICK s \in Stages : pc[p] = Filling[s] /\ s = StageOf(p)
    BY <1>3 DEF FillFile, StageOf
  <2>2. Step(p, AfterFile[s])
    BY <1>3, <2>1 DEF FillFile
  <2> QED
    BY <2>1, <2>2, StepRunsDown DEF Stages, Filling, AfterFile
<1>4. CASE ReplaceArtifact(p)
  BY <1>4, StepRunsDown DEF ReplaceArtifact
<1>5. CASE Advance(p)
  <2>1. pc[p] = "advance" /\ job[p].kind = "schema" /\ job[p].at \in 1 .. CurrentVersion
        /\ job[p].at < CurrentVersion /\ CurrentVersion \in Nat
    BY <1>0, <1>5, VersionAssumption
    DEF Advance, Versions, Fits, InstallFits, EnrollFits, OnboardFits, ProfileFits, SelectFits,
        EvaluateFits, MigrateFits, UpgradeFits, SchemaFits, RestoreFits, TrustLabels, EnrollLabels,
        OnboardLabels, PersonalLabels, SelectLabels, EvaluateLabels, MigrateLabels,
        UpgradeLabels, FileLabels, SchemaLabels, RestoreLabels
  <2>2. job[p].at + 1 \in 1 .. CurrentVersion /\ job[p].at < job[p].at + 1
    BY <2>1
  <2>3. CASE job[p].at + 1 = CurrentVersion
    BY <1>5, <2>1, <2>3, StepRunsDown DEF Advance
  <2> QED
    BY <1>5, <2>1, <2>2, <2>3, VersionRunsDown DEF Advance
<1>6. CASE RestoreReads(p)
  <2>1. pc[p] = "restore" /\ (Refuse(p) \/ Step(p, "prepareRestore") \/ Step(p, "putBack") \/ Step(p, "ok"))
    BY <1>6 DEF RestoreReads, UnlockRefused
  <2> QED
    BY <2>1, StepRunsDown, RefusalRunsDown DEF Refuse
<1>7. CASE PrepareRestore(p) \/ FillRestore(p) \/ PutBack(p) \/ RecordRestore(p) \/ FillRestored(p)
  BY <1>7, StepRunsDown DEF PrepareRestore, FillRestore, PutBack, RecordRestore, FillRestored
<1>8. CASE SchemaWriteFails(p)
  BY <1>8, RefusalRunsDown DEF SchemaWriteFails
<1>9. CASE BeginSchema(p) \/ BeginRestore(p)
  BY <1>9 DEF BeginSchema, BeginRestore, Begin
<1> QED
  BY <1>1, <1>2, <1>3, <1>4, <1>5, <1>6, <1>7, <1>8, <1>9 DEF MigrationsNext

LEMMA StepsLeftFit ==
  ASSUME CommandsFit, NEW p \in Procs, pc[p] # "idle"
  PROVE  StepsLeft(p) \in 0 .. 15 + 8 * CurrentVersion
<1>1. Fits(pc[p], job[p]) /\ Ahead(job[p]) \in 0 .. 8 * CurrentVersion /\ CurrentVersion \in Nat
  BY AheadFits, VersionAssumption DEF CommandsFit
<1>2. pc[p] \in TrustLabels \cup EnrollLabels \cup OnboardLabels \cup PersonalLabels
        \cup SelectLabels \cup EvaluateLabels \cup MigrateLabels \cup UpgradeLabels
        \cup SchemaLabels \cup RestoreLabels \cup {"profile", "ingest", "profileLock", "ok"}
  BY <1>1
  DEF Fits, InstallFits, EnrollFits, OnboardFits, ProfileFits, SelectFits, EvaluateFits,
      MigrateFits, UpgradeFits, SchemaFits, RestoreFits
<1>3. Remaining[pc[p]] \in 0 .. 15 /\ (pc[p] = "personal" => Remaining[pc[p]] = 11)
  BY <1>2
  DEF Remaining, TrustLabels, EnrollLabels, OnboardLabels, PersonalLabels, SelectLabels,
      EvaluateLabels, MigrateLabels, UpgradeLabels, FileLabels, SchemaLabels, RestoreLabels
<1> QED
  BY <1>1, <1>3 DEF StepsLeft, Ahead

\* What the steps of p are to the command of q.
RunsDown(q) ==
  \/ pc'[q] = "idle"
  \/ UNCHANGED <<pc[q], job[q]>> /\ StepsLeft(q)' <= StepsLeft(q)
  \/ StepsLeft(q)' < StepsLeft(q)

LEMMA OthersRunDown ==
  ASSUME TrustInv, [Next]_vars, NEW q \in Procs, pc[q] # "idle", UNCHANGED <<pc[q], job[q]>>
  PROVE  RunsDown(q)
<1>1. anchor # Nothing => anchor' # Nothing
  <2>1. anchor \in Anchors \cup {Nothing} /\ Stays(anchor, anchor')
    BY TrustInvStep DEF TrustInv, TrustRests, TrustHeld
  <2> QED
    BY <2>1, AnchorAssumption DEF Stays, Sealed
<1>2. StepsLeft(q) \in Int
  BY StepsLeftFit, VersionAssumption DEF TrustInv, HomeFits
<1>3. PICK n : n = Remaining[pc[q]] + Ahead(job[q])
  OBVIOUS
<1>4. /\ StepsLeft(q) = n + (IF pc[q] = "personal" /\ anchor = Nothing THEN 3 ELSE 0)
      /\ StepsLeft(q)' = n + (IF pc[q] = "personal" /\ anchor' = Nothing THEN 3 ELSE 0)
  BY <1>3 DEF StepsLeft, Ahead
<1> QED
  BY <1>1, <1>2, <1>3, <1>4 DEF RunsDown

LEMMA EveryCommandRunsDown ==
  ASSUME TrustInv, [Next]_vars, NEW q \in Procs, pc[q] # "idle"
  PROVE  RunsDown(q)
<1> USE DEF TrustInv, HomeFits
<1>1. ASSUME NEW p \in Procs, TrustStep(p)
      PROVE  RunsDown(q)
  <2>1. Others(p)
    BY <1>1, TrustMoves DEF TrustStep
  <2> QED
    BY <1>1, <2>1, TrustRunsDown, OthersRunDown DEF TrustStep, Others, RunsDown
<1>2. ASSUME NEW p \in Procs, EloStep(p)
      PROVE  RunsDown(q)
  <2>1. Others(p)
    BY <1>2, EloMoves DEF EloStep
  <2> QED
    BY <1>2, <2>1, EloRunsDown, OthersRunDown DEF EloStep, Others, RunsDown
<1>3. ASSUME NEW p \in Procs, OnboardingStep(p)
      PROVE  RunsDown(q)
  <2>1. Others(p)
    BY <1>3, OnboardingMoves DEF OnboardingStep
  <2> QED
    BY <1>3, <2>1, OnboardingRunsDown, OthersRunDown DEF OnboardingStep, Others, RunsDown
<1>4. ASSUME NEW p \in Procs, SelectionStep(p)
      PROVE  RunsDown(q)
  <2>1. \A id \in Personal : Len(snapshots[id]) \in Nat
    BY DEF FilesFit, ProfileIds
  <2>2. Others(p) /\ UNCHANGED anchor
    BY <1>4, <2>1, SelectionMoves, TrustUntouched DEF SelectionStep
  <2> QED
    BY <1>4, <2>2, SelectionRunsDown, OthersRunDown DEF SelectionStep, Others, RunsDown
<1>5. ASSUME NEW p \in Procs, UpgradeStep(p)
      PROVE  RunsDown(q)
  <2>1. Others(p)
    BY <1>5, UpgradeMoves DEF UpgradeStep
  <2> QED
    BY <1>5, <2>1, UpgradeRunsDown, OthersRunDown DEF UpgradeStep, Others, RunsDown
<1>6. ASSUME NEW p \in Procs, MigrationStep(p)
      PROVE  RunsDown(q)
  <2>1. artifact \in Versions
    BY DEF FilesFit
  <2>2. Others(p)
    BY <1>6, <2>1, MigrationMoves DEF MigrationStep
  <2> QED
    BY <1>6, <2>1, <2>2, MigrationRunsDown, OthersRunDown DEF MigrationStep, Others, RunsDown
<1>7. CASE RuleStep \/ UNCHANGED vars
  <2>1. UNCHANGED <<pc, job>>
    BY <1>7, RuleMoves DEF vars, control
  <2> QED
    BY <2>1, OthersRunDown
<1> QED
  BY <1>1, <1>2, <1>3, <1>4, <1>5, <1>6, <1>7 DEF Next

\* No command goes round for ever, for any number of processes, commands, versions and
\* faults: each step ends it or leaves it fewer steps than before, and nothing that
\* others do gives it more.  So a personal installation starts again once at most
\* after a lost race (policy.py calls itself there), and the loop of a migration
\* (migrations.py) comes to its end.
THEOREM CommandsTakeFiniteSteps == Spec => CommandsRunDown
<1>1. TrustInv /\ [Next]_vars =>
        [\A p \in Procs : pc[p] # "idle" =>
           /\ StepsLeft(p) \in 0 .. 15 + 8 * CurrentVersion
           /\ \/ pc'[p] = "idle"
              \/ UNCHANGED <<pc[p], job[p]>> /\ StepsLeft(p)' <= StepsLeft(p)
              \/ StepsLeft(p)' < StepsLeft(p)]_vars
  BY EveryCommandRunsDown, StepsLeftFit DEF RunsDown, TrustInv, HomeFits
<1> QED
  BY <1>1, TrustInvAlways, PTL DEF Spec, CommandsRunDown
=============================================================================
