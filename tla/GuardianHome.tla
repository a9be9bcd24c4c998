----------------------------- MODULE GuardianHome ------------------------------
(***************************************************************************)
(* One Guardian home and the commands that change it: trust and release    *)
(* authority, the Elo history, profiles, onboarding, personal selections,  *)
(* the evaluator upgrade and schema migrations.  They meet in the trust    *)
(* directory, in the installed profile and in the transaction lock; only   *)
(* some of them take a lock, and each keeps to its own.                    *)
(***************************************************************************)
EXTENDS EloLedger, PersonalSelection, EvaluatorUpgrade, Migrations

vars == <<trust, control, history, catalogs, selections, upgrades, artifacts>>

\* A crash frees what the kernel or the operator frees.
TrustStep(p) ==
  /\ TrustNext(p)
  /\ EloLeft /\ ProfileLockLeft
  /\ UNCHANGED <<entries, tornEntry, eloDir, profile, snapshots, mend,
                 selections, upgrades, artifacts>>
EloStep(p) == EloNext(p) /\ UNCHANGED <<catalogs, selections, upgrades, artifacts>>
OnboardingStep(p) == OnboardingNext(p) /\ UNCHANGED <<history, selections, upgrades, artifacts>>
SelectionStep(p) == SelectionNext(p) /\ UNCHANGED <<history, upgrades, artifacts>>
UpgradeStep(p) == UpgradeNext(p) /\ UNCHANGED <<history, selections, artifacts>>
MigrationStep(p) == MigrationsNext(p) /\ UNCHANGED <<history, selections, upgrades>>
RuleStep == (AdvanceRules \/ RulesExpire) /\ UNCHANGED <<history, selections, artifacts>>

Init ==
  /\ TrustInit /\ EloInit /\ OnboardingInit
  /\ SelectionInit /\ UpgradeInit /\ MigrationsInit

Next ==
  \/ \E p \in Procs :
       \/ TrustStep(p) \/ EloStep(p) \/ OnboardingStep(p)
       \/ SelectionStep(p) \/ UpgradeStep(p) \/ MigrationStep(p)
  \/ RuleStep

Spec == Init /\ [][Next]_vars

-----------------------------------------------------------------------------
(* Types.                                                                  *)

Sealed(file) == file \notin {Nothing, Torn}

Anchored ==
  /\ anchor \in Anchors \cup {Nothing}
  /\ release \in Keys \cup {Nothing}
  /\ capability \in Capabilities \cup {Nothing, Torn}
  /\ debris \subseteq {"home", "trust"}
  /\ anchor # Nothing => home

Controlled ==
  /\ DOMAIN pc = Procs /\ DOMAIN job = Procs
  /\ \A p \in Procs : pc[p] = "idle" <=> job[p] = NoCommand
  /\ eloLock \in Procs \cup {Nothing}
  /\ profileLock \in [ProfileIds -> Procs \cup {Nothing}]
  /\ agenda \in Agendas /\ commands \in 0 .. agenda.most /\ faults \in 0 .. MaxFaults

Filed ==
  /\ \A i \in ProfileIds :
       /\ profile[i] \in RevisionsOf(i) \cup {Nothing}
       /\ \A k \in DOMAIN snapshots[i] : snapshots[i][k].rev \in RevisionsOf(i)
  /\ \A i \in Personal : binding[i] \in {Nothing, Torn, i}
  /\ auths \subseteq Bindings /\ authPointer \in auths \cup {Nothing}
  /\ artifact \in Versions
  /\ entries \subseteq Entries /\ \A e \in entries : e.seq <= Cardinality(entries)

HomeInv == Anchored /\ Controlled /\ Filed

-----------------------------------------------------------------------------
(* Safety.                                                                 *)

\* A command that reports success is right about what it left behind, whatever
\* other commands do to the home meanwhile.
SuccessIsTrue ==
  \A p \in Procs : pc[p] = "ok" =>
    LET j == job[p] IN
    CASE j.kind = "install" -> anchor # Nothing /\ j.key \in {Nothing, anchor.catalog}
      [] j.kind = "enroll" -> release = j.key /\ anchor.catalog # j.key
      [] j.kind = "onboard" ->
           /\ anchor.catalog = j.key
           /\ snapshots[Company][j.seq] = [rev |-> j.rev, catalog |-> j.catalog]
      [] j.kind = "select" ->
           Sealed(selection[j.run]) /\ selection[j.run].discovery = j.discovery
      [] j.kind = "evaluate" ->
           j.entry \in entries /\ j.entry.base = j.base /\ j.entry.cand = j.cand
      [] j.kind = "upgrade" ->
           /\ j.binding \in auths
           /\ rules[j.binding.seq] = j.binding.rev
      [] j.kind = "restore" -> restored[j.id] = "whole" /\ restoring[j.id].to = j.to
      [] j.kind \in {"migrate", "profile", "schema"} -> TRUE

\* Trust that was put in place stays: no command replaces or removes an authority,
\* a capability, a sealed selection or an authorization, not even one that is
\* retried after a crash or races another one.
Stays(file, next) == Sealed(file) => next = file

TrustForGood ==
  [][/\ Stays(anchor, anchor') /\ Stays(capability, capability') /\ Stays(release, release')
     /\ \A i \in Personal : Stays(binding[i], binding'[i])
     /\ \A r \in Runs : Stays(selection[r], selection'[r])
     /\ auths \subseteq auths']_vars

\* An achievement moves the score once in the life of a home: a retry, a recovery of
\* an interrupted append and a rival evaluation do not count it again.
AwardedOnce ==
  /\ \A e, f \in entries : e # f => e.seq # f.seq /\ e.new \cap f.new = {}
  /\ \A e, f \in entries : e.seq < f.seq =>
       /\ e.ids \subseteq f.ids
       /\ Version[e.cand.package] < Version[f.cand.package]

\* The Elo history is the chain of evaluations that its abstract specification
\* describes, whatever evaluations race, are repeated or stop half-way: the score moves
\* by a bounded step, and only for a reason.
EloChain == INSTANCE EloRegister WITH log <- entries
ImplementsRegister == EloChain!RegisterSpec

\* The protected head keeps up with the entries that are whole: in a home that was
\* installed afresh it names the last one or the one before it, whoever evaluated,
\* failed or died meanwhile, and whatever enrolments were tried, so that an append
\* interrupted between the two files can be completed.  An entry that a crash left torn
\* blocks every later evaluation; the head is then still right about those before it.
HeadKeepsUp ==
  anchor # Nothing /\ anchor.host # Legacy => AnchorsAgree /\ (HeadIsLatest \/ HeadIsBehind)

\* What the score rests on, at every moment of the life of a home: the entries and,
\* where no enrolment of version 0.2 has written it, the head.
HistoryStands == AwardedOnce /\ HeadKeepsUp

\* At most so many steps are left to a command at each label.  A migration has them
\* once more for every version still to come; a personal installation that finds no
\* trust may still lose the race to place one, and then starts again.
Remaining ==
  [ok |-> 0,
   install |-> 14, stageTrust |-> 13, promoteTrust |-> 12, verifyTrust |-> 8,
   personal |-> 11, addCapability |-> 10, fillCapability |-> 9,
   existing |-> 15, profile |-> 7, bind |-> 6, fillBinding |-> 5, approve |-> 4,
   ingest |-> 3, record |-> 2, fillRecord |-> 1,
   onboard |-> 15, removeEmptyHome |-> 3, renameHome |-> 2, verifyHome |-> 1,
   enroll |-> 3, promoteRelease |-> 2, verifyRelease |-> 1,
   evaluate |-> 8, eloLock |-> 7, eloRead |-> 6, eloRecover |-> 5, eloDecide |-> 5,
   createEntry |-> 4, fillEntry |-> 3, moveHead |-> 2, eloVerify |-> 1,
   migrate |-> 12, unlinkReceipt |-> 11, createReceipt |-> 10, fillReceipt |-> 9,
   migrateMarker |-> 9, unlinkMarker |-> 8, createMarker |-> 7, fillMarker |-> 6,
   migrateHead |-> 5, unlinkHead |-> 4, createHead |-> 3, fillHead |-> 2, verifyGenesis |-> 1,
   profileLock |-> 13, upgrade |-> 12, loadProfile |-> 11, loadRules |-> 10, loadRecord |-> 9,
   makeAuthDir |-> 8, createAuth |-> 7, fillAuth |-> 6, writePointer |-> 5,
   verifyUpgrade |-> 4, verifyProfile |-> 3, verifyRules |-> 2, verifyRecord |-> 1,
   restore |-> 6, prepareRestore |-> 5, fillRestore |-> 4, putBack |-> 3,
   recordRestore |-> 2, fillRestored |-> 1,
   schema |-> 1, backup |-> 8, fillBackup |-> 7, prepare |-> 6, fillPrepare |-> 5,
   replace |-> 4, commit |-> 3, fillCommit |-> 2, advance |-> 1]

StepsLeft(p) ==
  Remaining[pc[p]]
  + (IF job[p].kind = "schema" THEN 8 * (CurrentVersion - job[p].at) ELSE 0)
  + (IF pc[p] = "personal" /\ anchor = Nothing THEN 3 ELSE 0)

\* No command goes round for ever: each step ends it or leaves it fewer steps, and
\* nothing that others do to the home gives it more.  A personal installation that
\* starts again after a lost race does not start again twice, and the loop over the
\* versions of an artifact comes to its end.
CommandsRunDown ==
  [][\A p \in Procs : pc[p] # "idle" =>
       /\ StepsLeft(p) \in 0 .. 15 + 8 * CurrentVersion
       /\ \/ pc'[p] = "idle"
          \/ UNCHANGED <<pc[p], job[p]>> /\ StepsLeft(p)' <= StepsLeft(p)
          \/ StepsLeft(p)' < StepsLeft(p)]_vars

\* A sealed selection rests on the trust, the profile, the seal and the snapshot it
\* names, and the catalog in it comes from the libraries that the user selected.
SelectionsRest ==
  \A run \in Runs : Sealed(selection[run]) =>
    LET d == selection[run].discovery
        id == Scope(d)
        catalog == snapshots[id][selection[run].seq].catalog
    IN /\ BindingVerifies(id)
       /\ selection[run].seq \in DOMAIN snapshots[id]
       /\ \A x \in catalog.tokens \cup catalog.assets : AtVersion(x, d)
       /\ \A x \in catalog.sources : x = d.target \/ AtVersion(x, d)

\* There is one authorization, and the rules that it names are retained.  They are of
\* the revision that it names unless another one was installed while they were
\* granted (CalmSpec below); that authorization never becomes effective (SuccessIsTrue).
AuthorizationsRest ==
  /\ Cardinality(auths) <= 1
  /\ \A b \in auths : b.seq \in DOMAIN rules

\* Every version before the artifact's can be restored, but the last one, whose
\* migration may still be uncommitted.
MigrationsRest ==
  /\ \A v \in 1 .. artifact - 1 :
       /\ written["backup"][v] = "whole" /\ written["prepare"][v] = "whole"
       /\ v < artifact - 1 => written["commit"][v] = "whole"
  /\ \A r \in Restorations : restored[r] # Nothing => Sealed(restoring[r])

SealedRests == SelectionsRest /\ AuthorizationsRest /\ MigrationsRest

-----------------------------------------------------------------------------
(* What holds where two commands do not come into each other's way.        *)

Migrating(p) == pc[p] # "idle" /\ job[p].kind = "migrate"

\* "strict partial writes can recover": the enrolment of a home of version 0.2 that
\* has stopped half-way can be repeated, unless the documented refusals apply.
PartialEnrollmentRecovers ==
  /\ anchor # Nothing /\ anchor.host = Legacy
  /\ TrustVerifies /\ OnlyLegacyFiles /\ ~eloDir
  /\ ~\E p \in Procs : Migrating(p)
  => NoGaps /\ (IsTorn(receipt) => MayRemoveReceipt)

\* No two enrolments of the Elo ledger overlap.
OneEnrolment == \A p, q \in Procs : Migrating(p) /\ Migrating(q) => p = q
LoneSpec == Init /\ [][Next /\ OneEnrolment']_vars

\* The rules that an authorization names are of the revision that it names: what is
\* granted is the current candidate (evaluator_upgrade.py:510-524, 588-597).
RevisionsAgree == \A b \in auths : rules[b.seq] = b.rev

\* No profile is installed between the two readings of it that a grant makes.
ProfileStands ==
  UNCHANGED profile[Company] \/ \A p \in Procs : pc[p] # "loadRules"
CalmSpec == Init /\ [][Next /\ ProfileStands]_vars
=============================================================================
