# Design System Guardian: formal model

TLA+ specifications of Design System Guardian (`src/plugins/design-system-guardian`),
with the TLC runs that check them on small instances and the TLAPS proofs that
hold for every instance. Paths below are relative to
`src/plugins/design-system-guardian`; file names without a directory are in
`guardian_core/`.

Contents: [the system](#the-system), [modules](#modules),
[runs](#runs), [findings](#findings),
[what else the checks showed](#what-else-the-checks-showed), [proofs](#proofs),
[abstractions](#abstractions), [not modelled](#not-modelled), [plan](#plan).

## The system

Guardian is a set of short-lived command-line processes. There is no server:
everything one command tells another is in files under the Guardian home, under
a run's directory, under a release root or under a host's skill root. Two
commands can run at any time, and a command can die between any two system
calls. The files fall into two kinds. *Create-once* documents
(`storage.exclusive_write_json`) are opened with `O_EXCL` and then filled, so a
crash leaves a torn file that nobody overwrites. *Replaced* documents
(`storage.atomic_write_json`) are written beside their place and renamed.
Histories are directories of create-once documents with a replaced head or
pointer; much of the difficulty of this code is in what a reader concludes from
a history that another command is writing, or stopped writing. The rest is in
verdicts that are computed once from evidence and computed again, by another
function, from what was sealed.

| Component | State | Operations | Talks to | What is hard | What makes it correct |
|---|---|---|---|---|---|
| Transaction locks: `storage.transaction_lock`, `release._release_lock` | a lock file with a token | acquire until a deadline, release own token | every transaction | create-once races, torn tokens, dead owners | one owner; only a failure leaves a stale lock; no command breaks one or waits for ever |
| v1 catalog evidence: `snapshot.py`, `preflight.py`, `catalog_authority.py` | snapshots, sequence records, pointer, run pins | `ingest_snapshot`, `preflight_snapshot`, load, resume, `load_run_pin` | profile lock; v2 namespace | three writes per promotion, recovery by readers, readers without the lock, pins racing promotions | an append-only register: one snapshot per sequence, no gap, no replay, pins never move |
| v2 rule snapshots: `rule_activation.py` | snapshots, records, pointer, permissions | preview, apply activation, ingest, two recoveries, lock-free load | v1 evidence, profile lock | crossing from one namespace to another, outdated or expired permissions, interrupted first activation | continues the v1 high-water under exactly one permission; v1 is frozen; success means promoted |
| Run lifecycle: `audit.py`, `finalize.py`, `run_artifacts.py`, `post_run.py`, `flutter_runner.py`, `cli.py` | create-once artifacts of a run | audit, finalize, report, assess | pin, project sources, evaluator authorization, judgment | every artifact is a crash point; two finalizations; a source that expires or is edited between audit and finalization | the artifacts agree; the sealed verdict is the attested one or a blocked source; nothing is taken back |
| Verdicts: `audit.py`, `resolver.py`, `ux_evaluator.py`, adapters | none | evaluate, derive again, project, override | finalization, judgment | two computations of one verdict, several lanes, order of precedence | both agree; a lane lost or a source blocked never makes a verdict milder |
| Judgment: `judgment_assessment.py`, `judgment_decisions.py` | one sealed assessment, decision records, head | preview, apply, revoke, status | run artifacts, profile lock | retries of what was decided, torn records, status without the lock | only finalized runs that nothing else blocks are decided; approvals and revocations alternate; a replay decides nothing |
| Trust anchor and policy: `policy.py`, `release.py` (enrolment) | trust directory, capability, release authority | install, enrol, migrate | everything that verifies | two first installations at once, crashes before a rename, no lock | trust that is in place is never replaced |
| Elo history: `elo.py`, `policy.py` (enrolment of a 0.2 home) | entries, head, receipt, marker | evaluate, recover, enrol | trust anchor | an entry is written before the head; rival enrolments | a chain of evaluations: a bounded step of the score, only for a reason; an achievement counts once; the head is at most one entry behind |
| Onboarding, profiles: `onboarding.py`, `profile.py` | a home beside its place, profile revisions | apply, install a profile | trust, catalog ledger | a home assembled while another appears; a profile replaced without a lock | what succeeded is there; nothing is lost |
| Personal selection: `personal_selection.py` | per-run selection, personal trust, profile, seal, catalog | preview, apply, retry | trust, profile, catalog | looked up first, written last, no common lock | a sealed selection rests on what it names |
| Evaluator upgrade: `evaluator_upgrade.py` | one authorization record and its pointer | preview, apply, recover, list | rule history, profile | torn between record and pointer; rules advance and expire; the profile is replaced between two readings of it | one authorization, for retained rules; granted only if they are of its own revision |
| Migrations: `migrations.py` | prepare and commit records, backup, target | migrate, restore | profile lock | the target is replaced before its commit record | old or new document, always restorable |
| Release channels: `release.py`, `release_head_provider.py` | archive, events, state of two channels | promote, restore, read | release lock, clock, runtime | four writes per action, deaths inside them, lock-free reads of three places, a clock that steps back | a log per channel: versions rise, stable follows canary |
| Skill installer: `scripts/install_agent_skills.py` | two skill folders, stage, backup, journal | install, recover, status | host's skill root | crash between renames, failure inside the recovery, foreign edits | both skills or neither; last good copy kept; nothing foreign is touched |
| Adapters: `figma_adapter.py`, `flutter_adapter.py`, `flutter_config.py`, `adapters/` | none (a staged copy during an analysis) | accept, compile, run, normalize | audit | caller-carried evidence, rules that are not compiled, sources that change under the analyzer | positive claims are only made of what was analysed |

The hazards, at their lines, are listed in `PROJECT.json` with the properties
that cover them.

## Modules

A component with state has a specification of what it promises, a detailed
module that follows the code one file operation at a time, an `MC` module with
the instance, and where it is proved about, a `_proofs` module.

| Promise | Detailed modules | Code |
|---|---|---|
| `ProfileLock` | `TransactionLock` | `storage.py:65-127`, `release.py:590-640` |
| `CatalogRegister` | `CatalogLedger` | `snapshot.py`, `preflight.py`, `catalog_authority.py`, `evaluator_upgrade.list_rules` |
| `CatalogRegister` | `RuleLedger` | `rule_activation.py` |
| `RunRegister` | `RunLifecycle`, over `AuditVerdict`, `FlutterAnalysis`, `FigmaAnalysis`, `JudgmentAssessment` | `audit.py`, `finalize.py`, `run_artifacts.py`, `post_run.py`, `flutter_*.py`, `figma_adapter.py`, `judgment_assessment.py`, `cli.py` |
| `DecisionRegister` | `JudgmentHistory` | `judgment_decisions.py` |
| `ChannelRegister` | `ReleaseChannel` | `release.py` |
| `InstallRegister` | `SkillInstaller` | `scripts/install_agent_skills.py` |
| `EloRegister` | `EloLedger`, within `GuardianHome` | `elo.py` |
| (properties of the composition) | `GuardianHome`, of `TrustAnchor`, `EloLedger`, `Onboarding`, `PersonalSelection`, `EvaluatorUpgrade`, `Migrations` | `policy.py`, `elo.py`, `onboarding.py`, `profile.py`, `personal_selection.py`, `evaluator_upgrade.py`, `migrations.py` |

How they fit together:

* `TransactionLock` shows that the lock *file* implements `ProfileLock`. The
  ledgers take that lock in one step (`Acquire`, `GiveUp`, `Exits`,
  `RemoveStaleLock` are its `Take`, time-out, `GiveBack` and `Clear`; a crash is
  `Abandon`). Theorem `Transactions` of each ledger says that they keep to
  `ProfileLock`, and that no file changes but by a step of the owner.
* `RuleLedger` sees v1 through the register that `CatalogLedger` implements: the
  promoted snapshots and whether a read-only verification succeeds.
* `GuardianHome` composes six components that share one home. They meet in the
  trust directory, the installed profile, the catalog snapshots and the lock;
  each keeps its own state in its own variables. An *agenda* says which commands
  are started in a behaviour.
* `RunLifecycle` starts from a pin, whose life `CatalogLedger` models, and ends
  where a judgment assessment is stored; the decisions about it are
  `JudgmentHistory`'s. Its pure parts are modules of their own:
  `FlutterAnalysis` and `FigmaAnalysis` make evidence, `AuditVerdict` makes
  verdicts of it, `JudgmentAssessment` makes assessments of both.

A definition has the name of the function it models, or of the branch. A
command is a process `p`; `pc[p]` names the next system call of it, so a reader
of `CatalogLedger` finds ingestion as

    Acquire -> ReadPointer -> ReadRecords -> ReadSnapshots -> (repair) -> decide
            -> CreateSnapshot -> FillSnapshot -> CreateRecord -> FillRecord
            -> WritePointer -> Return

with one action for every early return, `WriteFails` for a write that raises and
`Crash` for a process that dies; and in `RunLifecycle` an audit as

    AuditFlutter -> Scan -> Stage -> Analyze -> Create, Fill (attestation) -> Done

and a finalization as `Finalize -> Check ->` a `Create` and a `Fill` for each
artifact, in the order of `Writes`. The variables are the files and what each
command has read so far. Definitions called `Mut_...` are plausible mistakes in
the code. They are not used by any specification: each one, put in place of the
definition it varies, makes the property fail that `PROJECT.json` lists for it,
which shows that the property depends on that part of the code.

## Runs

Each run explores every reachable state of its instance.

| Run | Instance | What it shows |
|---|---|---|
| `catalog_ledger` | 2 commands, 5 operations, sequences 1..3, 2 rival approvals each, 1 fault | the files implement the register; one snapshot per sequence even when torn; a verification that succeeds saw no leftovers; pins stay; the pointer moves up under the lock |
| `rule_ledger` | 2 commands, 4 operations over both namespaces, sequences 1..3, 2 rivals, 2 grants, 1 fault | v1 and v2 together implement one register; every v2 snapshot rests on one exact permission; v1 is frozen from the first v2 path on; success means promotion; evidence that is neither torn nor an empty directory can be completed |
| `transaction_lock` | 3 commands, 2 faults, both lock files | one owner; only failures make a lock stale; every command ends; fault-free transactions free the lock again and again |
| `run_lifecycle` | 2 processes, 3 commands, 3 pins (company Flutter with a fresh and with an unavailable source, personal Figma), 2 trees, 1 tick, 1 mishap (edit, rebinding, approval, failed write or crash) | the artifacts of a run agree at every moment; no sealed verdict is milder than attested, and none is a pass; evidence is given once and in order |
| `judgment_history` | 2 commands, 4 operations, 4 decisions, 2 assessments, 2 choices, 2 faults | decisions alternate; no decision without its sealed assessment; replays decide nothing; success means in force; `not_assessed` is true when it is said; untorn histories can be completed |
| `guardian_home` | 2 processes, 11 agendas with up to 4 commands each, 1 fault | trust is never replaced; a reported success is true whatever runs beside it; the Elo history is a chain of evaluations in which an achievement counts once, and its head keeps up with it; sealed selections and migrations rest on what they name, the one authorization on retained rules; no command goes round for ever |
| `release_channel` | 2 builds, 2 runtimes, both channels, sequences 1..3, 2 times of issuance, 2 interruptions, deaths inside a write or steps back of the clock | archive, events and state stay within one action; exactly the interrupted action can be completed, unless its file is torn; a lock-free read returns what is newest; each channel is a log in which versions rise and stable follows canary |
| `skill_installer` | 2 package roots, 2 versions, 3 transactions, 2 faults, edits and checkouts between runs | one atomic, never downgrading replacement; last good copies are kept; no copy is stranded; recovery is repeatable; foreign folders are left alone; reports are true |
| `catalog_pointer`, `rule_recovery`, `elo_migration`, `installer_rollback` | small instances of the same modules | the [findings](#findings) |

**Why the bounds are enough.** Commands meet in pairs: a lock admits one, and
every race in this code is between two commands (its owner and one outside of
it, or two that take no lock). Three commands are used where a third matters,
for the lock itself: an owner, one that leaves and one that arrives. Three
sequences give a first, a next and a newest entry, which covers "the first one",
"the successor" and "older than the high-water"; four decisions give approve,
revoke, approve again and revoke again. Two rivals distinguish "the same" from
"another one". One fault interrupts a transaction at any step and lets every
later command meet the leftovers; in the installer, the judgment history and the
release channels two faults also interrupt the recovery from the first one. The
eleven agendas of `guardian_home` are the groups of commands that share state;
the larger ones have room for a command, its failure, its repetition and a rival.
One, with four commands, installs another revision between the readings of a grant
and the old one again after it. The benchmark has five results of three packages and
weights at which the cap of an evaluation binds. In `release_channel` the newer build and every restoration are
issued at the second of two times, so that one step back of the clock goes below an
issuance. In
`run_lifecycle` three commands are an audit and two finalizations (rival or
repeated), or an audit, a finalization and a judgment; one tick takes the fresh
pin to `stale` and the unavailable one out of its offline grace, which are the
ways a source comes to block between two commands. Where there
is a proof it does not depend on any of these bounds.

**Symmetry** is used over processes, commands, digests, assessments and choices,
which the specifications only compare for equality, and not where liveness is
checked.

**Deadlock** is checked where something can always happen: a command can be
started, or an operator, a user or the project can act. In `guardian_home` and
`elo_migration` the agenda comes to an end, in `release_channel` the signed
actions and the clock, in `run_lifecycle` the budget of commands; their
configurations switch the check off.

**Fairness** is assumed only in `TransactionLock`, and there only of a command
that already runs: its own steps (`WF` of `Step(p)`: the operating system
schedules it, its transaction ends) and its clock (`WF` of `Deadline(p)`). No
command has to start, and nobody has to remove a stale lock, so liveness is
`CommandsEnd` (a started command ends, by success or time-out) and
`FreedWithoutFaults`. The code has no other loop that waits for another process,
so the remaining modules are checked for safety only. That the commands of a home
come to an end is safety there: `CommandsRunDown` counts the steps left to each.

## Findings

Four statements of the repository are contradicted by the code. Each has a run
whose counterexample shows how.

1. `catalog_pointer` (`evaluator_upgrade.py:912`): `rules list` runs the
   recovering load without the profile lock and can put an old pointer over a
   newer one. `catalog_authority.py:445` says the lock prevents this. After it
   every verification fails.
2. `rule_recovery` (`rule_activation.py:579`): a failed first write leaves an
   empty directory, which counts as evidence and as damage; no retry completes
   the activation and v1 stays frozen. The activation design says an interrupted
   apply recovers deterministically.
3. `elo_migration` (`policy.py:464`): the enrolment of the Elo ledger of a 0.2
   home takes no lock and unlinks by name a receipt that it judged half written
   some steps before. Of two enrolments, without any fault, one removes the
   receipt that the other has completed, and no later command accepts what is
   left; the documentation says that strict partial writes can recover.
4. `installer_rollback` (`scripts/install_agent_skills.py:1028`): a rollback
   that is interrupted while it removes a promoted folder leaves a folder that
   later recoveries refuse, although the backup is intact.
   `docs/INSTALLING.md:207` says that the journal rolls back.

For the third a theorem says when the statement does hold: an enrolment can be
repeated as long as no other one overlaps with it (`LoneEnrolmentRecovers`).

## What else the checks showed

Facts about the code that the models make visible and that are not, or not
clearly, in conflict with a sentence of the repository.

*Runs and verdicts*

* No audit passes (theorem `NothingPasses`): the protected enforcement lane is
  `not_assessed` in every build, so the exit code is at least `coverage`. The
  special cases for a passing audit in finalization, report and assessment are
  therefore dead, and a build plan's own code never decides
  (`PlanChangesNothing`).
* A company run whose rule snapshot has a judgment rule can never be decided by
  its owner (theorem `JudgmentRuleUndecidable`). `flutter_config.py:543` compiles
  no judgment rule, so the Usage Rules lane lists it as not covered, and
  `judgment_assessment.py:478` blocks on that lane. The project's overview and
  the plugin's README (section "Exact-run subjective judgment decisions")
  describe that decision as available; what they allow is left to runs
  whose assessment holds inherited UX instances only. A run with
  caller-carried evidence cannot be decided either (`CarriedEvidenceUndecidable`).
* The Flutter runner lists the project's sources before and after the analysis,
  but does not compare its staged copy with either list (`flutter_runner.py:780`).
  A source that is edited before the copy and edited back after it is attested
  under a tree that was not analysed, although `adapters/flutter/README.md:82`
  promises to reject changes during the run (`AnalyzedAsAttested` is not an
  invariant of `Spec`; TLC finds the behaviour with two edits). It is the only way:
  while nobody edits the sources between list and copy, the attested tree is the
  analysed one (theorem `UndisturbedIsAsAttested`). The search for suppressions
  reads the project between the two as well (`flutter_runner.py:722`), so it can
  find those of a third state of the tree.
* A finalization accepts the v1 projection of a v2 audit and then seals a result
  without the Usage Rules lane. The exit code stays what it was
  (`V1KeepsTheCode`), since the lane agrees with the inherited ones.
* Identities are resolved again as of the current time, not as of the completion
  time of the manifest (`finalize.py:135`): once the source has expired, a
  finalization with resolutions can neither be begun nor repeated.
* An evaluator authorization that is approved between audit and finalization
  changes the configuration that is generated again, and the finalization is
  refused; the run has to be audited again, which its attestation does not allow.
* A finalization with a plan that dies before its manifest and is repeated
  without one leaves the plan as an orphan (`finalize.py:309`). No reader
  follows it.
* A torn readable report is never repaired (`run_artifacts.py:735`): the one
  artifact whose failed write is not removed stops every later finalization.
* An override of the design status with a source state is refused for a result
  whose design status is `invalid`, since invalid outranks every source.
* An audit with Usage evidence refuses (rather than reports) a usage violation
  beside an invalid resolution, and invalid usage evidence beside valid ones:
  the lanes then disagree.

*The home*

* A crash of the first installation leaves a `.trust.*` stage beside the trust
  directory. Installing works afterwards; `apply_onboarding` refuses the home.
* Torn capability, binding, selection, authorization and migration records are
  never repaired by a command.
* A home with personal trust only is reported as incompatible by the onboarding
  inspection.
* Installing another profile revision makes the catalog and rule history of the
  former one unloadable until that one is installed again.
* A grant of the second evaluator reads the profile twice, without its being locked:
  `evaluator_upgrade.py:512` for the revision, `rule_activation.py:640` for the
  rules, and compares nothing. If another revision is installed in between, an
  authorization is written that names one revision and the rules of the other. The
  verification after the write refuses it, so it is never reported as granted and
  never effective, but no command repairs or replaces it: the upgrade of the profile
  is blocked for good. A refresh of the rules can append a snapshot of another
  revision in the same way (`rule_activation.py:1231`, `1237`), after which the
  history loads under neither.
* A torn entry of the Elo history, left by a death inside its write, blocks every
  later evaluation; a recovery completes only a missing head.
* A pin is not renewed once the source state or the snapshot has changed; the
  run keeps the first one or is refused.

*Release channels*

* A death inside `_write_once_json` or `_archive_artifact` (`release.py:541-602`)
  leaves a torn create-once file. A torn manifest stops both channels, because every
  read opens every manifest; a torn event stops its channel, and stable if it is
  canary's; a torn artifact lets no promotion of its build past the artifact. No
  command repairs any of them.
* A clock below the issuance of any archived manifest makes the reads of both
  channels, and with them the retry of an interrupted action, fail until it has
  caught up (`release.py:525`); below a record, those of its channel.

## Proofs

TLAPS checks the theorems for all values of the constants under the named
assumptions of the modules: sequences are positive numbers, bounds are natural
numbers, and the special values (`Nothing`, `Torn`, `Free`, `Stale`, ...) are
none of the ordinary ones. TLC evaluates those assumptions in the runs. The
theorems about behaviours have one argument: an inductive invariant, preserved
by each action, implies the state properties, and under it each step has the
property or maps to a step of the promise.

* **`TransactionLock_proofs`**: `LockInvariant`, `TransactionsExclude`,
  `LockRefinement`. The code checks the token before it unlinks, not while it
  unlinks. `LockInv` says why this is enough: as long as a command is inside,
  the file exists, so nobody else creates one, so the content stays its own.
* **`CatalogLedger_proofs`**: `LedgerInvariant`, `MutualExclusion`, `NoFork`,
  `DeadBranches`, `Completeness`, `AlignedVerification`, `PinStability`,
  `PointerDiscipline`, `Refinement`, `Transactions`. "One snapshot per sequence" is not
  inductive alone. `LedgerInv` adds who is inside the lock (`LockOwner`), what
  that command established at each label (`Progress`: what it verified is still
  the high-water), and that everything a file names is promoted (`Grounded`).
* **`RuleLedger_proofs`**: `RuleInvariant`, `ExactPermission`, `V1Freeze`,
  `Completable`, `Success`, `Refinement`, `Transactions`. `RuleInv` adds the lineage: promoted
  v2 snapshots form a chain from the v1 high-water, with at most one unfinished
  snapshot after it, and the unfinished one rests on a granted permission.
* **`JudgmentHistory_proofs`**: `JudgmentInvariant`, `Evidence`, `Completable`,
  `Success`, `NotAssessed`, `Refinement`, `Transactions`. `JudgmentInv` adds that decided
  records are a chain under the head and at most one record, whole or torn,
  follows it, and, for a reader without the lock, that what it has read is
  still part of the history.
* **`SkillInstaller_proofs`**: `InstallerInvariant`, `Stranded`, `LastGood`,
  `Repeatable`, `Edits`, `ReportsTrue`, `Refinement`. "All old or all new" holds
  only at rest. `InstallerInv` says what holds in between: of every skill the
  journal calls existing, the old copy is in its place or in the backup
  (`PreparedInv`); nothing lies in a directory the journal does not name
  (`NothingStranded`); what a run may rely on at each label (`ChecksInv`,
  `TryInv`, `RecoveryInv`).
* **`ReleaseChannel_proofs`**: `LedgerStands`, `ReadersAreCurrent`,
  `Completable`, `Refinement`. `Completable` has two conditions that the code needs:
  the clock has caught up with all issuances and records, and no file that the
  channel's reads open is torn. An interrupted action is completed much later, by
  a command that judges it anew. `IInv` adds that what made an archived action
  admissible stays true until it is applied (`Admissible`): nothing else can be
  archived on its channel meanwhile, the other channel only grows, and the proof
  an action has to carry is unique (`OneProof`), because versions rise. A retry
  therefore writes the very event it finds (`SameEvent`). Readers are current
  because the archive is read last: an archive without a surplus means that
  nothing has happened since the events were read.
* **`RunLifecycle_proofs`** has three parts. The first is about every result and
  assessment, not about behaviours. On verdicts: `RecomputedCode`,
  `NothingPasses`, `PlanChangesNothing`, `V1KeepsTheCode`, `OverrideIsNoMilder`.
  The design status is what connects the two computations of a verdict: the
  evaluation sees the source's state, the derivation only the design status, and
  `DesignOfSource` says that it carries the worst blocking source there was. On
  adapters and assessments: `RunnerResultNormalizes`,
  `CarriedEvidenceUndecidable`, `JudgmentRuleUndecidable`,
  `OnlyWholeDecisionsApprove`. An assessment is decidable only if the design is
  allowed, so only with complete coverage; the theorems follow that requirement
  back to the adapters.

  The second part is about the files of a run: `ArtifactsAgree`,
  `GivesTheEvidenceOnce`. `RunInv` says what the files mean and does not know
  what running commands are about to write. `RunIInv` adds that every writing
  command works off one *job*, a function from kinds to contents: what is not on
  its list any more is stored as the job says, the manifest comes after all it
  names and the assessment after it (`Rank`), and the job agrees with the
  attestation. A readable file never changes (`Keeps`), so that what a job agreed
  with stays, whatever the other commands do. That a sealed verdict is not milder
  than the attested one rests on `OverrideIsNoMilder`.

  The third part is `UndisturbedIsAsAttested`, about the behaviours in which
  nobody edits the sources while a command is between its inventory and the copy,
  the search for suppressions included (`UndisturbedSpec`). What it carries from step to step is that the copy is the
  inventory, from the staging to the attestation.
* **`GuardianHome_proofs`**: `TrustIsForGood`, `AchievementsCountOnce`,
  `ScoreMovesAsDeserved`, `HistoryIsAChain`, `HeadIsNeverFarBehind`,
  `HistoryStandsForGood`, `LoneEnrolmentRecovers`, `SealsRestOnWhatTheyName`,
  `UndisturbedGrantsAgree`,
  `SuccessIsReportedTruly`, `HomeIsWellFormed`, `CommandsTakeFiniteSteps`. The
  components share little, so the invariant is one for the life of a command and
  one for each component. `CommandsFit` says
  which steps a command of each kind passes and what its job holds there, so that
  a component need only look at the commands that enter its steps. `TrustRests`
  and `SealRests`: a torn file belongs to the one command that fills it, which is
  why filling it replaces nothing. `EloRests` and `EntriesRest`: only the holder
  of the receipt lock is past it, what it is about to append follows the newest
  entry, and every entry knows what was passed before it. `HoldersRest`: who
  writes under the profile lock holds it; `UpgradeRests` and `MigrationRests` rest
  on it. Holding it does not keep the profile: `SealsRestOnWhatTheyName` says of the
  authorization that it is one and that its rules are retained. That they are of its
  own revision is `UndisturbedGrantsAgree`, about the behaviours in which no profile
  is installed between the two readings of a grant (`CalmSpec`); what it carries from
  the first reading to the record is that the installed revision is the granted one. `SelectionInv`: a command about to record a selection has a seal that
  verifies and a retained catalog, and neither is lost (`GroundStays`), although
  external trust does not verify while another command adds a capability to it
  (`TrustStaysVerified` is therefore about personal trust only). `ReportInv` joins
  them: what a command is about to report is established at its last check, and
  none of what a report says can be taken back afterwards (`SuccessStays`: trust,
  seals and authorizations stay, entries and the company's snapshots only grow
  once there is trust, a recorded restoration keeps its preparation). Assumed of
  the constants: a whole file is told from a missing or torn one
  (`AnchorAssumption`, `VersionAssumption`, `BundlesAssumption`,
  `RequestsAssumption`), and every scope that an acceptable request has is a
  profile (`RequestsAssumption`).

  On the score: `ScoreMovesAsDeserved` is about the arithmetic alone, for every
  suite and any weights. The sums over achievements and categories are folds, and
  what a fold over a finite set computes is proved by taking a smallest subset on
  which the claim fails, so that no induction over data is needed. With
  `EntriesRest` it follows that every append is an `Evaluate` of `EloRegister`
  (`HistoryIsAChain`).

  On the head: `HeadRests` says that in a home installed afresh (whose anchors an
  enrolment never gets past its first look at) the anchors are whole and the head
  names the last entry or the one before. `PlaceRests` is why: an evaluation under
  the receipt lock has completed the head before it decides.

  On enrolments: in the behaviours of `LoneSpec`, where no two of them overlap, each
  anchor of a 0.2 home is begun when the one before it is whole (`InOrder`), and
  what a command has seen of the anchors is still so when it acts on it
  (`StageRests`). Evaluations that run beside the enrolment replace the head; they
  do no harm, because an evaluation accepts no torn head and an enrolment takes
  away no whole one. So what an enrolment leaves half-way can always be taken up
  again (`LoneEnrolmentRecovers`).

  On the end of commands: `StepsLeft` bounds what is left of a command at each
  label. It falls with each step of the command and never grows with a step of
  another one; the one jump back, a personal installation that has lost the race to
  place the trust, is paid for by the trust that is then there for good.

  Assumed about the history: entries and heads are told from missing and torn
  files (`EntryAssumption`, `FileAssumption`), and the suite is finite with
  positive weights (`SuiteAssumption`).

Only model-checked: the liveness properties `CommandsEnd` and
`FreedWithoutFaults` (fairness and `ENABLED` are out of the prover's reach), and
the four findings, which are counterexamples.

## Abstractions

* *Documents.* A snapshot, record or permission is a record of the fields that
  decisions depend on. A digest stands for the document itself. A digest or seal
  that does not verify is a torn file: the models do not separate incomplete
  writes from tampering.
* *Lock.* Outside `TransactionLock` the lock is taken in one step.
  `ImplementsLock` justifies this for the lock file. An operator removes a
  stale lock only when its owner is gone, as the documentation asks; in
  `GuardianHome` at once.
* *Reads under the lock.* In `RuleLedger` and `JudgmentHistory` a load under the
  lock is one step, because only the owner writes those files (theorems
  `Transactions`). `CatalogLedger`
  keeps them separate, since `rules list` writes without the lock. Reads without
  the lock are one step per directory or file in the ledgers, and one step per
  reading of a document in `EvaluatorUpgrade`. Some are merged. A release action is
  verified before its lock is taken and read about under it; both are `Begin`, and
  the one thing that can change in between, the clock, is looked at again by
  `WriteEvent`. `Check` and `Reopened` of `RunLifecycle` read pin, configuration,
  authorization, attestation and tree in one step (`finalize.py:215-256`): pin
  and attestation are created once and never change, and a change of the others
  between two readings can only be seen as it was at one of them or make the command
  refuse, which it may do at that point anyway.
* *v1 inside `RuleLedger`.* `v1State` is `whole`, `unpointed` (the pointer is
  missing and a read-only verification fails) or `broken`; `V1StrayRepair`
  stands for finding 1, so that no v2 property rests on the pointer discipline.
* *Pins.* `FillPin` pins any retained snapshot: a company preflight takes the
  high-water, a personal one the snapshot that was selected, which may be older.
* *Time.* Freshness is the action `Expire` or `Tick`, enabled at any time. In
  `RunLifecycle` the time is the age of the pinned snapshot in the steps that
  classification knows; the three clock readings of an audit are one. Two
  finalizations of one tick therefore have equal manifests in the model, where the
  code tells their completion times apart and refuses the second
  (`finalize.py:389-395`). The model only admits more: a refused finalization leaves
  what a crash at that point leaves.
* *Permissions.* Any permission may be presented at any time, also a used or a
  rival one. In `JudgmentHistory` a permission's reference to the previous
  record is its sequence: the referenced record is never removed or replaced.
* *Verdicts.* A requested identity is its relation to the pinned catalog, a
  category is the component category or one of the rest, diagnostics are usage
  rules or other lints. Counts, positions, packages, the toolchain, the equality
  of the UX target with Figma's, and the source state inside the pin are left
  out. A pin is `valid` for Figma if every approved token has its exact binding, as
  the configuration demands of all of them before an observation is looked at.
  What a caller may bring to a finalization is what was printed for the
  run, its v1 projection, or an evaluation of other requests over the same
  evidence (`Claims`): everything else fails a digest.
* *Judgment in `RunLifecycle`.* `Judge` stores the assessment; its lock and
  decisions are `JudgmentHistory`'s, where which assessments a run's artifacts
  allow is a constant set.
* *The home.* A catalog ingestion and an advance of the rules are one step, as
  their ledgers justify. Explicit installation of profiles is of the company
  profile only. The results of benchmarks, discoveries and bundles are constant
  sets.
* *Release channels.* The public functions stop before any of the modelled
  steps, because this build has no external head; what is modelled is what they
  call behind that stop. A reader may also meet a file that is just being written;
  this only makes it refuse and is left out.
* *Installer.* The kernel lock is given up when a process dies, and a second
  installer stops at once: the model has the one run that holds it. Users edit
  and check out only between runs. A folder counts as complete exactly when
  `validate_managed_skill` accepts it; the digest list is written last and is
  wrong as soon as one file is removed, so copies and removals have one state in
  between (`Broken`). A host lock is an exception that can occur at each rename
  and at the commit.
* *Bounds.* `MaxFaults`, `MaxMishaps`, `MaxCommands`, `MaxTicks`, `MaxGrants`,
  `MaxInstalls` and the agendas occur in guards only; beyond `MaxInstalls` an
  installation stops as if its stage could not be made.

## Not modelled

Cryptography, canonical JSON, path containment and schema validation (their
verdicts are inputs of the models); the Python runtime an installation may
provision; the import of DTCG tokens, the validation of single rules and the
reconciliation of two catalogs, which are functions of documents without state;
the collector inside Figma and the Dart lint rules, which are what the adapters
get their observations from; the toolchain and package checks; argument parsing,
printing, packaging and repository lints; the byte-range lock of
`storage.py:193-258`, which is the operating system's; and the status report of
the installer, which reads the two skills one after the other.

## Plan

Done: locks, v1 evidence, v2 rule snapshots, judgment decisions, skill
installer, the composed home, release channels, verdicts, adapters, the
assessment and the run lifecycle, and proofs about all of them.

What is left, in the order of what it would add:

1. `CatalogLedger` and `RuleLedger` inside `GuardianHome` in place of the single
   steps that stand for them; this needs their refinements as lemmas rather than
   a larger run.
2. The preflight of a run inside `RunLifecycle`, so that the pin is created by
   one of its commands.
3. Operators with reference definitions for DTCG alias resolution and for the
   reconciliation of catalogs.
