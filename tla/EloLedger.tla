------------------------------ MODULE EloLedger -------------------------------
(***************************************************************************)
(* The Elo history of a home (elo.py) and its enrolment in a home of       *)
(* version 0.2 (policy.py).  An evaluation compares two sealed benchmark   *)
(* results, appends an entry and then moves the protected head, under a    *)
(* kernel lock on the receipt, which dies with its process.  Enrolment     *)
(* takes no lock: it creates receipt, marker and head in this order, and   *)
(* replaces what an interrupted enrolment has left half written.           *)
(*                                                                         *)
(* Results and entries are sealed: they are what a benchmark and an        *)
(* evaluation of this home wrote.  One suite, runtime and policy is        *)
(* installed for the life of the home.                                     *)
(***************************************************************************)
EXTENDS TrustAnchor, Functions

CONSTANTS Categories,   \* of achievements
          Cap,          \* the most a category can move the score
          Achievements, \* the cases of the suite
          Category,     \* of an achievement
          Weight,       \* of an achievement
          EvaluationCap, ScoreMax,
          Packages,     \* the canonical packages that were benchmarked
          Version,      \* the rank of a package among public versions
          Bootstrap,    \* the package that the shipped score starts from
          Results       \* the sealed benchmark results

ScoreMin == 1
Statuses == {"passed", "failed", "mixed"}

ASSUME SuiteAssumption ==
  /\ IsFiniteSet(Categories) /\ IsFiniteSet(Achievements)
  /\ Category \in [Achievements -> Categories]
  /\ Weight \in [Achievements -> Nat \ {0}]
  /\ Cap \in [Categories -> Nat]
  /\ \A c \in Categories : \E a \in Achievements : Category[a] = c
  /\ EvaluationCap \in Nat /\ ScoreMax \in Nat /\ ScoreMin <= ScoreMax
  /\ Version \in [Packages -> Nat] /\ Bootstrap \in Packages
  /\ Results \subseteq [package : Packages, status : [Achievements -> Statuses], take : Nat]

\* What an entry may hold; one is told from none.
Entries ==
  [seq : Nat \ {0}, base : Results, cand : Results,
   new : SUBSET Achievements, ids : SUBSET Achievements, score : ScoreMin .. ScoreMax]

ASSUME EntryAssumption == Nothing \notin Entries

VARIABLES
  entries,   \* the files of the Elo history
  tornEntry, \* whether one of them was created but not filled
  eloDir,    \* whether the history directory exists
  eloLock    \* the process that holds the lock on the receipt

history == <<entries, tornEntry, eloDir, eloLock>>

-----------------------------------------------------------------------------
(* What an evaluation is worth.                                            *)

PassedIn(result) == {a \in Achievements : result.status[a] = "passed"}
FailedIn(result) == {a \in Achievements : result.status[a] = "failed"}

Clamp(low, high, n) == IF n < low THEN low ELSE IF n > high THEN high ELSE n
RoundHalfUp(n, d) == (2 * n + d) \div (2 * d)

WeightOf(S) == SumFunctionOnSet(Weight, S)
In(c, S) == {a \in S : Category[a] = c}

\* Fault variant: what was awarded before is forgotten.
Mut_NewlyPassed(ids, base, cand) == PassedIn(cand) \ PassedIn(base)

\* An achievement counts when it is first passed, never again.
NewlyPassed(ids, base, cand) == (PassedIn(cand) \ PassedIn(base)) \ ids

Lost(base, cand) == PassedIn(base) \ PassedIn(cand)
Regressed(base, cand) == Lost(base, cand) \cap FailedIn(cand)

\* Fault variant: an unconfirmed loss costs nothing.
Mut_CategoryDelta(c, ids, base, cand) ==
  LET net == WeightOf(In(c, NewlyPassed(ids, base, cand)))
             - WeightOf(In(c, Regressed(base, cand)))
      total == WeightOf(In(c, Achievements))
  IN IF net < 0 THEN -RoundHalfUp(Cap[c] * (-net), total)
     ELSE RoundHalfUp(Cap[c] * net, total)

\* An unconfirmed loss takes every gain away.
CategoryDelta(c, ids, base, cand) ==
  LET net == WeightOf(In(c, NewlyPassed(ids, base, cand)))
             - WeightOf(In(c, Regressed(base, cand)))
      total == WeightOf(In(c, Achievements))
  IN IF net < 0 THEN -RoundHalfUp(Cap[c] * (-net), total)
     ELSE IF Lost(base, cand) # Regressed(base, cand) THEN 0
     ELSE RoundHalfUp(Cap[c] * net, total)

Delta(ids, base, cand) ==
  Clamp(-EvaluationCap, EvaluationCap,
        SumFunction([c \in Categories |-> CategoryDelta(c, ids, base, cand)]))

Latest == CHOOSE e \in entries : \A f \in entries : f.seq <= e.seq

\* The entry that evaluates cand against base after the retained history.
EntryFor(base, cand) ==
  LET first == entries = {}
      ids == IF first THEN {} ELSE Latest.ids
      score == IF first THEN ScoreMin ELSE Latest.score
  IN [seq |-> Cardinality(entries) + 1,
      base |-> base, cand |-> cand,
      new |-> NewlyPassed(ids, base, cand),
      ids |-> ids \cup PassedIn(base) \cup PassedIn(cand),
      score |-> Clamp(ScoreMin, ScoreMax, score + Delta(ids, base, cand))]

\* The baseline is the package accepted last, the candidate a newer one.
Continues(base, cand) ==
  /\ base.package = IF entries = {} THEN Bootstrap ELSE Latest.cand.package
  /\ Version[cand.package] > Version[base.package]

-----------------------------------------------------------------------------
(* What a read of the ledger accepts.                                      *)

Before(e) == CHOOSE f \in entries : f.seq = e.seq - 1
HeadAfter(e) == [ledger |-> anchor.host, entry |-> e]

\* An anchor that somebody has created and not filled yet, or never will.
TornBy(p) == [torn |-> p]
IsTorn(file) == file \in {TornBy(p) : p \in Procs}

\* An authority is not taken for such a file, nor a head for a missing one.
ASSUME FileAssumption ==
  {TornBy(p) : p \in Procs} \cap Hosts = {}
  /\ Nothing \notin [ledger : Hosts, entry : Entries \cup {Nothing}]

AnchorsAgree ==
  receipt = anchor.host /\ marker = receipt /\ head # Nothing /\ ~IsTorn(head)

HeadIsLatest ==
  head.entry = IF entries = {} THEN Nothing ELSE Latest

\* Only the last append is missing from the head.
HeadIsBehind ==
  /\ entries # {} /\ head.entry # Latest
  /\ head.entry = IF Latest.seq = 1 THEN Nothing ELSE Before(Latest)

LedgerReads == AnchorsAgree /\ ~tornEntry

-----------------------------------------------------------------------------
(* evaluate_elo.                                                           *)

BeginEvaluate(p) ==
  /\ \E b, c \in Results : b # c /\
       Begin(p, [kind |-> "evaluate", base |-> b, cand |-> c, entry |-> Nothing], "evaluate")
  /\ UNCHANGED <<trust, history>>

\* Trust, results and anchors are looked at before the lock.
EvaluateChecks(p) ==
  /\ pc[p] = "evaluate"
  /\ IF TrustVerifies /\ receipt # Nothing /\ marker # Nothing /\ head # Nothing
       THEN Step(p, "eloLock") ELSE Refuse(p)
  /\ UNCHANGED <<trust, history>>

\* Fault variant: evaluations do not wait for each other.
Mut_LockRegardless(p) ==
  /\ pc[p] = "eloLock"
  /\ eloLock' = p
  /\ Step(p, "eloRead")
  /\ UNCHANGED <<trust, entries, tornEntry, eloDir>>

LockReceipt(p) ==
  /\ pc[p] = "eloLock"
  /\ eloLock = Nothing /\ receipt # Nothing
  /\ eloLock' = p
  /\ Step(p, "eloRead")
  /\ UNCHANGED <<trust, entries, tornEntry, eloDir>>

\* The deadline passes, or the receipt has gone.
LockRefused(p) ==
  /\ pc[p] = "eloLock"
  /\ eloLock # Nothing \/ receipt = Nothing
  /\ Refuse(p)
  /\ UNCHANGED <<trust, history>>

Unlocks(p) == eloLock' = IF eloLock = p THEN Nothing ELSE eloLock
RefuseLocked(p) == Refuse(p) /\ Unlocks(p)

\* The entry is read back as the one that the same results led to.
IsRetry(p) ==
  entries # {} => Latest.base = job[p].base /\ Latest.cand = job[p].cand

\* Fault variant: an interrupted append is left as it is.
Mut_EvaluateReads(p) ==
  /\ pc[p] = "eloRead"
  /\ IF LedgerReads /\ (HeadIsBehind \/ HeadIsLatest)
       THEN Step(p, "eloDecide") /\ UNCHANGED eloLock
       ELSE RefuseLocked(p)
  /\ UNCHANGED <<trust, entries, tornEntry, eloDir>>

EvaluateReads(p) ==
  /\ pc[p] = "eloRead"
  /\ IF LedgerReads /\ HeadIsBehind THEN Step(p, "eloRecover") /\ UNCHANGED eloLock
     ELSE IF LedgerReads /\ HeadIsLatest THEN Step(p, "eloDecide") /\ UNCHANGED eloLock
     ELSE RefuseLocked(p)
  /\ UNCHANGED <<trust, entries, tornEntry, eloDir>>

\* The interrupted append is completed; other evidence has to be evaluated again.
RecoverHead(p) ==
  /\ pc[p] = "eloRecover"
  /\ head' = HeadAfter(Latest)
  /\ IF IsRetry(p)
       THEN job' = [job EXCEPT ![p].entry = Latest] /\ Goto(p, "ok")
       ELSE Leave(p)
  /\ Unlocks(p)
  /\ UNCHANGED <<home, anchor, receipt, marker, capability, release, debris,
                 agenda, commands, faults, entries, tornEntry, eloDir>>

EvaluateDecides(p) ==
  /\ pc[p] = "eloDecide"
  /\ IF entries # {} /\ IsRetry(p)
       THEN /\ job' = [job EXCEPT ![p].entry = Latest] /\ Goto(p, "ok")
            /\ Unlocks(p) /\ UNCHANGED <<agenda, commands, faults>>
     ELSE IF Continues(job[p].base, job[p].cand)
       THEN /\ job' = [job EXCEPT ![p].entry = EntryFor(job[p].base, job[p].cand)]
            /\ Goto(p, "createEntry") /\ UNCHANGED <<eloLock, agenda, commands, faults>>
     ELSE RefuseLocked(p)
  /\ UNCHANGED <<trust, entries, tornEntry, eloDir>>

CreateEntry(p) ==
  /\ pc[p] = "createEntry"
  /\ tornEntry' = TRUE /\ eloDir' = TRUE
  /\ Step(p, "fillEntry")
  /\ UNCHANGED <<trust, entries, eloLock>>

FillEntry(p) ==
  /\ pc[p] = "fillEntry"
  /\ entries' = entries \cup {job[p].entry} /\ tornEntry' = FALSE
  /\ Step(p, "moveHead")
  /\ UNCHANGED <<trust, eloDir, eloLock>>

MoveHead(p) ==
  /\ pc[p] = "moveHead"
  /\ head' = HeadAfter(job[p].entry)
  /\ Step(p, "eloVerify")
  /\ UNCHANGED <<home, anchor, receipt, marker, capability, release, debris, history>>

EvaluateVerifies(p) ==
  /\ pc[p] = "eloVerify"
  /\ IF LedgerReads /\ HeadIsLatest /\ Latest = job[p].entry THEN Step(p, "ok") ELSE Refuse(p)
  /\ Unlocks(p)
  /\ UNCHANGED <<trust, entries, tornEntry, eloDir>>

-----------------------------------------------------------------------------
(* migrate_legacy_elo_genesis.                                             *)

\* Files are matched in this order; a later one without the earlier is refused.
NoGaps ==
  /\ marker # Nothing => receipt # Nothing
  /\ head # Nothing => marker # Nothing

\* Only the five files of version 0.2 and Elo anchors may be in the directory.
OnlyLegacyFiles ==
  capability = Nothing /\ release = Nothing
  /\ "trust" \notin debris /\ ~Staging("promoteRelease")

BeginMigrate(p) ==
  /\ Begin(p, [kind |-> "migrate", fresh |-> FALSE], "migrate")
  /\ UNCHANGED <<trust, history>>

MayRemoveReceipt == marker = Nothing /\ head = Nothing /\ ~eloDir

\* A whole receipt of another origin ends the command.
MigrateReads(p) ==
  /\ pc[p] = "migrate"
  /\ IF ~(AnchorState = "complete" /\ TrustVerifies /\ OnlyLegacyFiles /\ NoGaps)
       THEN Refuse(p)
     ELSE IF IsTorn(receipt) /\ MayRemoveReceipt THEN Step(p, "unlinkReceipt")
     ELSE IF receipt = Nothing THEN Step(p, "createReceipt")
     ELSE IF receipt = Legacy /\ ~eloDir THEN Step(p, "migrateMarker")
     ELSE Refuse(p)
  /\ UNCHANGED <<trust, history>>

\* The name is unlinked, whatever has become of the file since.
UnlinkReceipt(p) ==
  /\ pc[p] = "unlinkReceipt"
  /\ receipt' = Nothing
  /\ IF receipt = Nothing THEN Refuse(p) ELSE Step(p, "createReceipt")
  /\ UNCHANGED <<home, anchor, marker, head, capability, release, debris, history>>

\* The layout is looked at again, then the receipt is created exclusively.
CreateReceipt(p) ==
  /\ pc[p] = "createReceipt"
  /\ IF receipt = Nothing /\ MayRemoveReceipt /\ OnlyLegacyFiles
       THEN /\ receipt' = TornBy(p)
            /\ job' = [job EXCEPT ![p].fresh = TRUE]
            /\ Goto(p, "fillReceipt") /\ UNCHANGED <<agenda, commands, faults>>
       ELSE UNCHANGED receipt /\ Refuse(p)
  /\ UNCHANGED <<home, anchor, marker, head, capability, release, debris, history>>

\* Bytes go to the opened file, which may have lost its name; the name has to
\* have them afterwards.
Filled(p, file, content) == IF file = TornBy(p) THEN content ELSE file

FillReceipt(p) ==
  /\ pc[p] = "fillReceipt"
  /\ receipt' = Filled(p, receipt, Legacy)
  /\ IF receipt' = Legacy THEN Step(p, "createMarker") ELSE Refuse(p)
  /\ UNCHANGED <<home, anchor, marker, head, capability, release, debris, history>>

\* The marker of a receipt that was found whole.
MigrateMarker(p) ==
  /\ pc[p] = "migrateMarker"
  /\ CASE marker = Legacy -> Step(p, "migrateHead")
       [] IsTorn(marker) /\ head = Nothing -> Step(p, "unlinkMarker")
       [] marker = Nothing /\ head = Nothing -> Step(p, "createMarker")
       [] OTHER -> Refuse(p)
  /\ UNCHANGED <<trust, history>>

UnlinkMarker(p) ==
  /\ pc[p] = "unlinkMarker"
  /\ marker' = Nothing
  /\ IF marker = Nothing THEN Refuse(p) ELSE Step(p, "createMarker")
  /\ UNCHANGED <<home, anchor, receipt, head, capability, release, debris, history>>

CreateMarker(p) ==
  /\ pc[p] = "createMarker"
  /\ IF marker = Nothing THEN marker' = TornBy(p) /\ Step(p, "fillMarker")
                         ELSE UNCHANGED marker /\ Refuse(p)
  /\ UNCHANGED <<home, anchor, receipt, head, capability, release, debris, history>>

FillMarker(p) ==
  /\ pc[p] = "fillMarker"
  /\ marker' = Filled(p, marker, Legacy)
  /\ IF marker' # Legacy THEN Refuse(p)
     ELSE Step(p, IF job[p].fresh THEN "createHead" ELSE "migrateHead")
  /\ UNCHANGED <<home, anchor, receipt, head, capability, release, debris, history>>

\* A head that has moved on is not the genesis and is left alone.
MigrateHead(p) ==
  /\ pc[p] = "migrateHead"
  /\ CASE head = Genesis(Legacy) -> Step(p, "ok")
       [] IsTorn(head) -> Step(p, "unlinkHead")
       [] head = Nothing -> Step(p, "createHead")
       [] OTHER -> Refuse(p)
  /\ UNCHANGED <<trust, history>>

UnlinkHead(p) ==
  /\ pc[p] = "unlinkHead"
  /\ head' = Nothing
  /\ IF head = Nothing THEN Refuse(p) ELSE Step(p, "createHead")
  /\ UNCHANGED <<home, anchor, receipt, marker, capability, release, debris, history>>

CreateHead(p) ==
  /\ pc[p] = "createHead"
  /\ IF head = Nothing THEN head' = TornBy(p) /\ Step(p, "fillHead")
                       ELSE UNCHANGED head /\ Refuse(p)
  /\ UNCHANGED <<home, anchor, receipt, marker, capability, release, debris, history>>

FillHead(p) ==
  /\ pc[p] = "fillHead"
  /\ head' = Filled(p, head, Genesis(Legacy))
  /\ IF head' # Genesis(Legacy) THEN Refuse(p)
     ELSE Step(p, IF job[p].fresh THEN "verifyGenesis" ELSE "ok")
  /\ UNCHANGED <<home, anchor, receipt, marker, capability, release, debris, history>>

VerifyGenesis(p) ==
  /\ pc[p] = "verifyGenesis"
  /\ IF receipt = Legacy /\ marker = Legacy /\ head = Genesis(Legacy)
       THEN Step(p, "ok") ELSE Refuse(p)
  /\ UNCHANGED <<trust, history>>

-----------------------------------------------------------------------------
(* Faults.                                                                 *)

\* An exclusive write that raises unlinks the name; the head is replaced
\* atomically or not at all.
EloWriteFails(p) ==
  /\ pc[p] \in {"fillReceipt", "fillMarker", "fillHead", "fillEntry", "eloRecover", "moveHead"}
  /\ faults < MaxFaults
  /\ faults' = faults + 1
  /\ receipt' = IF pc[p] = "fillReceipt" THEN Nothing ELSE receipt
  /\ marker' = IF pc[p] = "fillMarker" THEN Nothing ELSE marker
  /\ head' = IF pc[p] = "fillHead" THEN Nothing ELSE head
  /\ tornEntry' = (tornEntry /\ pc[p] # "fillEntry")
  /\ Leave(p) /\ Unlocks(p)
  /\ UNCHANGED <<home, anchor, capability, release, debris, agenda, commands, entries, eloDir>>

EloNext(p) ==
  \/ BeginEvaluate(p) \/ EvaluateChecks(p) \/ LockReceipt(p) \/ LockRefused(p)
  \/ EvaluateReads(p) \/ RecoverHead(p) \/ EvaluateDecides(p)
  \/ CreateEntry(p) \/ FillEntry(p) \/ MoveHead(p) \/ EvaluateVerifies(p)
  \/ BeginMigrate(p) \/ MigrateReads(p) \/ UnlinkReceipt(p) \/ CreateReceipt(p)
  \/ FillReceipt(p) \/ MigrateMarker(p) \/ UnlinkMarker(p) \/ CreateMarker(p)
  \/ FillMarker(p) \/ MigrateHead(p) \/ UnlinkHead(p) \/ CreateHead(p) \/ FillHead(p)
  \/ VerifyGenesis(p) \/ EloWriteFails(p)

EloInit == entries = {} /\ tornEntry = FALSE /\ eloDir = FALSE /\ eloLock = Nothing

\* The kernel frees the lock of a process that has left.
EloLeft == eloLock' = IF eloLock # Nothing /\ pc'[eloLock] = "idle" THEN Nothing ELSE eloLock
=============================================================================
