------------------------------ MODULE Onboarding ------------------------------
(***************************************************************************)
(* Enterprise onboarding (onboarding.py), company profiles (profile.py)    *)
(* and what onboarding and personal selection need of the catalog ledger,  *)
(* which CatalogLedger models write by write.  A new home is assembled     *)
(* beside its place and renamed there; in a home with trust the components *)
(* are applied one by one.                                                 *)
(***************************************************************************)
EXTENDS TrustAnchor, SequencesExt

CONSTANTS Company,   \* the company profile
          Personal,  \* the personal profiles, named by their scope
          Revisions, \* revisions of the company profile
          Bundles    \* permitted onboarding bundles

ProfileIds == {Company} \cup Personal

\* A personal profile is its scope: it has one revision only.
RevisionsOf(id) == IF id = Company THEN Revisions ELSE {id}

\* The catalog of a bundle is signed with the key, for the revision.
ASSUME BundlesAssumption ==
  /\ Company \notin Personal /\ Personal \cap {Nothing, Torn} = {}
  /\ \A b \in Bundles :
       /\ b.key \in Keys /\ b.rev \in Revisions
       /\ b.seq \in Nat \ {0} /\ b.permitted \in BOOLEAN

VARIABLES
  profile,   \* the installed revision of each profile, or Nothing
  snapshots, \* the retained catalog snapshots of each profile, by approval sequence
  mend,      \* whether the catalog ledger is whole, lacks its first pointer or is torn
  profileLock \* the process that holds the transaction lock of each profile

catalogs == <<profile, snapshots, mend, profileLock>>

Whole(id) == mend[id] # "torn" /\ \A i \in 1 .. Len(snapshots[id]) : snapshots[id][i].rev = profile[id]

\* Writing loads put a missing pointer back; a status does not.
Loads(id) == Whole(id) /\ snapshots[id] # <<>>
LoadsUnrepaired(id) == Loads(id) /\ mend[id] = "whole"

-----------------------------------------------------------------------------
(* Company profiles.                                                       *)

BeginProfile(p) ==
  /\ TrustVerifies
  /\ \E r \in Revisions : Begin(p, [kind |-> "profile", rev |-> r], "profile")
  /\ UNCHANGED <<trust, catalogs>>

\* A command says which profile it is about, and in which revision.
IdOf(p) == IF job[p].kind = "select" THEN job[p].id ELSE Company
RevisionOf(p) == IF job[p].kind = "select" THEN job[p].id ELSE job[p].rev

\* What follows the installed profile.
AfterProfile(p) ==
  CASE job[p].kind = "profile" -> "ok"
    [] job[p].kind = "onboard" -> "ingest"
    [] job[p].kind = "select" -> "bind"

\* Onboarding does not replace another revision; an explicit installation and a
\* selection write their profile whatever is there.  None of them takes the lock.
InstallProfile(p) ==
  /\ pc[p] = "profile"
  /\ IF job[p].kind = "onboard" /\ profile[Company] \notin {Nothing, RevisionOf(p)}
       THEN Refuse(p) /\ UNCHANGED profile
       ELSE /\ profile' = [profile EXCEPT ![IdOf(p)] = RevisionOf(p)]
            /\ Step(p, AfterProfile(p))
  /\ UNCHANGED <<trust, snapshots, mend, profileLock>>

-----------------------------------------------------------------------------
(* The transaction lock of a profile.  The lock of a command that died is   *)
(* cleared by an operator, here at once; TransactionLock has the waiting.   *)

\* A command that holds the lock over several steps goes on with what it is for.
LockProfile(p) ==
  /\ pc[p] = "profileLock" /\ profileLock[Company] = Nothing
  /\ profileLock' = [profileLock EXCEPT ![Company] = p]
  /\ Step(p, job[p].kind)
  /\ UNCHANGED <<trust, profile, snapshots, mend>>

\* The deadline passes.
LockTimesOut(p) ==
  /\ pc[p] = "profileLock" /\ profileLock[Company] # Nothing
  /\ Refuse(p)
  /\ UNCHANGED <<trust, catalogs>>

Unlock == profileLock' = [profileLock EXCEPT ![Company] = Nothing]
UnlockRefused(p) == Refuse(p) /\ Unlock

\* A command that is over holds no lock.
ProfileLockLeft ==
  profileLock' =
    [i \in ProfileIds |->
      IF profileLock[i] # Nothing /\ pc'[profileLock[i]] = "idle" THEN Nothing
                                                                  ELSE profileLock[i]]

-----------------------------------------------------------------------------
(* ingest_snapshot, under the profile transaction lock.                    *)

\* The approval of the next catalog, or of the current one once more.
IsNext(p) == job[p].seq = Len(snapshots[IdOf(p)]) + 1
IsCurrent(p) ==
  /\ snapshots[IdOf(p)] # <<>> /\ job[p].seq = Len(snapshots[IdOf(p)])
  /\ Last(snapshots[IdOf(p)]).catalog = job[p].catalog

\* Trust, installed profile and approval belong together.
Approved(p) ==
  /\ TrustVerifies
  /\ profile[IdOf(p)] = RevisionOf(p)
  /\ job[p].kind = "onboard" => anchor.catalog = job[p].key
  /\ job[p].kind = "select" => CapabilityVerifies

Snapshot(p) == [rev |-> RevisionOf(p), catalog |-> job[p].catalog]
AfterIngest(p) == IF job[p].kind = "onboard" THEN "ok" ELSE "record"

Ingest(p) ==
  /\ pc[p] = "ingest" /\ profileLock[IdOf(p)] = Nothing
  /\ IF ~(Approved(p) /\ Whole(IdOf(p))) THEN Refuse(p) /\ UNCHANGED <<snapshots, mend>>
     ELSE IF IsNext(p)
       THEN /\ snapshots' = [snapshots EXCEPT ![IdOf(p)] = Append(@, Snapshot(p))]
            /\ mend' = [mend EXCEPT ![IdOf(p)] = "whole"]
            /\ Step(p, AfterIngest(p))
     ELSE IF IsCurrent(p)
       THEN /\ mend' = [mend EXCEPT ![IdOf(p)] = "whole"]
            /\ Step(p, AfterIngest(p)) /\ UNCHANGED snapshots
     ELSE Refuse(p) /\ UNCHANGED <<snapshots, mend>>
  /\ UNCHANGED <<trust, profile, profileLock>>

\* A promotion dies between its writes.  Only a first one that lacks nothing but
\* its pointer can be repaired.
IngestDies(p) ==
  /\ pc[p] = "ingest" /\ profileLock[IdOf(p)] = Nothing
  /\ faults < MaxFaults
  /\ Approved(p) /\ Whole(IdOf(p)) /\ IsNext(p)
  /\ \E m \in {"unpointed", "torn"} :
       /\ m = "unpointed" => snapshots[IdOf(p)] = <<>>
       /\ snapshots' = IF m = "unpointed"
                         THEN [snapshots EXCEPT ![IdOf(p)] = Append(@, Snapshot(p))]
                         ELSE snapshots
       /\ mend' = [mend EXCEPT ![IdOf(p)] = m]
  /\ faults' = faults + 1
  /\ Leave(p)
  /\ UNCHANGED <<trust, profile, profileLock, agenda, commands>>

-----------------------------------------------------------------------------
(* apply_onboarding.                                                       *)

\* The bundle is checked against its own permission before anything is read.
BeginOnboard(p) ==
  /\ \E b \in Bundles :
       /\ b.permitted
       /\ Begin(p, [kind |-> "onboard", key |-> b.key, rev |-> b.rev, seq |-> b.seq,
                    catalog |-> b.catalog, empty |-> FALSE], "onboard")
  /\ UNCHANGED <<trust, catalogs>>

\* Only an absent or an empty home is assembled anew, in a stage beside it, which
\* takes no catalog but a first one.
OnboardReads(p) ==
  /\ pc[p] = "onboard"
  /\ CASE AnchorState = "complete" -> Step(p, "install")
       [] AnchorState = "incompatible" -> Refuse(p)
       [] AnchorState = "absent" ->
            IF job[p].seq # 1 \/ (home /\ ~HomeEmpty) THEN Refuse(p)
            ELSE Step(p, IF home THEN "removeEmptyHome" ELSE "renameHome")
  /\ UNCHANGED <<trust, catalogs>>

\* The directory has to be empty still.
RemoveEmptyHome(p) ==
  /\ pc[p] = "removeEmptyHome"
  /\ IF home /\ HomeEmpty
       THEN /\ home' = FALSE
            /\ job' = [job EXCEPT ![p].empty = TRUE] /\ Goto(p, "renameHome")
            /\ UNCHANGED <<agenda, commands, faults>>
       ELSE UNCHANGED home /\ Refuse(p)
  /\ UNCHANGED <<anchor, elo, capability, release, debris, catalogs>>

\* The stage holds its own trust, the profile and its first snapshot.
RenameHome(p) ==
  /\ pc[p] = "renameHome"
  /\ ~home \/ HomeEmpty
  /\ home' = TRUE
  /\ Places(p, [host |-> p, catalog |-> job[p].key])
  /\ profile' = [profile EXCEPT ![Company] = job[p].rev]
  /\ snapshots' = [snapshots EXCEPT ![Company] = <<Snapshot(p)>>]
  /\ Step(p, "verifyHome")
  /\ UNCHANGED <<release, debris, mend, profileLock>>

\* Somebody has made a home there: on Windows an empty one is enough.
RenameHomeRefused(p) ==
  /\ pc[p] = "renameHome"
  /\ home
  /\ Refuse(p)
  /\ UNCHANGED <<trust, catalogs>>

\* The empty home that was removed is put back.
RenameHomeFails(p) ==
  /\ pc[p] = "renameHome"
  /\ ~home
  /\ faults < MaxFaults
  /\ faults' = faults + 1
  /\ home' = job[p].empty
  /\ Leave(p)
  /\ UNCHANGED <<anchor, elo, capability, release, debris, catalogs, agenda, commands>>

VerifyHome(p) ==
  /\ pc[p] = "verifyHome"
  /\ IF TrustVerifies /\ profile[Company] = job[p].rev /\ Loads(Company)
       THEN Step(p, "ok") ELSE Refuse(p)
  /\ UNCHANGED <<trust, catalogs>>

OnboardingNext(p) ==
  \/ LockProfile(p) \/ LockTimesOut(p)
  \/ BeginProfile(p) \/ InstallProfile(p) \/ Ingest(p) \/ IngestDies(p)
  \/ BeginOnboard(p) \/ OnboardReads(p) \/ RemoveEmptyHome(p)
  \/ RenameHome(p) \/ RenameHomeRefused(p) \/ RenameHomeFails(p)
  \/ VerifyHome(p)

OnboardingInit ==
  /\ profile = [i \in ProfileIds |-> Nothing]
  /\ snapshots = [i \in ProfileIds |-> <<>>]
  /\ mend = [i \in ProfileIds |-> "whole"]
  /\ profileLock = [i \in ProfileIds |-> Nothing]
=============================================================================
