----------------------------- MODULE TrustAnchor ------------------------------
(***************************************************************************)
(* The trust directory of a Guardian home (policy.py) and the release      *)
(* authority pinned in it (release.py).  An authority is put in place by   *)
(* renaming a finished stage, or by one exclusive write; nothing replaces  *)
(* it.  None of these commands takes a lock.                               *)
(*                                                                         *)
(* EloLedger, PersonalSelection and EvaluatorUpgrade extend this module    *)
(* with the commands that rest on the trust; GuardianHome composes them.   *)
(* Seals hold, and nobody edits or deletes a file by hand.                 *)
(***************************************************************************)
EXTENDS Integers, Sequences, FiniteSets

CONSTANTS Procs,       \* processes running Guardian commands on one home
          Keys,        \* Ed25519 public keys of catalog and release authorities
          Agendas,     \* bound: the kinds of command that one home sees, and how
                       \* many of them
          MaxFaults,   \* bound on crashes and failing writes
          Legacy,      \* the host authority of a home made by version 0.2
          Nothing,     \* absence of a file or of a value
          Torn         \* a file that was created but not filled

ASSUME TrustAssumption ==
  /\ MaxFaults \in Nat
  /\ \A a \in Agendas : a.most \in Nat
  /\ Legacy \notin Procs
  /\ Procs \cap {Nothing, Torn} = {} /\ Keys \cap {Nothing, Torn} = {}
  /\ Nothing # Torn /\ Legacy \notin {Nothing, Torn}

VARIABLES
  home,       \* whether the home directory exists
  anchor,     \* the policy, its seal, the host key and the pinned catalog key
  receipt,    \* the enrolment receipt of the Elo ledger
  marker,     \* its initialization marker
  head,       \* its protected head
  capability, \* the personal-local capability
  release,    \* the pinned release authority
  debris,     \* where a crash has left a stage directory: "home", "trust"
  pc,         \* the next step of each process, "idle" between commands
  job,        \* the command of each process and what it has established
  agenda,     \* the commands that this home sees
  commands,   \* commands begun so far
  faults      \* faults so far

elo == <<receipt, marker, head>>
trust == <<home, anchor, elo, capability, release, debris>>
control == <<pc, job, agenda, commands, faults>>

\* A fresh install seals with a random key, so its host is named by its installer.
Hosts == Procs \cup {Legacy}
Anchors == [host : Hosts, catalog : Keys \cup {Nothing}]
Genesis(host) == [ledger |-> host, entry |-> Nothing]

\* The capability names the external authority beside which it was enrolled.
Capability(a) ==
  [origin |-> IF a.catalog = Nothing THEN "fresh_personal" ELSE "external_hybrid",
   catalog |-> a.catalog]
Capabilities == {Capability(a) : a \in Anchors}

\* A file that is whole is told from one that is missing or torn.
ASSUME AnchorAssumption == {Nothing, Torn} \cap (Anchors \cup Capabilities) = {}

-----------------------------------------------------------------------------
(* What the trust directory is taken for.                                  *)

TrustState ==
  IF anchor = Nothing THEN "absent"
  ELSE IF anchor.catalog = Nothing THEN "personal"
  ELSE IF capability = Nothing THEN "external" ELSE "hybrid"

\* install_policy_anchor and onboarding know nothing of personal trust.
AnchorState ==
  CASE TrustState = "absent" -> "absent"
    [] TrustState = "personal" -> "incompatible"
    [] TrustState \in {"external", "hybrid"} -> "complete"

CapabilityVerifies == capability = Capability(anchor)

TrustVerifies ==
  /\ anchor # Nothing
  /\ TrustState \in {"personal", "hybrid"} => CapabilityVerifies

ReleaseVerifies(key) == TrustVerifies /\ anchor.catalog \notin {Nothing, key}

\* Stages that live commands have open.
Staging(kind) == \E p \in Procs : pc[p] = kind
HomeEmpty == anchor = Nothing /\ "home" \notin debris /\ ~Staging("promoteTrust")

-----------------------------------------------------------------------------
(* The life of a command.                                                  *)

Goto(p, label) == pc' = [pc EXCEPT ![p] = label]

Begin(p, j, label) ==
  /\ pc[p] = "idle"
  /\ j.kind \in agenda.kinds /\ commands < agenda.most
  /\ commands' = commands + 1
  /\ job' = [job EXCEPT ![p] = j]
  /\ Goto(p, label)
  /\ UNCHANGED <<agenda, faults>>

\* One step of a command; its job stays what it was.
Step(p, label) == Goto(p, label) /\ UNCHANGED <<job, agenda, commands, faults>>

\* What a process holds between commands.
NoCommand == [kind |-> "none"]

\* The command is over, refused or dead: its local state is gone.
Leave(p) ==
  /\ Goto(p, "idle")
  /\ job' = [job EXCEPT ![p] = NoCommand]

Refuse(p) == Leave(p) /\ UNCHANGED <<agenda, commands, faults>>

\* The command has reported success; the process exits.
Return(p) ==
  /\ pc[p] = "ok"
  /\ Refuse(p)
  /\ UNCHANGED trust

\* Where a command goes on once the trust it asked for is verified.
AfterTrust(p) == IF job[p].kind = "install" THEN "ok" ELSE "profile"

-----------------------------------------------------------------------------
(* install_policy_anchor: the external trust.                              *)

BeginInstall(p) ==
  /\ \E k \in Keys \cup {Nothing} : Begin(p, [kind |-> "install", key |-> k], "install")
  /\ UNCHANGED trust

\* Fault variant: an existing authority is accepted whatever key was supplied.
Mut_PinnedAny(p) == TrustVerifies

\* The existing authority is accepted only if the supplied key is the pinned one.
Pinned(p) == TrustVerifies /\ job[p].key \in {Nothing, anchor.catalog}

InstallReads(p) ==
  /\ pc[p] = "install"
  /\ CASE AnchorState = "complete" ->
            /\ IF Pinned(p) THEN Step(p, AfterTrust(p)) ELSE Refuse(p)
            /\ UNCHANGED home
       [] AnchorState = "incompatible" -> Refuse(p) /\ UNCHANGED home
       [] AnchorState = "absent" ->
            IF job[p].key = Nothing THEN Refuse(p) /\ UNCHANGED home
                                    ELSE home' = TRUE /\ Step(p, "stageTrust")
  /\ UNCHANGED <<anchor, elo, capability, release, debris>>

\* The stage is assembled inside the home, which somebody may have removed.
StageTrust(p) ==
  /\ pc[p] = "stageTrust"
  /\ IF home THEN Step(p, "promoteTrust") ELSE Refuse(p)
  /\ UNCHANGED trust

\* The trust that the stage of p holds.
Places(p, a) ==
  /\ anchor' = a
  /\ receipt' = a.host /\ marker' = a.host /\ head' = Genesis(a.host)
  /\ capability' = IF a.catalog = Nothing THEN Capability(a) ELSE Nothing

StagedAnchor(p) ==
  [host |-> p, catalog |-> IF job[p].kind = "select" THEN Nothing ELSE job[p].key]

\* Fault variant: the stage replaces a trust that is already there.
Mut_PromoteOver(p) ==
  /\ pc[p] = "promoteTrust"
  /\ Places(p, StagedAnchor(p))
  /\ Step(p, "verifyTrust")
  /\ UNCHANGED <<home, release, debris>>

PromoteTrust(p) ==
  /\ pc[p] = "promoteTrust"
  /\ anchor = Nothing
  /\ Places(p, StagedAnchor(p))
  /\ Step(p, "verifyTrust")
  /\ UNCHANGED <<home, release, debris>>

\* The rename fails on a trust that is already there; the stage is removed.
PromotionLost(p) ==
  /\ pc[p] = "promoteTrust"
  /\ anchor # Nothing
  /\ IF job[p].kind = "select" THEN Step(p, "personal")
     ELSE IF AnchorState = "complete" /\ Pinned(p) THEN Step(p, AfterTrust(p))
     ELSE Refuse(p)
  /\ UNCHANGED trust

VerifyTrust(p) ==
  /\ pc[p] = "verifyTrust"
  /\ IF TrustVerifies THEN Step(p, AfterTrust(p)) ELSE Refuse(p)
  /\ UNCHANGED trust

-----------------------------------------------------------------------------
(* install_personal_policy_anchor: trust without any external key, of its  *)
(* own or beside an external one.  Personal selection is its only caller.  *)

\* Fault variant: trust without the personal capability is taken for no trust.
Mut_PersonalReads(p) ==
  /\ pc[p] = "personal"
  /\ IF TrustState \in {"personal", "hybrid"}
       THEN UNCHANGED home /\ Step(p, "verifyTrust")
       ELSE home' = TRUE /\ Step(p, "stageTrust")
  /\ UNCHANGED <<anchor, elo, capability, release, debris>>

PersonalReads(p) ==
  /\ pc[p] = "personal"
  /\ CASE TrustState = "absent" -> home' = TRUE /\ Step(p, "stageTrust")
       [] TrustState = "external" -> UNCHANGED home /\ Step(p, "addCapability")
       [] TrustState \in {"personal", "hybrid"} -> UNCHANGED home /\ Step(p, "verifyTrust")
  /\ UNCHANGED <<anchor, elo, capability, release, debris>>

\* The exclusive write: create, then fill.
AddCapability(p) ==
  /\ pc[p] = "addCapability"
  /\ IF capability = Nothing
       THEN capability' = Torn /\ Step(p, "fillCapability")
       ELSE /\ UNCHANGED capability
            /\ IF CapabilityVerifies THEN Step(p, "verifyTrust") ELSE Refuse(p)
  /\ UNCHANGED <<home, anchor, elo, release, debris>>

FillCapability(p) ==
  /\ pc[p] = "fillCapability"
  /\ capability' = Capability(anchor)
  /\ Step(p, "verifyTrust")
  /\ UNCHANGED <<home, anchor, elo, release, debris>>

-----------------------------------------------------------------------------
(* Enrolment of the release authority.                                     *)

BeginEnroll(p) ==
  /\ \E k \in Keys : Begin(p, [kind |-> "enroll", key |-> k], "enroll")
  /\ UNCHANGED trust

\* The authority that is there has to be the one supplied.
EnrolledAs(p) == ReleaseVerifies(job[p].key) /\ release = job[p].key

EnrollReads(p) ==
  /\ pc[p] = "enroll"
  /\ IF ~ReleaseVerifies(job[p].key) THEN Refuse(p)
     ELSE IF release = Nothing THEN Step(p, "promoteRelease")
     ELSE IF EnrolledAs(p) THEN Step(p, "ok") ELSE Refuse(p)
  /\ UNCHANGED trust

\* The stage lies inside the trust directory until it is renamed.
PromoteRelease(p) ==
  /\ pc[p] = "promoteRelease"
  /\ IF release = Nothing
       THEN release' = job[p].key /\ Step(p, "verifyRelease")
       ELSE /\ UNCHANGED release
            /\ IF EnrolledAs(p) THEN Step(p, "ok") ELSE Refuse(p)
  /\ UNCHANGED <<home, anchor, elo, capability, debris>>

VerifyRelease(p) ==
  /\ pc[p] = "verifyRelease"
  /\ IF EnrolledAs(p) THEN Step(p, "ok") ELSE Refuse(p)
  /\ UNCHANGED trust

-----------------------------------------------------------------------------
(* Faults.                                                                 *)

\* A write that raises unlinks the file it created; stages are removed.
TrustWriteFails(p) ==
  /\ pc[p] \in {"promoteTrust", "fillCapability", "promoteRelease"}
  /\ faults < MaxFaults
  /\ faults' = faults + 1
  /\ capability' = IF pc[p] = "fillCapability" THEN Nothing ELSE capability
  /\ Leave(p)
  /\ UNCHANGED <<home, anchor, elo, release, debris, agenda, commands>>

\* The process dies: every file and every stage stays as it is.
Crash(p) ==
  /\ pc[p] # "idle"
  /\ faults < MaxFaults
  /\ faults' = faults + 1
  /\ debris' = debris \cup (IF pc[p] = "promoteTrust" THEN {"home"}
                            ELSE IF pc[p] = "promoteRelease" THEN {"trust"} ELSE {})
  /\ Leave(p)
  /\ UNCHANGED <<home, anchor, elo, capability, release, agenda, commands>>

TrustNext(p) ==
  \/ BeginInstall(p) \/ InstallReads(p) \/ StageTrust(p)
  \/ PromoteTrust(p) \/ PromotionLost(p) \/ VerifyTrust(p)
  \/ PersonalReads(p) \/ AddCapability(p) \/ FillCapability(p)
  \/ BeginEnroll(p) \/ EnrollReads(p) \/ PromoteRelease(p) \/ VerifyRelease(p)
  \/ Return(p) \/ TrustWriteFails(p) \/ Crash(p)

\* Homes that Guardian versions leave to this one: none, and one of version 0.2.
TrustInit ==
  /\ \/ home = FALSE /\ anchor = Nothing
     \/ \E k \in Keys : home = TRUE /\ anchor = [host |-> Legacy, catalog |-> k]
  /\ receipt = Nothing /\ marker = Nothing /\ head = Nothing
  /\ capability = Nothing /\ release = Nothing /\ debris = {}
  /\ pc = [p \in Procs |-> "idle"]
  /\ job = [p \in Procs |-> NoCommand]
  /\ agenda \in Agendas /\ commands = 0 /\ faults = 0
=============================================================================
