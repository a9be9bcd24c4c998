--------------------------- MODULE EvaluatorUpgrade ----------------------------
(***************************************************************************)
(* The permission to evaluate rules with the second evaluator              *)
(* (evaluator_upgrade.py): one immutable record beside the rule history of *)
(* a company profile, which RuleLedger models write by write, and then a   *)
(* pointer to it.  Both are written under the profile transaction lock;    *)
(* the profile they are bound to is replaced without it, also between two  *)
(* readings of one command.                                                *)
(***************************************************************************)
EXTENDS Onboarding

CONSTANT MaxRules \* bound on the rule snapshots of a home's life

\* What a user grants: the rules of one approval sequence, for one revision.
Bindings == [rev : Revisions, seq : 1 .. MaxRules]

ASSUME RulesAssumption == MaxRules \in Nat

VARIABLES
  rules,       \* the profile revisions of the retained rule snapshots, by sequence
  fresh,       \* whether the evidence of the last one is fresh
  authDir,     \* whether the directory of authorizations exists
  auths,       \* the bindings of the records in it
  tornAuth,    \* whether a record was created but not filled
  authPointer  \* the binding that the pointer names, or Nothing

upgrades == <<rules, fresh, authDir, auths, tornAuth, authPointer>>
authorization == <<authDir, auths, tornAuth, authPointer>>

-----------------------------------------------------------------------------
(* The rule history.                                                       *)

\* Every retained rule snapshot is for the installed revision.
RulesLoad ==
  /\ TrustVerifies /\ profile[Company] # Nothing
  /\ rules # <<>> /\ \A i \in DOMAIN rules : rules[i] = profile[Company]

\* Rules are activated, and later refreshed, under the profile lock.  A refresh reads
\* the profile twice; another revision may be installed in between, and the snapshot
\* is then of a revision that the rules before it are not of.
AdvanceRules ==
  /\ "upgrade" \in agenda.kinds
  /\ TrustVerifies /\ profile[Company] # Nothing /\ profileLock[Company] = Nothing
  /\ rules # <<>> => RulesLoad
  /\ Len(rules) < MaxRules
  /\ \E rev \in Revisions :
       /\ rev = profile[Company] \/ (rules # <<>> /\ "profile" \in agenda.kinds)
       /\ rules' = Append(rules, rev)
  /\ fresh' = TRUE
  /\ UNCHANGED <<trust, control, catalogs, authorization>>

\* The sources of the rules are too old to be relied on.
RulesExpire ==
  /\ rules # <<>> /\ fresh
  /\ fresh' = FALSE
  /\ UNCHANGED <<trust, control, catalogs, rules, authorization>>

-----------------------------------------------------------------------------
(* What the readings look for.  The rules and the authorization do not     *)
(* change under the lock, but each reading loads the profile again.        *)

\* A record that is not whole fails every reading of the directory.
OnlyRecord(b) == ~tornAuth /\ auths = {b}

\* The installed profile is of the revision that the binding names.
ProfileIs(b) == TrustVerifies /\ profile[Company] = b.rev

\* Fault variant: the granted sequence is not compared with the current one.
Mut_IsCandidate(b) == RulesLoad /\ fresh

\* The binding names the current rules.
IsCandidate(b) == RulesLoad /\ fresh /\ b.seq = Len(rules)

\* Rules may have advanced since; those that it names are retained.
LineageHolds(b) == RulesLoad /\ b.seq \in DOMAIN rules /\ rules[b.seq] = b.rev

-----------------------------------------------------------------------------
(* apply_evaluator_upgrade.                                                *)

BeginUpgrade(p) ==
  /\ \E b \in Bindings : Begin(p, [kind |-> "upgrade", binding |-> b], "profileLock")
  /\ UNCHANGED <<trust, catalogs, upgrades>>

\* One reading under the lock, after which the command goes on or is refused.
Reads(p, label, holds, next) ==
  /\ pc[p] = label
  /\ IF holds THEN Step(p, next) /\ UNCHANGED profileLock ELSE UnlockRefused(p)
  /\ UNCHANGED <<trust, profile, snapshots, mend, upgrades>>

\* There is nothing yet to be read.
NoRecords == authPointer = Nothing /\ ~tornAuth /\ auths = {}

\* The authorization that is there, whole or without its pointer, is the granted one.
UpgradeReads(p) ==
  LET b == job[p].binding IN
  Reads(p, "upgrade", NoRecords \/ (OnlyRecord(b) /\ authPointer \in {b, Nothing}),
        "loadProfile")

LoadProfile(p) ==
  \/ Reads(p, "loadProfile", ProfileIs(job[p].binding), "loadRules")
  \/ Reads(p, "verifyProfile", ProfileIs(job[p].binding), "verifyRules")

\* The rules are loaded as of the profile that is installed by now.
LoadRules(p) ==
  \/ Reads(p, "loadRules", IF NoRecords THEN IsCandidate(job[p].binding) ELSE RulesLoad,
           IF NoRecords THEN "makeAuthDir" ELSE "loadRecord")
  \/ Reads(p, "verifyRules", RulesLoad, "verifyRecord")

\* A record without its pointer is given one.
LoadRecord(p) ==
  Reads(p, "loadRecord", LineageHolds(job[p].binding),
        IF authPointer = Nothing THEN "writePointer" ELSE "verifyUpgrade")

\* Fault variant: the pointer is written before the record.
Mut_MakeAuthDir(p) ==
  /\ pc[p] = "makeAuthDir"
  /\ authDir' = TRUE
  /\ Step(p, "writePointer")
  /\ UNCHANGED <<trust, catalogs, rules, fresh, auths, tornAuth, authPointer>>

MakeAuthDir(p) ==
  /\ pc[p] = "makeAuthDir"
  /\ authDir' = TRUE
  /\ Step(p, "createAuth")
  /\ UNCHANGED <<trust, catalogs, rules, fresh, auths, tornAuth, authPointer>>

CreateAuth(p) ==
  /\ pc[p] = "createAuth"
  /\ tornAuth' = TRUE
  /\ Step(p, "fillAuth")
  /\ UNCHANGED <<trust, catalogs, rules, fresh, authDir, auths, authPointer>>

FillAuth(p) ==
  /\ pc[p] = "fillAuth"
  /\ auths' = auths \cup {job[p].binding} /\ tornAuth' = FALSE
  /\ Step(p, "writePointer")
  /\ UNCHANGED <<trust, catalogs, rules, fresh, authDir, authPointer>>

WriteAuthPointer(p) ==
  /\ pc[p] = "writePointer"
  /\ authPointer' = job[p].binding
  /\ Step(p, "verifyUpgrade")
  /\ UNCHANGED <<trust, catalogs, rules, fresh, authDir, auths, tornAuth>>

\* Fault variant: what was written is compared, what it rests on is not.
Mut_VerifyUpgrade(p) ==
  /\ pc[p] = "verifyUpgrade"
  /\ IF OnlyRecord(job[p].binding) THEN Step(p, "ok") ELSE Refuse(p)
  /\ Unlock
  /\ UNCHANGED <<trust, profile, snapshots, mend, upgrades>>

\* What was written is loaded once more from the beginning.
VerifyUpgrade(p) ==
  LET b == job[p].binding IN
  Reads(p, "verifyUpgrade", OnlyRecord(b) /\ authPointer = b, "verifyProfile")

VerifyRecord(p) ==
  /\ pc[p] = "verifyRecord"
  /\ IF LineageHolds(job[p].binding) THEN Step(p, "ok") ELSE Refuse(p)
  /\ Unlock
  /\ UNCHANGED <<trust, profile, snapshots, mend, upgrades>>

\* A record whose write raises is unlinked; the pointer is replaced or not.
UpgradeWriteFails(p) ==
  /\ pc[p] \in {"fillAuth", "writePointer"}
  /\ faults < MaxFaults
  /\ faults' = faults + 1
  /\ tornAuth' = (tornAuth /\ pc[p] # "fillAuth")
  /\ Leave(p) /\ Unlock
  /\ UNCHANGED <<trust, profile, snapshots, mend, rules, fresh, authDir, auths,
                 authPointer, agenda, commands>>

UpgradeNext(p) ==
  \/ BeginUpgrade(p) \/ UpgradeReads(p)
  \/ LoadProfile(p) \/ LoadRules(p) \/ LoadRecord(p)
  \/ MakeAuthDir(p) \/ CreateAuth(p) \/ FillAuth(p) \/ WriteAuthPointer(p)
  \/ VerifyUpgrade(p) \/ VerifyRecord(p) \/ UpgradeWriteFails(p)

UpgradeInit ==
  /\ rules = <<>> /\ fresh = FALSE
  /\ authDir = FALSE /\ auths = {} /\ tornAuth = FALSE /\ authPointer = Nothing
=============================================================================
