-------------------------- MODULE JudgmentAssessment --------------------------
(***************************************************************************)
(* The judgment assessment of one run: the targets of every judgment rule  *)
(* in the attested evidence, the instance for each target with a           *)
(* candidate's result or none, the inherited UX instances, and the         *)
(* effective status under an owner decision.                               *)
(*                                                                         *)
(* An assessment is the function from <<rule, target>> to the raw status   *)
(* and findings of the instance, and whether the other lanes are clear.    *)
(***************************************************************************)
EXTENDS FlutterAnalysis, FigmaAnalysis

CONSTANTS AppliesTo,    \* [judgment rules -> what they apply to], see Scopes
          Findings      \* findings a candidate may report

JudgmentRules == OfClass({"judgment"})

Scopes ==
  [kind : {"system"}] \cup [kind : {"category"}, category : ItemCategories]
    \cup [kind : {"component", "icon"}, identity : Assets]
    \cup [kind : {"token"}, identity : Tokens]

ASSUME AppliesToAssumption == AppliesTo \in [JudgmentRules -> Scopes]

-----------------------------------------------------------------------------
(* Targets.                                                                *)

NoTarget == "coverage"

\* An identity counts in the lane of its kind only.
Matches(i, scope) ==
  CASE scope.kind = "category" -> i.category = scope.category
    [] scope.kind = "component" ->
         i.category = "components" /\ i.kind = "asset" /\ i.identity = scope.identity
    [] scope.kind = "icon" ->
         i.category = "icons" /\ i.kind = "asset" /\ i.identity = scope.identity
    [] scope.kind = "token" ->
         i.kind \in {"variable", "style"} /\ i.identity = scope.identity

\* The rule's target in attestation t: the final flow when UX evidence is
\* sealed, the matching occurrences of a complete Figma read-back, or else
\* one coverage instance that nothing can assess.
RuleTargets(t, r) ==
  IF AppliesTo[r].kind = "system"
    THEN IF t.ux = Nothing THEN {NoTarget} ELSE {"flow"}
  ELSE IF t.runner.evidence.coverage.adapter = "figma" /\ HasInventory(t.runner.raw)
    THEN {i.at : i \in {j \in t.runner.raw.items : Matches(j, AppliesTo[r])}}
  ELSE {NoTarget}

RuleKeys(t) == UNION {{<<r, k>> : k \in RuleTargets(t, r)} : r \in JudgmentRules}

UxKeys(t) == IF t.ux = Nothing THEN {} ELSE {<<"inherited_ux", area>> : area \in UxAreas}

\* Candidates name derived instances only.
CandidatesAccepted(t, candidates) ==
  DOMAIN candidates \subseteq {key \in RuleKeys(t) : key[2] # NoTarget}

Results == {[status |-> "allowed", findings |-> {}],
            [status |-> "not_assessed", findings |-> {}]}
             \cup {[status |-> "conflict", findings |-> f] : f \in SUBSET Findings \ {{}}}

-----------------------------------------------------------------------------
(* Instances.                                                              *)

Unassessed == [status |-> "not_assessed", findings |-> {}]

\* The raw evaluation counts here, not the lowered lane of the audit.
UxInstance(t, area) ==
  LET check == UxChecks(t.ux)[area] IN
  CASE check = "gap" -> [status |-> "conflict", findings |-> {area}]
    [] check = "allowed" -> [status |-> "allowed", findings |-> {}]
    [] check = "not_assessed" -> Unassessed

Instances(t, candidates) ==
  [key \in RuleKeys(t) \cup UxKeys(t) |->
     IF key \in UxKeys(t) THEN UxInstance(t, key[2])
     ELSE IF key \in DOMAIN candidates THEN candidates[key] ELSE Unassessed]

Aggregate(statuses) ==
  IF "conflict" \in statuses THEN "conflict"
  ELSE IF "not_assessed" \in statuses THEN "not_assessed" ELSE "allowed"

BlockersClear(a) ==
  /\ a.design = "allowed" /\ CoverageStatus(a.coverage) = "allowed"
  /\ a.usage # Nothing => a.usage.status = "allowed"

Assessment(t, a, candidates) ==
  [instances |-> Instances(t, candidates), clear |-> BlockersClear(a)]

StatusesIn(s) == {s.instances[key].status : key \in DOMAIN s.instances}

Complete(s) == "not_assessed" \notin StatusesIn(s)

\* An owner may decide a complete assessment that nothing else blocks.
Decidable(s) == Complete(s) /\ s.clear

ConflictFindings(s) ==
  UNION {s.instances[key].findings :
           key \in {k \in DOMAIN s.instances : s.instances[k].status = "conflict"}}

-----------------------------------------------------------------------------
(* derive_effective_judgment.                                              *)

Excepted(s, decision, key) ==
  /\ decision.active /\ s.instances[key].findings # {}
  /\ s.instances[key].findings \subseteq decision.selected

\* Raw approval counts under an active decision only, a conflict counts as
\* approved when every one of its findings is selected.
EffectiveOf(s, decision, key) ==
  LET raw == s.instances[key].status IN
  IF raw = "allowed" THEN IF decision.active THEN "allowed" ELSE "not_assessed"
  ELSE IF raw = "conflict" /\ Excepted(s, decision, key) THEN "allowed"
  ELSE raw

DecisionAccepted(s, decision) ==
  /\ decision.selected \subseteq ConflictFindings(s)
  /\ ~decision.active => decision.selected = {}

Effective(s, decision) ==
  Aggregate({EffectiveOf(s, decision, key) : key \in DOMAIN s.instances})

EffectiveReady(s, decision) ==
  /\ Effective(s, decision) = "allowed" /\ Complete(s) /\ s.clear
  /\ EnforcementStatus = "allowed"
=============================================================================
