------------------------- MODULE RunLifecycle_proofs -------------------------
(***************************************************************************)
(* Proofs about RunLifecycle, for every set of processes, pins, trees,     *)
(* observations and requests, and every number of commands and mishaps.    *)
(*                                                                         *)
(* RunInv says what the files mean; it is not inductive, because it does   *)
(* not know what the running commands are about to write.  RunIInv adds    *)
(* that: every writing process works off one job, a function from kinds to *)
(* contents of which it has stored everything that is no longer on its     *)
(* list, and the job itself agrees with the files that are already there.  *)
(* A readable file never changes, so what a job agreed with stays.         *)
(*                                                                         *)
(* First come theorems about what a run reports, for all rules, evidence,  *)
(* resolutions, trees, observations and candidates: the verdict that is    *)
(* recomputed from the sealed result is the one that was reported, losing  *)
(* the Usage lane does not change it, a source that expires only makes it  *)
(* worse, no build plan changes it; and which runs an owner can decide.    *)
(***************************************************************************)
EXTENDS RunLifecycle, SequenceTheorems, TLAPS

-----------------------------------------------------------------------------
(* The verdict of an audit.                                                *)


\* The fields of a result and of its Usage lane.
IsUsage(u) ==
  u = [status |-> u.status, active |-> u.active, assessed |-> u.assessed,
       violated |-> u.violated, informative |-> u.informative,
       notAssessed |-> u.notAssessed]

IsAudit(a) ==
  /\ a = [schema |-> a.schema, runner |-> a.runner, coverage |-> a.coverage,
          violations |-> a.violations, gaps |-> a.gaps, resolutions |-> a.resolutions,
          ux |-> a.ux, design |-> a.design, usage |-> a.usage, ready |-> a.ready]
  /\ a.usage # Nothing => IsUsage(a.usage)

Codes == {"violation", "coverage", "source", "invalid"}

LEMMA UsageIsSomething == ASSUME NEW u, IsUsage(u) PROVE u # Nothing
<1> SUFFICES ASSUME u = Nothing PROVE FALSE
  OBVIOUS
<1>1. DOMAIN u = {"none"}
  BY DEF Nothing
<1>2. DOMAIN u = {"status", "active", "assessed", "violated", "informative", "notAssessed"}
  BY DEF IsUsage
<1> QED
  BY <1>1, <1>2

\* Whatever the lanes say, the verdict is one of the failing codes: no
\* protected enforcement provider exists, so nothing passes.
LEMMA CodeType == ASSUME NEW a, NEW sources PROVE ExitCode(a, sources) \in Codes
  BY DEF ExitCode, Codes, CoverageBlocked, EnforcementStatus

\* No audit passes, however clean its evidence (enforcement_authority.py, the
\* code selection at audit.py:977).
THEOREM NothingPasses ==
  ASSUME NEW a, NEW state
  PROVE  EvaluateCode(a, state) # "pass" /\ DeriveCode(a) # "pass"
  BY CodeType DEF EvaluateCode, DeriveCode, Codes

\* The build plan's own finding is never the worse one (finalize.py:276).
THEOREM PlanChangesNothing ==
  ASSUME NEW a, NEW plan
  PROVE  Combine(DeriveCode(a), PlanCode(a, plan)) = DeriveCode(a)
<1>1. DeriveCode(a) \in Codes
  BY CodeType DEF DeriveCode
<1>2. PlanCode(a, plan) \in {"violation", "pass"}
  BY DEF PlanCode
<1> QED
  BY <1>1, <1>2 DEF Combine, Severity, Codes

-----------------------------------------------------------------------------
(* The sealed result says what the evaluation said.                        *)

LEMMA WorstIsOne ==
  ASSUME NEW S, S \subseteq SourceStatuses, S # {}
  PROVE  /\ Worst(S) \in S
         /\ \A T \in SUBSET S : Worst(T \cup {Worst(S)}) = Worst(S)
  BY DEF Worst, SourceStatuses

LEMMA ProjectedStatus ==
  ASSUME NEW c
  PROVE  CoverageStatus(c) \in {"allowed", "unsupported", "not_assessed"}
  BY DEF CoverageStatus

\* Only a blocking source gives the design a source's status.
LEMMA DesignOfSource ==
  ASSUME NEW a, NEW S, S \subseteq SourceStatuses
  PROVE  /\ Invalid(a) <=> DesignStatus(a, S) = "invalid"
         /\ DesignStatus(a, S) \in SourceStatuses <=> ~Invalid(a) /\ S # {}
         /\ ~Invalid(a) /\ S # {} => DesignStatus(a, S) = Worst(S)
<1>1. Worst(S) \in SourceStatuses
  BY DEF Worst, SourceStatuses
<1>2. CoverageStatus(a.coverage) \in {"allowed", "unsupported", "not_assessed"}
  BY ProjectedStatus
<1> QED
  BY <1>1, <1>2 DEF DesignStatus, SourceStatuses

\* The fields of an evaluation.
LEMMA EvaluatedFields ==
  ASSUME NEW runner, NEW personal, NEW requests, NEW state, NEW ux
  PROVE  LET a == Evaluated(runner, personal, requests, state, ux)
             bare == Lanes(runner, personal, requests, state, ux)
         IN
         /\ a.schema = bare.schema /\ a.runner = runner /\ a.coverage = bare.coverage
         /\ a.violations = bare.violations /\ a.gaps = bare.gaps
         /\ a.resolutions = bare.resolutions /\ a.ux = ux
         /\ a.design = DesignStatus(bare, SourcesSeen(bare, state))
         /\ a.usage = IF runner.evidence.usage = Nothing THEN Nothing
                      ELSE UsageLane(runner.evidence.usage, a.design)
         /\ a.ready = bare.ready
         /\ a.schema = 1 => a.usage = Nothing
<1> DEFINE a == Evaluated(runner, personal, requests, state, ux)
           bare == Lanes(runner, personal, requests, state, ux)
           design == DesignStatus(bare, SourcesSeen(bare, state))
           u == runner.evidence.usage
           usage == IF u = Nothing THEN Nothing ELSE UsageLane(u, design)
           full == [bare EXCEPT !.design = design, !.usage = usage]
           ready == ExitCode(full, SourcesSeen(full, state)) = "pass"
<1>1. a = [full EXCEPT !.ready = ready]
  BY DEF Evaluated
<1>2. ready = FALSE
  BY CodeType DEF Codes
<1> HIDE DEF design, usage, ready, a
<1>3. a = [schema |-> bare.schema, runner |-> bare.runner, coverage |-> bare.coverage,
           violations |-> bare.violations, gaps |-> bare.gaps,
           resolutions |-> bare.resolutions, ux |-> bare.ux, design |-> design,
           usage |-> usage, ready |-> FALSE]
  BY <1>1, <1>2 DEF Lanes
<1>4. bare.runner = runner /\ bare.ux = ux /\ (bare.schema = 1 => u = Nothing)
  BY DEF Lanes
<1>5. a.ready = bare.ready
  BY <1>3 DEF Lanes
<1>6. /\ a.schema = bare.schema /\ a.runner = runner /\ a.coverage = bare.coverage
      /\ a.violations = bare.violations /\ a.gaps = bare.gaps
      /\ a.resolutions = bare.resolutions /\ a.ux = ux
      /\ a.design = design /\ a.usage = usage
  BY <1>3, <1>4
<1> QED
  BY <1>4, <1>5, <1>6 DEF a, design, usage

\* The design status and the lanes it is made of.
LEMMA DesignFrame ==
  ASSUME NEW a, NEW b, NEW S,
         a.coverage = b.coverage, a.violations = b.violations, a.gaps = b.gaps,
         a.resolutions = b.resolutions
  PROVE  /\ Invalid(a) <=> Invalid(b)
         /\ DesignViolated(a) <=> DesignViolated(b)
         /\ StatusesOf(a.resolutions) = StatusesOf(b.resolutions)
         /\ DesignStatus(a, S) = DesignStatus(b, S)
  BY DEF DesignStatus, Invalid, DesignViolated

\* What the audit reported can be recomputed from its result alone: the same
\* design status and the same exit code, although the state of the source is
\* not part of the result (audit.py:1087-1148 against audit.py:1236-1337).
THEOREM RecomputedCode ==
  ASSUME NEW runner, NEW personal, NEW requests, NEW state, NEW ux,
         NEW a, a = Evaluated(runner, personal, requests, state, ux)
  PROVE  /\ DeriveCode(a) = EvaluateCode(a, state)
         /\ a.design = DesignStatus(a, SourcesSealed(a))
<1>0. PICK bare : bare = Lanes(runner, personal, requests, state, ux)
  OBVIOUS
<1> DEFINE seen == SourcesSeen(bare, state)
           sealed == SourcesSealed(a)
<1>1. /\ a.coverage = bare.coverage /\ a.violations = bare.violations /\ a.gaps = bare.gaps
      /\ a.resolutions = bare.resolutions /\ a.design = DesignStatus(bare, seen)
  BY <1>0, EvaluatedFields
<1>2. \A S : DesignStatus(a, S) = DesignStatus(bare, S)
  BY <1>1, DesignFrame
<1>3. SourcesSeen(a, state) = seen /\ seen \subseteq SourceStatuses
  BY <1>1 DEF SourcesSeen
<1>4. sealed = (seen \cap StatusesOf(a.resolutions)) \cup ({a.design} \cap SourceStatuses)
  BY <1>1 DEF SourcesSealed, SourcesSeen
<1> HIDE DEF seen, sealed
<1>5. a.design = DesignStatus(a, seen)
  BY <1>1, <1>2
<1>6. CASE Invalid(a)
  <2>1. a.design = "invalid" /\ DesignStatus(a, sealed) = "invalid"
    BY <1>5, <1>6 DEF DesignStatus
  <2>2. \A S : ExitCode(a, S) = "invalid"
    BY <1>6 DEF ExitCode
  <2> QED
    BY <2>1, <2>2 DEF DeriveCode, EvaluateCode, sealed
<1>7. CASE ~Invalid(a) /\ seen # {}
  <2>1. a.design = Worst(seen)
    BY <1>3, <1>5, <1>7, DesignOfSource
  <2>2. Worst(seen) \in seen
    BY <1>3, <1>7, WorstIsOne
  <2>3. sealed = (seen \cap StatusesOf(a.resolutions)) \cup {Worst(seen)}
    BY <1>3, <1>4, <2>1, <2>2
  <2>4. Worst(sealed) = Worst(seen)
    BY <1>3, <1>7, <2>3, WorstIsOne
  <2>5. sealed # {} /\ sealed \subseteq SourceStatuses
    BY <1>3, <2>2, <2>3
  <2>6. DesignStatus(a, sealed) = a.design
    BY <1>7, <2>1, <2>4, <2>5, DesignOfSource
  <2>7. ExitCode(a, sealed) = ExitCode(a, seen)
    BY <1>7, <2>5 DEF ExitCode
  <2> QED
    BY <1>3, <2>6, <2>7 DEF DeriveCode, EvaluateCode, sealed
<1>8. CASE ~Invalid(a) /\ seen = {}
  <2>1. a.design \notin SourceStatuses
    BY <1>5, <1>8, DesignOfSource
  <2>2. sealed = seen
    BY <1>4, <1>8, <2>1
  <2> QED
    BY <1>3, <1>5, <2>2 DEF DeriveCode, EvaluateCode, sealed
<1> QED
  BY <1>6, <1>7, <1>8

-----------------------------------------------------------------------------
(* The v1 projection and the override by a source that blocks.             *)

LEMMA EvaluatedShape ==
  ASSUME NEW runner, NEW personal, NEW requests, NEW state, NEW ux,
         runner.evidence.usage # Nothing => IsUsage(runner.evidence.usage)
  PROVE  IsAudit(Evaluated(runner, personal, requests, state, ux))
<1> DEFINE a == Evaluated(runner, personal, requests, state, ux)
           bare == Lanes(runner, personal, requests, state, ux)
           design == DesignStatus(bare, SourcesSeen(bare, state))
           u == runner.evidence.usage
           usage == IF u = Nothing THEN Nothing ELSE UsageLane(u, design)
           full == [bare EXCEPT !.design = design, !.usage = usage]
           ready == ExitCode(full, SourcesSeen(full, state)) = "pass"
<1>1. a = [full EXCEPT !.ready = ready]
  BY DEF Evaluated
<1>2. usage # Nothing => IsUsage(usage)
  BY DEF IsUsage, UsageLane
<1> HIDE DEF a, design, usage, ready
<1>3. a = [schema |-> bare.schema, runner |-> bare.runner, coverage |-> bare.coverage,
           violations |-> bare.violations, gaps |-> bare.gaps,
           resolutions |-> bare.resolutions, ux |-> bare.ux, design |-> design,
           usage |-> usage, ready |-> ready]
  BY <1>1 DEF Lanes
<1> HIDE DEF bare
<1>4. IsAudit(a)
  BY <1>2, <1>3 DEF IsAudit
<1> QED
  BY <1>4 DEF a

LEMMA V1Fields ==
  ASSUME NEW a, IsAudit(a)
  PROVE  /\ V1(a).runner = a.runner /\ V1(a).coverage = a.coverage
         /\ V1(a).violations = a.violations /\ V1(a).gaps = a.gaps
         /\ V1(a).resolutions = a.resolutions /\ V1(a).ux = a.ux
         /\ V1(a).design = a.design /\ V1(a).ready = a.ready
         /\ V1(a).schema = 1 /\ V1(a).usage = Nothing
         /\ IsAudit(V1(a))
<1> DEFINE b == [a EXCEPT !.schema = 1]
<1>a. b = [schema |-> 1, runner |-> a.runner, coverage |-> a.coverage,
           violations |-> a.violations, gaps |-> a.gaps,
           resolutions |-> a.resolutions, ux |-> a.ux, design |-> a.design,
           usage |-> a.usage, ready |-> a.ready]
  BY DEF IsAudit
<1>b. V1(a) = [b EXCEPT !.usage = Nothing]
  BY DEF V1
<1> HIDE DEF b
<1>1. V1(a) = [schema |-> 1, runner |-> a.runner, coverage |-> a.coverage,
           violations |-> a.violations, gaps |-> a.gaps,
           resolutions |-> a.resolutions, ux |-> a.ux, design |-> a.design,
           usage |-> Nothing, ready |-> a.ready]
  BY <1>a, <1>b
<1>2. V1(a).ready = a.ready
  BY <1>1
<1>3. IsAudit(V1(a))
  BY <1>1 DEF IsAudit
<1> QED
  BY <1>1, <1>2, <1>3

LEMMA OverrideFields ==
  ASSUME NEW a, IsAudit(a), NEW state, state \in SourceStatuses
  PROVE  LET b == Override(a, state) IN
         /\ b.runner = a.runner /\ b.coverage = a.coverage
         /\ b.violations = a.violations /\ b.gaps = a.gaps
         /\ b.resolutions = a.resolutions /\ b.ux = a.ux
         /\ b.design = state /\ b.schema = a.schema
         /\ b.usage = IF a.usage = Nothing THEN Nothing ELSE [a.usage EXCEPT !.status = state]
         /\ IsAudit(b)
<1> DEFINE usage == IF a.usage = Nothing THEN Nothing ELSE [a.usage EXCEPT !.status = state]
<1>1. Override(a, state) =
        [schema |-> a.schema, runner |-> a.runner, coverage |-> a.coverage,
         violations |-> a.violations, gaps |-> a.gaps, resolutions |-> a.resolutions,
         ux |-> a.ux, design |-> state, usage |-> usage, ready |-> FALSE]
  BY DEF Override, IsAudit
<1>2. usage # Nothing => IsUsage(usage)
  BY DEF IsUsage, IsAudit
<1> HIDE DEF usage
<1>3. IsAudit(Override(a, state))
  BY <1>1, <1>2 DEF IsAudit
<1> QED
  BY <1>1, <1>3 DEF usage

LEMMA V1Override ==
  ASSUME NEW a, IsAudit(a), NEW state
  PROVE  V1(Override(a, state)) = Override(V1(a), state)
<1>1. CASE state \in SourceStatuses
  BY <1>1 DEF V1, Override, IsAudit
<1>2. CASE state \notin SourceStatuses
  BY <1>2 DEF Override
<1> QED
  BY <1>1, <1>2

\* The lanes that both have decide, but for the Usage lane.
LEMMA CodeFrame ==
  ASSUME NEW a, NEW b, NEW S,
         a.coverage = b.coverage, a.violations = b.violations, a.gaps = b.gaps,
         a.resolutions = b.resolutions, a.ux = b.ux
  PROVE  /\ a.usage = b.usage => ExitCode(a, S) = ExitCode(b, S)
         /\ CoverageBlocked(a) <=> CoverageBlocked(b)
  BY DesignFrame DEF ExitCode, CoverageBlocked, UsageIn

\* Dropping the Usage lane from a result that can be recomputed leaves its
\* exit code as it is, since every blocking state of the lane is also a state
\* of the design or of the coverage (audit.py:262-279, project_audit_result_v1).
THEOREM V1KeepsTheCode ==
  ASSUME NEW a, IsAudit(a), Derivable(a), a.schema = 2 \/ a.usage = Nothing
  PROVE  DeriveCode(V1(a)) = DeriveCode(a)
<1> DEFINE b == V1(a)
           S == SourcesSealed(a)
<1>1. /\ b.coverage = a.coverage /\ b.violations = a.violations /\ b.gaps = a.gaps
      /\ b.resolutions = a.resolutions /\ b.ux = a.ux /\ b.design = a.design
      /\ b.usage = Nothing
  BY V1Fields
<1> HIDE DEF b
<1>2. SourcesSealed(b) = S
  BY <1>1 DEF SourcesSealed
<1>3. CASE a.usage = Nothing
  BY <1>1, <1>2, <1>3, CodeFrame DEF DeriveCode, b
<1>4. CASE a.usage # Nothing
  <2> DEFINE u == a.usage
  <2>1. Agrees(a) /\ a.design = DesignStatus(a, S)
    BY <1>4 DEF Derivable
  <2>2. UsageAgrees(u, a.design, a.violations, a.coverage) /\ CanonicalUsage(u)
    BY <1>4, <2>1 DEF Agrees
  <2>3. S \subseteq SourceStatuses
    BY DEF SourcesSealed
  <2>4. /\ Invalid(b) <=> Invalid(a)
        /\ DesignViolated(b) <=> DesignViolated(a)
        /\ CoverageBlocked(b) <=> CoverageBlocked(a)
    BY <1>1, DesignFrame, CodeFrame
  <2>5. u.status = "invalid" => Invalid(a)
    BY <2>1, <2>2, <2>3, DesignOfSource DEF UsageAgrees
  <2>6. u.status \in SourceStatuses => S # {}
    BY <2>2 DEF UsageAgrees, SourcesSealed
  <2>7. u.status = "conflict" => DesignViolated(a) \/ Invalid(a) \/ S # {}
    <3> SUFFICES ASSUME u.status = "conflict", ~Invalid(a), S = {}
                 PROVE  DesignViolated(a)
      OBVIOUS
    <3>1. a.design = "conflict"
      BY <2>2 DEF UsageAgrees
    <3>2. CoverageStatus(a.coverage) # "conflict"
      BY ProjectedStatus
    <3> QED
      BY <2>1, <3>1, <3>2 DEF DesignStatus
  <2>8. u.status \in {"not_assessed", "unsupported"} => ~CoverageComplete(a.coverage)
    <3> SUFFICES ASSUME u.status \in {"not_assessed", "unsupported"}
                 PROVE  ~CoverageComplete(a.coverage)
      OBVIOUS
    <3>1. a.coverage.category["components"] = u.status
      BY <2>2 DEF UsageAgrees, SourceStatuses
    <3> QED
      BY <3>1 DEF CoverageComplete, Categories
  <2>9. \A X : ~UsageIn(b, X)
    BY <1>1 DEF UsageIn
  <2>10. \A X : UsageIn(a, X) <=> u.status \in X
    BY <1>4 DEF UsageIn
  <2>11. b.ux = a.ux
    BY <1>1
  <2> HIDE DEF u, S
  <2>12. CoverageBlocked(a)
    BY DEF CoverageBlocked, EnforcementStatus
  <2>13. ExitCode(b, S) = ExitCode(a, S)
    BY <2>4, <2>5, <2>6, <2>7, <2>9, <2>10, <2>11, <2>12 DEF ExitCode
  <2> QED
    BY <1>2, <2>13 DEF DeriveCode, b, S
<1> QED
  BY <1>3, <1>4

\* A source that blocks at completion makes the verdict "source", and never
\* milder than what was attested (finalize.py:261-277).
THEOREM OverrideIsNoMilder ==
  ASSUME NEW a, IsAudit(a), NEW state, Derivable(Override(a, state)),
         a.schema = 2 \/ a.usage = Nothing
  PROVE  LET code == DeriveCode(Override(a, state))
             attested == DeriveCode(V1(a))
         IN /\ code = IF state \in SourceStatuses THEN "source" ELSE attested
            /\ Severity(code) >= Severity(attested)
<1>1. CASE state \notin SourceStatuses
  <2>1. Override(a, state) = a
    BY <1>1 DEF Override
  <2>2. DeriveCode(V1(a)) = DeriveCode(a)
    BY <2>1, V1KeepsTheCode
  <2>3. DeriveCode(a) \in Codes
    BY CodeType DEF DeriveCode
  <2> QED
    BY <1>1, <2>1, <2>2, <2>3 DEF Severity, Codes
<1>2. CASE state \in SourceStatuses
  <2> DEFINE b == Override(a, state)
             S == SourcesSealed(b)
  <2>1. /\ b.resolutions = a.resolutions /\ b.design = state
        /\ b.usage # Nothing => b.usage.status = state
    <3>1. b.usage = IF a.usage = Nothing THEN Nothing ELSE [a.usage EXCEPT !.status = state]
      BY <1>2, OverrideFields
    <3>2. a.usage # Nothing => [a.usage EXCEPT !.status = state].status = state
      BY DEF IsAudit, IsUsage
    <3> QED
      BY <1>2, <3>1, <3>2, OverrideFields
  <2>2. b.design = DesignStatus(b, S)
    BY DEF Derivable
  <2> HIDE DEF b
  <2>3. S # {} /\ S \subseteq SourceStatuses
    BY <1>2, <2>1 DEF SourcesSealed
  <2>4. ~Invalid(b)
    BY <1>2, <2>1, <2>2, <2>3, DesignOfSource
  <2>5. ~UsageIn(b, {"invalid"})
    BY <1>2, <2>1 DEF UsageIn, SourceStatuses
  <2>6. DeriveCode(b) = "source"
    BY <2>3, <2>4, <2>5 DEF DeriveCode, ExitCode
  <2>7. ~Invalid(V1(a)) /\ ~UsageIn(V1(a), {"invalid"})
    BY <2>1, <2>4, V1Fields DEF Invalid, UsageIn
  <2>8. DeriveCode(V1(a)) \in {"source", "violation", "coverage"}
    BY <2>7, CodeType DEF DeriveCode, ExitCode, Codes
  <2> QED
    BY <1>2, <2>6, <2>8 DEF Severity, b
<1> QED
  BY <1>1, <1>2


-----------------------------------------------------------------------------
(* The adapters.                                                           *)

\* Readiness is computed twice, by the runner from its own counts and by the
\* normalization from the rules' evidence: what the runner produces is never
\* refused by the normalization (flutter_runner.py:838-842 against
\* flutter_adapter.py:784-795).
THEOREM RunnerResultNormalizes ==
  ASSUME NEW content \in Trees, NEW schema \in 1..3
  PROVE  Normalizable(RunnerResult(content, schema), schema)
<1> DEFINE raw == RunnerResult(content, schema)
<1>1. /\ raw.reported = Reported(content, schema)
      /\ raw.markers = Markers(content, schema)
      /\ raw.suppressed = content.suppressed
      /\ raw.components = IF Incomplete(raw.markers, schema) THEN "not_assessed" ELSE "allowed"
  BY DEF RunnerResult
<1>2. raw.ready = (raw.reported = {} /\ ~content.suppressed /\ ~Incomplete(raw.markers, schema))
  BY DEF RunnerResult
<1> HIDE DEF raw
<1>3. /\ content.lints \subseteq Lints
      /\ Active(schema) \subseteq Rules
  BY DEF Trees, Active, OfClass
<1>4. raw.markers # {} => schema = 3
  BY <1>1 DEF Markers
<1>5. schema = 3 => (raw.reported \cap Rules) \cup raw.markers \subseteq Active(schema)
  BY <1>1, <1>3, DiagnosticsAssumption DEF Markers, Reported
<1>6. Violations(raw) = {} <=> raw.reported = {} /\ ~content.suppressed
  BY <1>1 DEF Violations
<1>7. raw.components = "allowed" <=> ~Incomplete(raw.markers, schema)
  BY <1>1
<1>8. ASSUME schema = 3, raw.reported = {}, ~Incomplete(raw.markers, schema)
      PROVE  UsageEvidence(raw, schema).status = "allowed"
  BY <1>8 DEF UsageEvidence, Incomplete
<1>9. UsageEvidence(raw, schema) # Nothing => schema = 3
  BY DEF UsageEvidence
<1>10. ReadyExpected(raw, schema) <=>
         raw.reported = {} /\ ~content.suppressed /\ ~Incomplete(raw.markers, schema)
  BY <1>6, <1>7, <1>8, <1>9 DEF ReadyExpected
<1>11. raw.ready = ReadyExpected(raw, schema)
  <2>1. ReadyExpected(raw, schema) \in BOOLEAN
    BY DEF ReadyExpected
  <2> QED
    BY <1>2, <1>10, <2>1
<1>12. Normalizable(raw, schema)
  BY <1>4, <1>5, <1>11 DEF Normalizable
<1> QED
  BY <1>12 DEF raw

-----------------------------------------------------------------------------
(* Which runs can be decided.                                              *)

LEMMA ClearNeedsCoverage ==
  ASSUME NEW t, NEW a, NEW candidates, Decidable(Assessment(t, a, candidates))
  PROVE  CoverageComplete(a.coverage)
<1>1. Assessment(t, a, candidates).clear = BlockersClear(a)
  BY DEF Assessment
<1>2. BlockersClear(a)
  BY <1>1 DEF Decidable
<1> QED
  BY <1>2 DEF BlockersClear, CoverageStatus

\* A run with caller-carried evidence, from Figma or under a personal pin,
\* can never be decided (audit.py, adapter_audit_projection).
THEOREM CarriedEvidenceUndecidable ==
  ASSUME NEW e, NEW personal \in BOOLEAN, personal \/ e.coverage.adapter = "figma",
         DOMAIN e.coverage = {"adapter", "supported", "allFiles", "category"},
         NEW a, a.coverage = ProjectCoverage(e.coverage, personal),
         NEW t, NEW candidates
  PROVE  ~Decidable(Assessment(t, a, candidates))
<1> SUFFICES ASSUME CoverageComplete(a.coverage) PROVE FALSE
  BY ClearNeedsCoverage
<1> DEFINE old == e.coverage.category
           new == [k \in Categories |-> IF old[k] = "allowed" THEN "not_assessed" ELSE old[k]]
<1>1. a.coverage = [e.coverage EXCEPT !.category = new]
  BY DEF ProjectCoverage
<1>2. a.coverage.category = new
  BY <1>1
<1>3. new["components"] # "allowed"
  BY DEF Categories
<1>4. a.coverage.category["components"] = "allowed"
  BY DEF CoverageComplete, Categories
<1> QED
  BY <1>2, <1>3, <1>4

\* A company run under evaluator v2 whose rules include a judgment rule can
\* never be decided: the rule itself counts as not covered by the adapter
\* (flutter_config.py:543, flutter_runner.py:806, judgment_assessment.py:478).
THEOREM JudgmentRuleUndecidable ==
  ASSUME JudgmentRules # {},
         NEW content, NEW schema \in {2, 3}, NEW personal \in BOOLEAN,
         NEW a, a.coverage = ProjectCoverage(
                  FlutterEvidence(RunnerResult(content, schema), schema).coverage, personal),
         NEW t, NEW candidates
  PROVE  ~Decidable(Assessment(t, a, candidates))
<1> DEFINE raw == RunnerResult(content, schema)
           c == FlutterEvidence(raw, schema).coverage
<1> SUFFICES ASSUME CoverageComplete(a.coverage) PROVE FALSE
  BY ClearNeedsCoverage
<1>1. PICK r \in Rules : Class[r] = "judgment"
  BY DEF JudgmentRules, OfClass
<1>2. r \in OfClass(Classes \ {"informative"}) /\ r \notin Active(schema)
  BY <1>1 DEF OfClass, Classes, Active
<1>3. Inactive(schema) # {}
  BY <1>2 DEF Inactive
<1>4. raw.components = "not_assessed"
  BY <1>3 DEF RunnerResult, Incomplete
<1>5. c.category["components"] = "not_assessed" /\ c.adapter = "flutter"
  BY <1>4 DEF FlutterEvidence, Categories
<1>6. CASE ~personal
  BY <1>5, <1>6 DEF ProjectCoverage, CoverageComplete, Categories
<1>7. CASE personal
  <2> DEFINE new == [k \in Categories |->
                      IF c.category[k] = "allowed" THEN "not_assessed" ELSE c.category[k]]
  <2>1. a.coverage = [c EXCEPT !.category = new]
    BY <1>7 DEF ProjectCoverage
  <2>2. "category" \in DOMAIN c
    BY DEF FlutterEvidence
  <2>3. new["components"] = "not_assessed"
    BY <1>5 DEF Categories
  <2> HIDE DEF c, new
  <2>4. a.coverage.category = new
    BY <2>1, <2>2
  <2> QED
    BY <2>3, <2>4 DEF CoverageComplete, Categories
<1> QED
  BY <1>6, <1>7

-----------------------------------------------------------------------------
(* What a decision is worth.                                               *)

IsAssessment(s) ==
  \A key \in DOMAIN s.instances :
    s.instances[key].status \in {"allowed", "conflict", "not_assessed"}

\* A decided assessment counts as approved only while a decision is active
\* that names exactly the findings of its conflicts, all of them: neither raw
\* approval nor a partial exception is enough (judgment_assessment.py:749-807).
THEOREM OnlyWholeDecisionsApprove ==
  ASSUME NEW s, IsAssessment(s), DOMAIN s.instances # {},
         NEW d, DecisionAccepted(s, d), Effective(s, d) = "allowed"
  PROVE  d.active /\ d.selected = ConflictFindings(s)
<1> DEFINE D == DOMAIN s.instances
<1>1. \A key \in D : EffectiveOf(s, d, key) \notin {"conflict", "not_assessed"}
  BY DEF Effective, Aggregate
<1>2. \A key \in D : s.instances[key].status \in {"allowed", "conflict", "not_assessed"}
  BY DEF IsAssessment
<1>3. \A key \in D : /\ d.active
                     /\ s.instances[key].status = "conflict" =>
                          s.instances[key].findings \subseteq d.selected
  BY <1>1, <1>2 DEF EffectiveOf, Excepted
<1>4. ConflictFindings(s) \subseteq d.selected
  BY <1>3 DEF ConflictFindings
<1> QED
  BY <1>3, <1>4 DEF DecisionAccepted

-----------------------------------------------------------------------------
(* What results, attestations, manifests and jobs are.                     *)

\* A result that an audit may have handed out, or a v1 projection of one.
AuditOk(a) ==
  /\ IsAudit(a) /\ a.ready = FALSE
  /\ a.schema = 2 \/ a.usage = Nothing
  /\ a.runner.evidence.usage # Nothing => IsUsage(a.runner.evidence.usage)

AttestationOk(t) ==
  /\ t = [runner |-> t.runner, ux |-> t.ux, v1 |-> t.v1]
  /\ AuditOk(t.v1)

\* What a manifest has to say of its own parts.
SealOk(m, available) ==
  /\ m = [attestation |-> m.attestation, audit |-> m.audit, planned |-> m.planned,
          completed |-> m.completed, exit |-> m.exit]
  /\ AuditOk(m.audit)
  /\ V1(m.audit) = Override(m.attestation.v1, Classify(available, m.completed))
  /\ m.exit = DeriveCode(m.audit)
  /\ m.exit \in {DeriveCode(m.attestation.v1), "source"}
  /\ Severity(m.exit) >= Severity(DeriveCode(m.attestation.v1))

SealKinds(m) ==
  {"audit-result", "coverage", "readable-report", "run-manifest", "post-run-assessment"}
    \cup (IF m.planned THEN {"build-plan"} ELSE {})

Content(v) == v \notin {Absent, Torn}

AttestJob(f) ==
  DOMAIN f = {"analysis-attestation"} /\ AttestationOk(f["analysis-attestation"])

SealJob(f) ==
  LET m == f["run-manifest"] IN
  /\ DOMAIN f = SealKinds(m)
  /\ f["audit-result"] = m.audit /\ f["coverage"] = CoverageOf(m.audit)
  /\ m.planned => f["build-plan"] = Plan(m.audit)
  /\ f["readable-report"] = Report(m.audit)
  /\ f["post-run-assessment"] = PostRun(m.audit, m.exit)
  /\ SealOk(m, pin.available)
  /\ Readable("analysis-attestation") /\ m.attestation = Attestation

JudgeJob(f) ==
  /\ DOMAIN f = {"judgment-assessment"}
  /\ Readable("analysis-attestation") /\ Readable("audit-result")
  /\ Readable("run-manifest") /\ V1(SealedAudit) = Attestation.v1
  /\ SealedAudit.violations = {}
  /\ SealedAudit.usage # Nothing =>
       SealedAudit.usage.violated \cup SealedAudit.usage.notAssessed = {}
  /\ Decidable(f["judgment-assessment"])

\* The manifest comes after everything it names, the assessment after it.
Rank(kind) ==
  IF kind = "run-manifest" THEN 2 ELSE IF kind = "post-run-assessment" THEN 3 ELSE 1

\* What is left to do of job f is a list in this order, the rest is stored in fs.
Doing(list, f, fs) ==
  /\ DOMAIN f \subseteq Kinds
  /\ \A k \in DOMAIN f : Content(f[k])
  /\ list \in Seq({<<k, f[k]>> : k \in DOMAIN f})
  /\ \A i, j \in 1..Len(list) : i < j => Rank(list[i][1]) <= Rank(list[j][1])
  /\ \A k \in DOMAIN f : (\A i \in 1..Len(list) : list[i][1] # k) => fs[k] = f[k]

Working(p) ==
  \E f : Doing(todo[p], f, files) /\ (AttestJob(f) \/ SealJob(f) \/ JudgeJob(f))

ProcInv(p) ==
  /\ pc[p] = "checking" => AuditOk(ctx[p].claim)
  /\ pc[p] \in {"writing", "filling"} =>
       Working(p) /\ (ctx[p].emit = Nothing \/ AuditOk(ctx[p].emit))
  /\ pc[p] = "filling" => todo[p] # <<>> /\ files[Kind(p)] = Torn

FillersApart ==
  \A p, q \in Procs :
    pc[p] = "filling" /\ pc[q] = "filling" /\ p # q => Kind(p) # Kind(q)

Shapes ==
  /\ files = [k \in Kinds |-> files[k]]
  /\ ctx = [p \in Procs |-> ctx[p]] /\ todo = [p \in Procs |-> todo[p]]

\* What is known of the files beyond RunInv.
FilesOk ==
  /\ Readable("analysis-attestation") => AttestationOk(Attestation)
  /\ Readable("run-manifest") => SealOk(Manifest, pin.available)

\* The parts of a judgment stand on a manifest and stay.
JudgmentRests ==
  Readable("judgment-assessment") =>
    Readable("audit-result") /\ Readable("analysis-attestation")

RunIInv ==
  /\ RunInv /\ Shapes /\ FilesOk /\ JudgmentRests
  /\ \A a \in emitted : AuditOk(a)
  /\ \A p \in Procs : ProcInv(p)
  /\ FillersApart

-----------------------------------------------------------------------------
(* Contents are not mistaken for missing or torn files.                    *)

LEMMA Marks == Absent # Torn /\ DOMAIN Absent = {"file"} /\ DOMAIN Torn = {"file"}
  BY DEF Absent, Torn

LEMMA AuditIsContent == ASSUME NEW a, IsAudit(a) PROVE Content(a)
<1>1. "schema" \in DOMAIN a
  BY DEF IsAudit
<1> QED
  BY <1>1, Marks DEF Content

LEMMA AttestationIsContent == ASSUME NEW t, AttestationOk(t) PROVE Content(t)
<1>1. "v1" \in DOMAIN t
  BY DEF AttestationOk
<1> QED
  BY <1>1, Marks DEF Content

LEMMA OtherContents ==
  ASSUME NEW a, NEW exit
  PROVE  Content(CoverageOf(a)) /\ Content(Plan(a)) /\ Content(Report(a))
         /\ Content(PostRun(a, exit))
<1>1. "coverage" \in DOMAIN CoverageOf(a) /\ "selections" \in DOMAIN Plan(a)
      /\ "next" \in DOMAIN Report(a) /\ "reasons" \in DOMAIN PostRun(a, exit)
  BY DEF CoverageOf, Plan, Report, PostRun
<1> QED
  BY <1>1, Marks DEF Content

LEMMA ManifestIsContent == ASSUME NEW m, NEW v, SealOk(m, v) PROVE Content(m)
<1>1. "planned" \in DOMAIN m
  BY DEF SealOk
<1> QED
  BY <1>1, Marks DEF Content

LEMMA AssessmentIsContent ==
  ASSUME NEW t, NEW a, NEW candidates PROVE Content(Assessment(t, a, candidates))
<1>1. "clear" \in DOMAIN Assessment(t, a, candidates)
  BY DEF Assessment
<1> QED
  BY <1>1, Marks DEF Content

-----------------------------------------------------------------------------
(* Results.                                                                *)

\* What the adapters hand over carries a Usage lane or none.
LEMMA EvidenceType ==
  /\ \A raw, schema : LET u == FlutterEvidence(raw, schema).usage IN u # Nothing => IsUsage(u)
  /\ \A o : FigmaEvidence(o).usage = Nothing
<1>1. ASSUME NEW raw, NEW schema
      PROVE  /\ FlutterEvidence(raw, schema).usage = UsageEvidence(raw, schema)
             /\ UsageEvidence(raw, schema) # Nothing => IsUsage(UsageEvidence(raw, schema))
  <2>1. FlutterEvidence(raw, schema).usage = UsageEvidence(raw, schema)
    BY DEF FlutterEvidence
  <2>2. UsageEvidence(raw, schema) # Nothing => IsUsage(UsageEvidence(raw, schema))
    BY DEF UsageEvidence, IsUsage
  <2> QED
    BY <2>1, <2>2
<1>2. \A o : FigmaEvidence(o).usage = Nothing
  BY DEF FigmaEvidence
<1> QED
  BY <1>1, <1>2

LEMMA EvaluatedOk ==
  ASSUME NEW runner, NEW personal, NEW requests, NEW state, NEW ux,
         runner.evidence.usage # Nothing => IsUsage(runner.evidence.usage)
  PROVE  AuditOk(Evaluated(runner, personal, requests, state, ux))
<1> DEFINE a == Evaluated(runner, personal, requests, state, ux)
           bare == Lanes(runner, personal, requests, state, ux)
<1>1. IsAudit(a)
  BY EvaluatedShape
<1>2. a.ready = bare.ready
  BY EvaluatedFields
<1>3. a.runner = runner /\ (a.schema = 1 => a.usage = Nothing) /\ a.schema = bare.schema
  BY EvaluatedFields
<1>4. bare.ready = FALSE /\ bare.schema \in {1, 2}
  BY DEF Lanes
<1> HIDE DEF a, bare
<1>5. a.ready = FALSE
  BY <1>2, <1>4
<1>6. a.schema = 2 \/ a.usage = Nothing
  BY <1>3, <1>4
<1>7. AuditOk(a)
  BY <1>1, <1>3, <1>5, <1>6 DEF AuditOk
<1> QED
  BY <1>7 DEF a

LEMMA V1Ok == ASSUME NEW a, AuditOk(a) PROVE AuditOk(V1(a))
<1>1. IsAudit(a) /\ a.ready = FALSE
  BY DEF AuditOk
<1>2. V1(a).runner = a.runner /\ V1(a).usage = Nothing /\ IsAudit(V1(a))
  BY <1>1, V1Fields
<1>3. V1(a).ready = a.ready
  BY <1>1, V1Fields
<1>4. V1(a).ready = FALSE
  BY <1>1, <1>3
<1> QED
  BY <1>2, <1>4 DEF AuditOk

LEMMA OverrideOk == ASSUME NEW a, AuditOk(a), NEW state PROVE AuditOk(Override(a, state))
<1>1. CASE state \notin SourceStatuses
  BY <1>1 DEF Override
<1>2. CASE state \in SourceStatuses
  <2> DEFINE b == Override(a, state)
  <2>0. IsAudit(a)
    BY DEF AuditOk
  <2>1. IsAudit(b) /\ b.runner = a.runner /\ b.schema = a.schema
        /\ (a.usage = Nothing => b.usage = Nothing)
    BY <1>2, <2>0, OverrideFields
  <2>2. b.ready = FALSE
    BY <1>2, <2>0 DEF Override, IsAudit
  <2> HIDE DEF b
  <2>3. AuditOk(b)
    BY <2>1, <2>2 DEF AuditOk
  <2> QED
    BY <2>3 DEF b
<1> QED
  BY <1>1, <1>2

\* What a finalization seals is a manifest that says what it has to.
LEMMA SealedIsOk ==
  ASSUME NEW inputs, AuditOk(inputs.claim), Acceptable(inputs),
         NEW m, m = ManifestOf(SealedFrom(inputs), inputs)
  PROVE  /\ SealOk(m, pin.available) /\ m.audit = SealedFrom(inputs)
         /\ Readable("analysis-attestation") /\ m.attestation = Attestation
         /\ m.planned = (inputs.plan # "none")
<1> DEFINE a == inputs.claim
           state == Classify(pin.available, inputs.completed)
           c == CompletedAudit(inputs)
<1>1. /\ Readable("analysis-attestation") /\ Attestation.v1 = V1(a)
      /\ Derivable(c) /\ c = Override(a, state)
  BY DEF Acceptable, AttestationHolds, CompletedAudit
<1>2. AuditOk(c)
  BY <1>1, OverrideOk
<1> HIDE DEF a, c, state
<1>3. c.ready = FALSE /\ IsAudit(c)
  BY <1>2 DEF AuditOk
<1>4. FinalCode(c, inputs.plan) = DeriveCode(c)
  BY PlanChangesNothing DEF FinalCode
<1>5. SealedFrom(inputs) = [c EXCEPT !.ready = (DeriveCode(c) = "pass")]
  BY <1>4 DEF SealedFrom, c
<1>6. (DeriveCode(c) = "pass") = FALSE
  BY NothingPasses
<1>7. SealedFrom(inputs) = c
  BY <1>3, <1>5, <1>6 DEF IsAudit
<1>8. m = [attestation |-> Attestation, audit |-> c, planned |-> inputs.plan # "none",
           completed |-> inputs.completed, exit |-> DeriveCode(c)]
  BY <1>4, <1>7 DEF ManifestOf
<1>9. /\ m.attestation = Attestation /\ m.audit = c /\ m.completed = inputs.completed
      /\ m.exit = DeriveCode(c)
  BY <1>8
<1>10. m.planned = (inputs.plan # "none")
  BY <1>8
<1>11. m = [attestation |-> m.attestation, audit |-> m.audit, planned |-> m.planned,
            completed |-> m.completed, exit |-> m.exit]
  BY <1>8
<1>12. AuditOk(a) /\ IsAudit(a) /\ (a.schema = 2 \/ a.usage = Nothing)
  BY DEF AuditOk, a
<1>13. V1(c) = Override(Attestation.v1, state)
  BY <1>1, <1>12, V1Override
<1>14. /\ DeriveCode(c) \in {DeriveCode(Attestation.v1), "source"}
       /\ Severity(DeriveCode(c)) >= Severity(DeriveCode(Attestation.v1))
  BY <1>1, <1>12, OverrideIsNoMilder
<1>15. SealOk(m, pin.available)
  BY <1>2, <1>9, <1>11, <1>13, <1>14 DEF SealOk, state
<1> QED
  BY <1>1, <1>7, <1>9, <1>10, <1>15

\* A result that nothing but judgment blocks has no violation in any lane.
LEMMA ClearIsClean ==
  ASSUME NEW a, AuditOk(a), Derivable(a), BlockersClear(a)
  PROVE  /\ a.violations = {}
         /\ a.usage # Nothing => a.usage.violated \cup a.usage.notAssessed = {}
<1>1. a.design = "allowed" /\ a.design = DesignStatus(a, SourcesSealed(a))
  BY DEF BlockersClear, Derivable
<1>2. ~DesignViolated(a)
  BY <1>1 DEF DesignStatus, Worst
<1>3. ASSUME a.usage # Nothing
      PROVE  a.usage.violated \cup a.usage.notAssessed = {}
  <2>1. CanonicalUsage(a.usage)
    BY <1>3 DEF AuditOk, Derivable, Agrees
  <2>2. a.usage.status = "allowed"
    BY <1>3 DEF BlockersClear
  <2>3. UsageStatusOf(a.usage) = "allowed"
    BY <2>1, <2>2 DEF CanonicalUsage, SourceStatuses
  <2> QED
    BY <2>3 DEF UsageStatusOf
<1> QED
  BY <1>2, <1>3 DEF DesignViolated

-----------------------------------------------------------------------------
(* Jobs.                                                                   *)

LEMMA Joined ==
  ASSUME NEW x1, NEW x2, NEW x3, NEW x4, NEW x5, NEW x6
  PROVE  /\ <<x1, x2>> \o <<x3>> \o <<x4, x5, x6>> = <<x1, x2, x3, x4, x5, x6>>
         /\ <<x1, x2>> \o <<>> \o <<x4, x5, x6>> = <<x1, x2, x4, x5, x6>>
<1> DEFINE S == {x1, x2, x3, x4, x5, x6}
           a == <<x1, x2>>
           b == <<x3>>
           c == <<x4, x5, x6>>
           full == <<x1, x2, x3, x4, x5, x6>>
           short == <<x1, x2, x4, x5, x6>>
<1>1. /\ a \in Seq(S) /\ Len(a) = 2 /\ a[1] = x1 /\ a[2] = x2
      /\ b \in Seq(S) /\ Len(b) = 1 /\ b[1] = x3
      /\ c \in Seq(S) /\ Len(c) = 3 /\ c[1] = x4 /\ c[2] = x5 /\ c[3] = x6
      /\ <<>> \in Seq(S)
  OBVIOUS
<1>2. /\ full \in Seq(S) /\ Len(full) = 6
      /\ full[1] = x1 /\ full[2] = x2 /\ full[3] = x3
      /\ full[4] = x4 /\ full[5] = x5 /\ full[6] = x6
  OBVIOUS
<1>3. /\ short \in Seq(S) /\ Len(short) = 5
      /\ short[1] = x1 /\ short[2] = x2 /\ short[3] = x4
      /\ short[4] = x5 /\ short[5] = x6
  OBVIOUS
<1> HIDE DEF S, a, b, c, full, short
<1>4. /\ a \o b \in Seq(S) /\ Len(a \o b) = 3
      /\ (a \o b)[1] = x1 /\ (a \o b)[2] = x2 /\ (a \o b)[3] = x3
  <2>1. /\ a \o b \in Seq(S) /\ Len(a \o b) = Len(a) + Len(b)
        /\ \A i \in 1..Len(a) + Len(b) :
             (a \o b)[i] = IF i <= Len(a) THEN a[i] ELSE b[i - Len(a)]
    BY <1>1, ConcatProperties, Zenon
  <2> QED
    BY <1>1, <2>1
<1>5. a \o b \o c = full
  <2>1. /\ (a \o b) \o c \in Seq(S) /\ Len((a \o b) \o c) = 6
        /\ \A i \in 1..6 : ((a \o b) \o c)[i] = IF i <= 3 THEN (a \o b)[i] ELSE c[i - 3]
    <3> DEFINE d == a \o b
    <3>1. d \in Seq(S) /\ Len(d) = 3
      BY <1>4
    <3> HIDE DEF d
    <3>2. /\ d \o c \in Seq(S) /\ Len(d \o c) = Len(d) + Len(c)
          /\ \A i \in 1..Len(d) + Len(c) :
               (d \o c)[i] = IF i <= Len(d) THEN d[i] ELSE c[i - Len(d)]
      BY <1>1, <3>1, ConcatProperties, Zenon
    <3>3. /\ d \o c \in Seq(S) /\ Len(d \o c) = 6
          /\ \A i \in 1..6 : (d \o c)[i] = IF i <= 3 THEN d[i] ELSE c[i - 3]
      BY <1>1, <3>1, <3>2
    <3> QED
      BY <3>3 DEF d
  <2>2. \A i \in 1..6 : ((a \o b) \o c)[i] = full[i]
    BY <1>1, <1>2, <1>4, <2>1
  <2> QED
    BY <1>2, <2>1, <2>2, SeqEqual
<1>6. a \o <<>> = a
  BY <1>1, ConcatEmptySeq
<1>7. a \o c = short
  <2>1. /\ a \o c \in Seq(S) /\ Len(a \o c) = 5
        /\ \A i \in 1..5 : (a \o c)[i] = IF i <= 2 THEN a[i] ELSE c[i - 2]
    <3>1. /\ a \o c \in Seq(S) /\ Len(a \o c) = Len(a) + Len(c)
          /\ \A i \in 1..Len(a) + Len(c) :
               (a \o c)[i] = IF i <= Len(a) THEN a[i] ELSE c[i - Len(a)]
      BY <1>1, ConcatProperties, Zenon
    <3> QED
      BY <1>1, <3>1
  <2>2. \A i \in 1..5 : (a \o c)[i] = short[i]
    BY <1>1, <1>3, <2>1
  <2> QED
    BY <1>3, <2>1, <2>2, SeqEqual
<1> QED
  BY <1>5, <1>6, <1>7 DEF a, b, c, full, short

\* The files of a finalization, one after the other.
LEMMA WritesList ==
  ASSUME NEW a, NEW inputs, NEW m, m = ManifestOf(a, inputs)
  PROVE  Writes(a, inputs) =
           IF inputs.plan # "none"
             THEN <<<<"audit-result", a>>, <<"coverage", CoverageOf(a)>>,
                    <<"build-plan", Plan(a)>>, <<"readable-report", Report(a)>>,
                    <<"run-manifest", m>>, <<"post-run-assessment", PostRun(a, m.exit)>>>>
             ELSE <<<<"audit-result", a>>, <<"coverage", CoverageOf(a)>>,
                    <<"readable-report", Report(a)>>,
                    <<"run-manifest", m>>, <<"post-run-assessment", PostRun(a, m.exit)>>>>
<1>1. \A x1, x2, x3, x4, x5, x6 :
        /\ <<x1, x2>> \o <<x3>> \o <<x4, x5, x6>> = <<x1, x2, x3, x4, x5, x6>>
        /\ <<x1, x2>> \o <<>> \o <<x4, x5, x6>> = <<x1, x2, x4, x5, x6>>
  BY Joined
<1>2. CASE inputs.plan # "none"
  BY <1>1, <1>2 DEF Writes
<1>3. CASE inputs.plan = "none"
  BY <1>1, <1>3 DEF Writes
<1> QED
  BY <1>2, <1>3

\* A list of one file is a job of its own.
LEMMA OneFile ==
  ASSUME NEW k \in Kinds, NEW v, Content(v), NEW fs
  PROVE  LET f == [x \in {k} |-> v] IN Doing(<<<<k, v>>>>, f, fs) /\ f[k] = v /\ DOMAIN f = {k}
<1> DEFINE f == [x \in {k} |-> v]
           list == <<<<k, v>>>>
<1>1. f[k] = v /\ DOMAIN f = {k}
  OBVIOUS
<1>2. list \in Seq({<<x, f[x]>> : x \in DOMAIN f}) /\ Len(list) = 1 /\ list[1] = <<k, v>>
  OBVIOUS
<1> HIDE DEF f, list
<1>3. Doing(list, f, fs)
  <2>1. \A i \in 1..Len(list) : i = 1
    BY <1>2
  <2>2. list[1][1] = k
    BY <1>2
  <2>3. \A i, j \in 1..Len(list) : i < j => Rank(list[i][1]) <= Rank(list[j][1])
    BY <2>1
  <2>4. \A x \in DOMAIN f : (\A i \in 1..Len(list) : list[i][1] # x) => fs[x] = f[x]
    BY <1>1, <1>2, <2>2
  <2> QED
    BY <1>1, <1>2, <2>3, <2>4 DEF Doing
<1> QED
  BY <1>1, <1>3 DEF f, list

LEMMA RankType == \A k : Rank(k) \in 1..3
  BY DEF Rank

\* A finalization sets out on a job it has done nothing of yet.
LEMMA SealBegins ==
  ASSUME NEW inputs, AuditOk(inputs.claim), Acceptable(inputs), NEW fs
  PROVE  \E f : Doing(Writes(SealedFrom(inputs), inputs), f, fs) /\ SealJob(f)
<1>0. PICK a, m : a = SealedFrom(inputs) /\ m = ManifestOf(a, inputs)
  OBVIOUS
<1>1. /\ SealOk(m, pin.available) /\ m.audit = a /\ m.planned = (inputs.plan # "none")
      /\ Readable("analysis-attestation") /\ m.attestation = Attestation
  BY <1>0, SealedIsOk
<1>2. PICK A, C, B, R, X : /\ A = <<"audit-result", a>> /\ C = <<"coverage", CoverageOf(a)>>
                           /\ B = <<"build-plan", Plan(a)>> /\ R = <<"readable-report", Report(a)>>
                           /\ X = <<"post-run-assessment", PostRun(a, m.exit)>>
  OBVIOUS
<1>3. PICK M : M = <<"run-manifest", m>>
  OBVIOUS
<1>4. Writes(a, inputs) = IF inputs.plan # "none" THEN <<A, C, B, R, M, X>>
                          ELSE <<A, C, R, M, X>>
  BY <1>0, <1>2, <1>3, WritesList
<1> DEFINE value(k) == IF k = "audit-result" THEN a ELSE IF k = "coverage" THEN CoverageOf(a)
                       ELSE IF k = "build-plan" THEN Plan(a)
                       ELSE IF k = "readable-report" THEN Report(a)
                       ELSE IF k = "run-manifest" THEN m ELSE PostRun(a, m.exit)
           f == [k \in SealKinds(m) |-> value(k)]
           pairs == {<<k, f[k]>> : k \in DOMAIN f}
<1>5. /\ DOMAIN f = SealKinds(m) /\ f["audit-result"] = a /\ f["coverage"] = CoverageOf(a)
      /\ f["readable-report"] = Report(a) /\ f["run-manifest"] = m
      /\ f["post-run-assessment"] = PostRun(a, m.exit)
      /\ m.planned => f["build-plan"] = Plan(a)
  BY DEF SealKinds
<1>6. \A k \in DOMAIN f : Content(f[k])
  <2>1. IsAudit(a)
    BY <1>1 DEF SealOk, AuditOk
  <2>2. Content(a) /\ Content(m)
    BY <1>1, <2>1, AuditIsContent, ManifestIsContent
  <2>3. \A k \in SealKinds(m) : Content(value(k))
    BY <2>2, OtherContents
  <2> QED
    BY <2>3
<1>7. DOMAIN f \subseteq Kinds
  BY <1>5 DEF SealKinds, Kinds
<1> HIDE DEF f
<1>8. {A, C, R, M, X} \subseteq pairs /\ (m.planned => B \in pairs)
  BY <1>2, <1>3, <1>5 DEF SealKinds
<1> HIDE DEF pairs
<1>9. /\ A[1] = "audit-result" /\ C[1] = "coverage" /\ B[1] = "build-plan"
      /\ R[1] = "readable-report" /\ M[1] = "run-manifest" /\ X[1] = "post-run-assessment"
  BY <1>2, <1>3
<1>10. /\ Rank(A[1]) = 1 /\ Rank(C[1]) = 1 /\ Rank(B[1]) = 1 /\ Rank(R[1]) = 1
       /\ Rank(M[1]) = 2 /\ Rank(X[1]) = 3
  BY <1>9 DEF Rank
<1>11. SealJob(f)
  BY <1>1, <1>5 DEF SealJob
<1>12. CASE inputs.plan # "none"
  <2> DEFINE list == <<A, C, B, R, M, X>>
  <2>0. m.planned
    BY <1>1, <1>12
  <2>1. list \in Seq(pairs) /\ Len(list) = 6
    <3>1. {A, C, B, R, M, X} \subseteq pairs
      BY <1>8, <2>0
    <3> QED
      BY <3>1
  <2>2. /\ list[1] = A /\ list[2] = C /\ list[3] = B /\ list[4] = R
        /\ list[5] = M /\ list[6] = X
    OBVIOUS
  <2> HIDE DEF list
  <2>3. \A i, j \in 1..Len(list) : i < j => Rank(list[i][1]) <= Rank(list[j][1])
    <3>1. SUFFICES ASSUME NEW i \in 1..6, NEW j \in 1..6, i < j
                   PROVE  Rank(list[i][1]) <= Rank(list[j][1])
      BY <2>1
    <3>2. \A k \in 1..6 : Rank(list[k][1]) = IF k = 5 THEN 2 ELSE IF k = 6 THEN 3 ELSE 1
      BY <1>10, <2>2
    <3> QED
      BY <3>1, <3>2
  <2>4. \A k \in DOMAIN f : \E i \in 1..Len(list) : list[i][1] = k
    BY <1>5, <1>9, <2>1, <2>2 DEF SealKinds
  <2>5. Doing(list, f, fs)
    BY <1>6, <1>7, <2>1, <2>3, <2>4 DEF Doing, pairs
  <2> QED
    BY <1>0, <1>4, <1>11, <1>12, <2>5 DEF list
<1>13. CASE inputs.plan = "none"
  <2> DEFINE list == <<A, C, R, M, X>>
  <2>0. ~m.planned
    BY <1>1, <1>13
  <2>1. list \in Seq(pairs) /\ Len(list) = 5
    BY <1>8
  <2>2. list[1] = A /\ list[2] = C /\ list[3] = R /\ list[4] = M /\ list[5] = X
    OBVIOUS
  <2> HIDE DEF list
  <2>3. \A i, j \in 1..Len(list) : i < j => Rank(list[i][1]) <= Rank(list[j][1])
    <3>1. SUFFICES ASSUME NEW i \in 1..5, NEW j \in 1..5, i < j
                   PROVE  Rank(list[i][1]) <= Rank(list[j][1])
      BY <2>1
    <3>2. \A k \in 1..5 : Rank(list[k][1]) = IF k = 4 THEN 2 ELSE IF k = 5 THEN 3 ELSE 1
      BY <1>10, <2>2
    <3> QED
      BY <3>1, <3>2
  <2>4. \A k \in DOMAIN f : \E i \in 1..Len(list) : list[i][1] = k
    <3>1. DOMAIN f = {"audit-result", "coverage", "readable-report", "run-manifest",
                      "post-run-assessment"}
      BY <1>5, <2>0 DEF SealKinds
    <3>2. 1 \in 1..5 /\ 2 \in 1..5 /\ 3 \in 1..5 /\ 4 \in 1..5 /\ 5 \in 1..5
      OBVIOUS
    <3> QED
      BY <1>9, <2>1, <2>2, <3>1, <3>2
  <2>5. Doing(list, f, fs)
    BY <1>6, <1>7, <2>1, <2>3, <2>4 DEF Doing, pairs
  <2> QED
    BY <1>0, <1>4, <1>11, <1>13, <2>5 DEF list
<1> QED
  BY <1>12, <1>13

\* The first file of a list, and what has to be there before it.
LEMMA HeadOfJob ==
  ASSUME NEW list, NEW f, NEW fs, Doing(list, f, fs), list # <<>>
  PROVE  LET k == Head(list)[1] IN
         /\ k \in DOMAIN f /\ k \in Kinds /\ Head(list)[2] = f[k] /\ Content(Head(list)[2])
         /\ \A x \in DOMAIN f : Rank(x) < Rank(k) => fs[x] = f[x]
<1> DEFINE pairs == {<<k, f[k]>> : k \in DOMAIN f}
           head == list[1]
<1>1. list \in Seq(pairs) /\ Len(list) \in Nat \ {0} /\ Head(list) = head
  <2>1. list \in Seq(pairs)
    BY DEF Doing
  <2> QED
    BY <2>1
<1>2. head \in pairs
  BY <1>1
<1>3. head[1] \in DOMAIN f /\ head[2] = f[head[1]]
  BY <1>2
<1>4. \A i \in 1..Len(list) : Rank(head[1]) <= Rank(list[i][1])
  <2>1. \A i \in 1..Len(list) : 1 < i => Rank(head[1]) <= Rank(list[i][1])
    BY <1>1 DEF Doing
  <2>2. Rank(head[1]) <= Rank(head[1])
    BY RankType
  <2> QED
    BY <1>1, <2>1, <2>2
<1>5. ASSUME NEW x \in DOMAIN f, Rank(x) < Rank(head[1])
      PROVE  fs[x] = f[x]
  <2>1. \A i \in 1..Len(list) : list[i][1] # x
    BY <1>4, <1>5, RankType
  <2> QED
    BY <2>1 DEF Doing
<1> QED
  BY <1>1, <1>3, <1>5 DEF Doing

\* Storing the first file takes it off the list.
LEMMA TailOfJob ==
  ASSUME NEW list, NEW f, NEW fs, Doing(list, f, fs), list # <<>>,
         NEW now2, now2[Head(list)[1]] = Head(list)[2],
         \A k \in DOMAIN f : fs[k] = f[k] => now2[k] = f[k]
  PROVE  Doing(Tail(list), f, now2)
<1> DEFINE pairs == {<<k, f[k]>> : k \in DOMAIN f}
           rest == Tail(list)
<1>1. list \in Seq(pairs)
  BY DEF Doing
<1>2. /\ rest \in Seq(pairs) /\ Len(rest) = Len(list) - 1 /\ Len(list) \in Nat \ {0}
      /\ \A i \in 1..Len(rest) : rest[i] = list[i + 1]
      /\ Head(list) = list[1]
  BY <1>1, HeadTailProperties
<1> HIDE DEF rest, pairs
<1>3. \A i, j \in 1..Len(rest) : i < j => Rank(rest[i][1]) <= Rank(rest[j][1])
  <2> SUFFICES ASSUME NEW i \in 1..Len(rest), NEW j \in 1..Len(rest), i < j
               PROVE  Rank(rest[i][1]) <= Rank(rest[j][1])
    OBVIOUS
  <2>1. i + 1 \in 1..Len(list) /\ j + 1 \in 1..Len(list) /\ i + 1 < j + 1
    BY <1>2
  <2>2. Rank(list[i + 1][1]) <= Rank(list[j + 1][1])
    BY <2>1 DEF Doing
  <2> QED
    BY <1>2, <2>2
<1>4. ASSUME NEW k \in DOMAIN f, \A i \in 1..Len(rest) : rest[i][1] # k
      PROVE  now2[k] = f[k]
  <2>1. CASE k = list[1][1]
    BY <1>2, <2>1, HeadOfJob
  <2>2. CASE k # list[1][1]
    <3>1. ASSUME NEW i \in 1..Len(list) PROVE list[i][1] # k
      <4>1. CASE i = 1
        BY <2>2, <4>1
      <4>2. CASE i # 1
        <5>1. i - 1 \in 1..Len(rest) /\ (i - 1) + 1 = i
          BY <1>2, <4>2
        <5> QED
          BY <1>2, <1>4, <5>1
      <4> QED
        BY <4>1, <4>2
    <3> QED
      BY <3>1 DEF Doing
  <2> QED
    BY <2>1, <2>2
<1> QED
  BY <1>2, <1>3, <1>4 DEF Doing, rest, pairs

-----------------------------------------------------------------------------
(* What is readable stays as it is.                                        *)

Keeps == pin' = pin /\ \A k \in Kinds : Readable(k) => files'[k] = files[k]

FileParts ==
  /\ ManifestStands /\ AssessmentStands /\ JudgmentStands
  /\ FilesOk /\ JudgmentRests

LEMMA ReadableStays ==
  ASSUME Keeps, NEW k \in Kinds, Readable(k)
  PROVE  Readable(k)' /\ files'[k] = files[k]
  BY DEF Keeps, Readable

LEMMA ReadableContent ==
  ASSUME NEW k PROVE Readable(k) <=> Content(files[k])
  BY DEF Readable, Content

LEMMA DoingKeeps ==
  ASSUME Keeps, NEW list, NEW f, Doing(list, f, files)
  PROVE  Doing(list, f, files')
<1>1. ASSUME NEW k \in DOMAIN f, files[k] = f[k] PROVE files'[k] = f[k]
  <2>1. k \in Kinds /\ Content(f[k])
    BY DEF Doing
  <2> QED
    BY <1>1, <2>1, ReadableContent, ReadableStays
<1> QED
  BY <1>1 DEF Doing

LEMMA SealJobKeeps ==
  ASSUME Keeps, NEW f, SealJob(f)
  PROVE  SealJob(f)'
<1>1. /\ Readable("analysis-attestation")' /\ Attestation' = Attestation
      /\ pin' = pin
  BY ReadableStays DEF SealJob, Kinds, Attestation, Keeps
<1> QED
  BY <1>1 DEF SealJob

LEMMA JudgeJobKeeps ==
  ASSUME Keeps, NEW f, JudgeJob(f)
  PROVE  JudgeJob(f)'
<1>1. /\ Readable("analysis-attestation")' /\ Attestation' = Attestation
      /\ Readable("audit-result")' /\ SealedAudit' = SealedAudit
      /\ Readable("run-manifest")'
  BY ReadableStays DEF JudgeJob, Kinds, Attestation, SealedAudit
<1> QED
  BY <1>1 DEF JudgeJob

LEMMA WorkingKeeps ==
  ASSUME Keeps, NEW p \in Procs, Working(p), todo'[p] = todo[p]
  PROVE  Working(p)'
<1>1. PICK f : Doing(todo[p], f, files) /\ (AttestJob(f) \/ SealJob(f) \/ JudgeJob(f))
  BY DEF Working
<1>2. Doing(todo'[p], f, files')
  BY <1>1, DoingKeeps
<1>3. AttestJob(f)' \/ SealJob(f)' \/ JudgeJob(f)'
  BY <1>1, SealJobKeeps, JudgeJobKeeps DEF AttestJob
<1> QED
  BY <1>2, <1>3 DEF Working

LEMMA ManifestKept ==
  ASSUME ManifestStands, FilesOk, Keeps, Readable("run-manifest")' => Readable("run-manifest")
  PROVE  /\ ManifestStands'
         /\ Readable("run-manifest")' => SealOk(Manifest, pin.available)'
<1> SUFFICES ASSUME Readable("run-manifest")'
             PROVE  ManifestStands' /\ SealOk(Manifest, pin.available)'
  BY DEF ManifestStands
<1>1. Readable("run-manifest") /\ Manifest' = Manifest /\ pin' = pin
  BY ReadableStays DEF Kinds, Manifest, Keeps
<1>2. SealOk(Manifest, pin.available)'
  BY <1>1 DEF FilesOk
<1>3. Content(Manifest.audit)
  BY <1>1, AuditIsContent DEF FilesOk, SealOk, AuditOk
<1>4. Readable("audit-result") /\ Readable("coverage") /\ Readable("readable-report")
      /\ Readable("analysis-attestation")
      /\ (Manifest.planned => Readable("build-plan"))
  BY <1>1, <1>3, OtherContents, ReadableContent DEF ManifestStands, SealedAudit
<1>5. /\ Readable("analysis-attestation")' /\ Attestation' = Attestation
      /\ SealedAudit' = SealedAudit /\ files'["coverage"] = files["coverage"]
      /\ files'["readable-report"] = files["readable-report"]
      /\ Manifest.planned => files'["build-plan"] = files["build-plan"]
  BY <1>4, ReadableStays DEF Kinds, Attestation, SealedAudit
<1>6. ManifestStands'
  BY <1>1, <1>5 DEF ManifestStands
<1> QED
  BY <1>2, <1>6

LEMMA AttestationKept ==
  ASSUME FilesOk, Keeps, Readable("analysis-attestation")' => Readable("analysis-attestation")
  PROVE  Readable("analysis-attestation")' => AttestationOk(Attestation)'
  BY ReadableStays DEF FilesOk, Kinds, Attestation

LEMMA AssessmentKept ==
  ASSUME AssessmentStands, Keeps,
         Readable("post-run-assessment")' => Readable("post-run-assessment")
  PROVE  AssessmentStands'
<1> SUFFICES ASSUME Readable("post-run-assessment")' PROVE AssessmentStands'
  BY DEF AssessmentStands
<1>1. Readable("post-run-assessment") /\ Readable("run-manifest")
  BY DEF AssessmentStands
<1>2. /\ files'["post-run-assessment"] = files["post-run-assessment"]
      /\ Readable("run-manifest")' /\ Manifest' = Manifest
  BY <1>1, ReadableStays DEF Kinds, Manifest
<1> QED
  BY <1>1, <1>2 DEF AssessmentStands

LEMMA JudgmentKept ==
  ASSUME JudgmentStands, JudgmentRests, Keeps,
         Readable("judgment-assessment")' => Readable("judgment-assessment")
  PROVE  JudgmentStands' /\ JudgmentRests'
<1> SUFFICES ASSUME Readable("judgment-assessment")' PROVE JudgmentStands' /\ JudgmentRests'
  BY DEF JudgmentStands, JudgmentRests
<1>1. /\ Readable("judgment-assessment") /\ Readable("run-manifest")
      /\ Readable("audit-result") /\ Readable("analysis-attestation")
  BY DEF JudgmentStands, JudgmentRests
<1>2. /\ files'["judgment-assessment"] = files["judgment-assessment"]
      /\ Readable("run-manifest")' /\ Readable("audit-result")'
      /\ Readable("analysis-attestation")'
      /\ SealedAudit' = SealedAudit /\ Attestation' = Attestation
  BY <1>1, ReadableStays DEF Kinds, SealedAudit, Attestation
<1> QED
  BY <1>1, <1>2 DEF JudgmentStands, JudgmentRests

LEMMA PartsKept ==
  ASSUME FileParts, Keeps, \A k \in Kinds : Readable(k)' => Readable(k)
  PROVE  FileParts'
<1>1. \A k \in {"analysis-attestation", "run-manifest", "post-run-assessment",
                "judgment-assessment"} : Readable(k)' => Readable(k)
  BY DEF Kinds
<1> QED
  BY <1>1, ManifestKept, AttestationKept, AssessmentKept, JudgmentKept DEF FileParts, FilesOk

-----------------------------------------------------------------------------
(* Types and what a step of one process leaves alone.                      *)

Phases == {"idle", "scanning", "staging", "analyzing", "checking", "writing", "filling"}

\* Only process p moves.
OthersStay(p) ==
  /\ pc' = [pc EXCEPT ![p] = pc'[p]]
  /\ ctx' = [ctx EXCEPT ![p] = ctx'[p]]
  /\ todo' = [todo EXCEPT ![p] = todo'[p]]

LEMMA OthersAreSame ==
  ASSUME TypeOK, Shapes, NEW p \in Procs, OthersStay(p), pc'[p] \in Phases
  PROVE  /\ \A q \in Procs \ {p} : pc'[q] = pc[q] /\ ctx'[q] = ctx[q] /\ todo'[q] = todo[q]
         /\ pc' \in [Procs -> Phases]
         /\ ctx' = [q \in Procs |-> ctx'[q]] /\ todo' = [q \in Procs |-> todo'[q]]
<1>1. pc \in [Procs -> Phases]
  BY DEF TypeOK, Phases
<1>2. DOMAIN ctx = Procs /\ DOMAIN todo = Procs
  BY DEF Shapes
<1>3. PICK x, y, z : x = pc'[p] /\ y = ctx'[p] /\ z = todo'[p]
  OBVIOUS
<1>4. pc' = [pc EXCEPT ![p] = x] /\ ctx' = [ctx EXCEPT ![p] = y] /\ todo' = [todo EXCEPT ![p] = z]
  BY <1>3 DEF OthersStay
<1>5. pc' \in [Procs -> Phases]
  BY <1>1, <1>3, <1>4
<1>6. ctx' = [q \in Procs |-> ctx'[q]] /\ todo' = [q \in Procs |-> todo'[q]]
  BY <1>2, <1>4
<1> QED
  BY <1>1, <1>2, <1>4, <1>5, <1>6

LEMMA Goes ==
  ASSUME TypeOK, Shapes, NEW p \in Procs, NEW phase \in Phases, NEW inputs, NEW writes,
         Go(p, phase, inputs, writes)
  PROVE  /\ OthersStay(p) /\ pc'[p] = phase /\ ctx'[p] = inputs /\ todo'[p] = writes
<1>1. pc \in [Procs -> Phases] /\ ctx = [q \in Procs |-> ctx[q]]
      /\ todo = [q \in Procs |-> todo[q]]
  BY DEF TypeOK, Phases, Shapes
<1> QED
  BY <1>1 DEF Go, OthersStay

LEMMA Ends ==
  ASSUME TypeOK, Shapes, NEW p \in Procs, End(p)
  PROVE  OthersStay(p) /\ pc'[p] = "idle"
<1>1. "idle" \in Phases
  BY DEF Phases
<1> QED
  BY <1>1, Goes DEF End

\* What every step of a process is shown to do.
StepOf(p) ==
  /\ OthersStay(p) /\ pc'[p] \in Phases
  /\ run' = run /\ files' = [k \in Kinds |-> files'[k]]
  /\ Keeps
  /\ \A k \in Kinds : (\E q \in Procs \ {p} : pc[q] = "filling" /\ Kind(q) = k)
                        => files'[k] = files[k]
  /\ ProcInv(p)'
  /\ pc'[p] = "filling" =>
       \A q \in Procs \ {p} : pc[q] = "filling" => Kind(q) # Kind(p)'
  /\ \A a \in emitted' : AuditOk(a)

\* Such a step preserves the invariant if it preserves what the files mean.
LEMMA StepPreserves ==
  ASSUME RunIInv, NEW p \in Procs, StepOf(p), FileParts'
  PROVE  RunIInv'
<1>1. TypeOK /\ Shapes
  BY DEF RunIInv, RunInv
<1>2. /\ \A q \in Procs \ {p} : pc'[q] = pc[q] /\ ctx'[q] = ctx[q] /\ todo'[q] = todo[q]
      /\ pc' \in [Procs -> Phases]
      /\ ctx' = [q \in Procs |-> ctx'[q]] /\ todo' = [q \in Procs |-> todo'[q]]
  BY <1>1, OthersAreSame DEF StepOf
<1>3. Keeps /\ files' = [k \in Kinds |-> files'[k]]
  BY DEF StepOf
<1>4. TypeOK' /\ Shapes'
  <2>1. /\ pin' = pin /\ authorized' = authorized /\ now' = now /\ tree' = tree
        /\ bound' = bound
    BY DEF StepOf, run
  <2>2. DOMAIN files' = Kinds
    BY <1>3
  <2> QED
    BY <1>1, <1>2, <1>3, <2>1, <2>2 DEF TypeOK, Shapes, Phases
<1>5. ASSUME NEW q \in Procs, q # p PROVE ProcInv(q)'
  <2>1. ProcInv(q)
    BY DEF RunIInv
  <2>2. pc'[q] = pc[q] /\ ctx'[q] = ctx[q] /\ todo'[q] = todo[q]
    BY <1>2, <1>5
  <2>3. Working(q) => Working(q)'
    BY <1>3, <2>2, WorkingKeeps
  <2>4. ASSUME pc[q] = "filling" PROVE files'[Kind(q)] = Torn
    <3>1. Kind(q) \in Kinds
      <4>1. PICK f : Doing(todo[q], f, files)
        BY <2>1, <2>4 DEF ProcInv, Working
      <4> QED
        BY <2>1, <2>4, <4>1, HeadOfJob DEF ProcInv, Kind
    <3> QED
      BY <1>5, <2>1, <2>4, <3>1 DEF StepOf, ProcInv
  <2> QED
    BY <2>1, <2>2, <2>3, <2>4 DEF ProcInv, Kind
<1>6. \A q \in Procs : ProcInv(q)'
  BY <1>5 DEF StepOf
<1>7. FillersApart'
  <2> SUFFICES ASSUME NEW q \in Procs, NEW r \in Procs, pc'[q] = "filling",
                      pc'[r] = "filling", q # r
               PROVE  Kind(q)' # Kind(r)'
    BY DEF FillersApart
  <2>1. CASE q # p /\ r # p
    BY <1>2, <2>1 DEF RunIInv, FillersApart, Kind
  <2>2. CASE q = p
    BY <1>2, <2>2 DEF StepOf, Kind
  <2>3. CASE r = p
    BY <1>2, <2>3 DEF StepOf, Kind
  <2> QED
    BY <2>1, <2>2, <2>3
<1> QED
  BY <1>4, <1>6, <1>7 DEF RunIInv, RunInv, FileParts, StepOf

LEMMA PartsHold == ASSUME RunIInv PROVE FileParts /\ TypeOK /\ Shapes
  BY DEF RunIInv, RunInv, FileParts

\* A step of p that stores nothing and does not begin to fill a file.
LEMMA QuietStep ==
  ASSUME RunIInv, NEW p \in Procs, OthersStay(p), pc'[p] \in Phases \ {"filling"},
         UNCHANGED <<run, files>>, ProcInv(p)', \A a \in emitted' : AuditOk(a)
  PROVE  RunIInv'
<1>1. /\ pin' = pin /\ files' = files
  BY DEF run
<1>2. Keeps /\ \A k \in Kinds : Readable(k)' => Readable(k)
  BY <1>1 DEF Keeps, Readable
<1>3. files' = [k \in Kinds |-> files'[k]]
  BY <1>1, PartsHold DEF Shapes
<1>4. StepOf(p)
  BY <1>1, <1>2, <1>3 DEF StepOf
<1>5. FileParts'
  BY <1>2, PartsHold, PartsKept
<1> QED
  BY <1>4, <1>5, StepPreserves

-----------------------------------------------------------------------------
(* The steps that store nothing.                                           *)

LEMMA InitHolds == ASSUME Init PROVE RunIInv
<1>1. \A k \in Kinds : ~Readable(k)
  BY DEF Init, Readable
<1>2. TypeOK
  BY LifecycleAssumption DEF Init, TypeOK
<1>3. FileParts
  BY <1>1 DEF FileParts, ManifestStands, AssessmentStands, JudgmentStands, FilesOk,
              JudgmentRests, Kinds
<1>4. Shapes
  BY DEF Init, Shapes
<1>5. \A p \in Procs : pc[p] = "idle"
  BY DEF Init
<1>6. (\A p \in Procs : ProcInv(p)) /\ FillersApart
  BY <1>5 DEF ProcInv, FillersApart
<1> QED
  BY <1>2, <1>3, <1>4, <1>6 DEF RunIInv, RunInv, FileParts, Init

\* A process that goes on to a phase in which it stores nothing.
LEMMA GoesOn ==
  ASSUME RunIInv, NEW p \in Procs, NEW phase \in Phases \ {"writing", "filling"},
         NEW inputs, NEW writes, Go(p, phase, inputs, writes),
         phase = "checking" => AuditOk(inputs.claim),
         UNCHANGED <<run, files>>, \A a \in emitted' : AuditOk(a)
  PROVE  RunIInv'
<1>1. phase \in Phases \ {"filling"}
  BY DEF Phases
<1>2. OthersStay(p) /\ pc'[p] = phase /\ ctx'[p] = inputs
  BY <1>1, Goes, PartsHold
<1>3. ProcInv(p)'
  BY <1>2 DEF ProcInv
<1> QED
  BY <1>1, <1>2, <1>3, QuietStep

LEMMA EndsHere ==
  ASSUME RunIInv, NEW p \in Procs, End(p), UNCHANGED <<run, files>>,
         \A a \in emitted' : AuditOk(a)
  PROVE  RunIInv'
  BY GoesOn DEF End, Phases

\* A process that sets out on a job.
LEMMA GoesWriting ==
  ASSUME RunIInv, NEW p \in Procs, NEW inputs, NEW list, Go(p, "writing", inputs, list),
         inputs.emit = Nothing \/ AuditOk(inputs.emit),
         NEW f, Doing(list, f, files), AttestJob(f) \/ SealJob(f) \/ JudgeJob(f),
         UNCHANGED <<run, files, emitted>>
  PROVE  RunIInv'
<1>1. "writing" \in Phases \ {"filling"}
  BY DEF Phases
<1>2. OthersStay(p) /\ pc'[p] = "writing" /\ ctx'[p] = inputs /\ todo'[p] = list
  BY <1>1, Goes, PartsHold
<1>3. Keeps
  BY DEF Keeps, run
<1>4. Doing(todo'[p], f, files')
  BY <1>2, <1>3, DoingKeeps
<1>5. AttestJob(f)' \/ SealJob(f)' \/ JudgeJob(f)'
  BY <1>3, SealJobKeeps, JudgeJobKeeps DEF AttestJob
<1>6. ProcInv(p)'
  BY <1>2, <1>4, <1>5 DEF ProcInv, Working
<1>7. \A a \in emitted' : AuditOk(a)
  BY DEF RunIInv
<1> QED
  BY <1>1, <1>2, <1>6, <1>7, QuietStep

LEMMA EvaluateStep ==
  ASSUME RunIInv, NEW p \in Procs, NEW runner, NEW inputs, Evaluate(p, runner, inputs),
         runner.evidence.usage # Nothing => IsUsage(runner.evidence.usage),
         UNCHANGED <<run, files, emitted>>
  PROVE  RunIInv'
<1>1. PICK a : a = Evaluated(runner, pin.personal, inputs.requests, State, UxLane(inputs.ux))
  OBVIOUS
<1>2. PICK t : t = AttestationOf(a, inputs.ux)
  OBVIOUS
<1>3. PICK list : list = <<<<"analysis-attestation", t>>>>
  OBVIOUS
<1>4. \/ Go(p, "writing", [emit |-> a], list)
      \/ End(p)
  BY <1>1, <1>2, <1>3 DEF Evaluate
<1>5. CASE End(p)
  BY <1>5, EndsHere DEF RunIInv
<1>6. CASE Go(p, "writing", [emit |-> a], list)
  <2>1. AuditOk(a) /\ AuditOk(V1(a))
    BY <1>1, EvaluatedOk, V1Ok
  <2>2. t = [runner |-> t.runner, ux |-> t.ux, v1 |-> t.v1] /\ t.v1 = V1(a)
    BY <1>2 DEF AttestationOf
  <2>3. AttestationOk(t)
    BY <2>1, <2>2 DEF AttestationOk
  <2>4. Content(t) /\ "analysis-attestation" \in Kinds
    BY <2>3, AttestationIsContent DEF Kinds
  <2>5. PICK f : f = [x \in {"analysis-attestation"} |-> t]
    OBVIOUS
  <2>6. Doing(list, f, files) /\ f["analysis-attestation"] = t
        /\ DOMAIN f = {"analysis-attestation"}
    BY <1>3, <2>4, <2>5, OneFile
  <2>7. AttestJob(f)
    BY <2>3, <2>6 DEF AttestJob
  <2>8. PICK inputs2 : inputs2 = [emit |-> a]
    OBVIOUS
  <2>9. AuditOk(inputs2.emit)
    BY <2>1, <2>8
  <2> QED
    BY <1>6, <2>6, <2>7, <2>8, <2>9, GoesWriting
<1> QED
  BY <1>4, <1>5, <1>6

LEMMA AuditStep ==
  ASSUME RunIInv, NEW p \in Procs, Audit(p)
  PROVE  RunIInv'
<1>0. \A a \in emitted : AuditOk(a)
  BY DEF RunIInv
<1>1. PICK requests \in RequestSets, ux \in UxInputs :
        \/ AuditFlutter(p, requests, ux)
        \/ \E o \in Observations : AuditFigma(p, requests, ux, o)
  BY DEF Audit
<1>2. CASE AuditFlutter(p, requests, ux)
  <2>1. PICK inputs : /\ Go(p, "scanning", inputs, <<>>)
    BY <1>2 DEF AuditFlutter
  <2> QED
    BY <1>0, <1>2, <2>1, GoesOn DEF AuditFlutter, Phases
<1>3. CASE \E o \in Observations : AuditFigma(p, requests, ux, o)
  <2>1. PICK o \in Observations : AuditFigma(p, requests, ux, o)
    BY <1>3
  <2>2. PICK runner, inputs : runner = FigmaRunner(o)
                              /\ inputs = [requests |-> requests, ux |-> ux]
    OBVIOUS
  <2>3. Evaluate(p, runner, inputs)
    BY <2>1, <2>2 DEF AuditFigma
  <2>4. runner.evidence.usage = Nothing
    BY <2>2, EvidenceType DEF FigmaRunner
  <2> QED
    BY <2>1, <2>3, <2>4, EvaluateStep DEF AuditFigma
<1> QED
  BY <1>1, <1>2, <1>3

LEMMA ScanStep ==
  ASSUME RunIInv, NEW p \in Procs, Scan(p)
  PROVE  RunIInv'
<1>1. PICK inputs : Go(p, "staging", inputs, <<>>)
  BY DEF Scan
<1> QED
  BY <1>1, GoesOn DEF Scan, RunIInv, Phases

LEMMA StageStep ==
  ASSUME RunIInv, NEW p \in Procs, Stage(p)
  PROVE  RunIInv'
<1>1. PICK inputs : Go(p, "analyzing", inputs, <<>>)
  BY DEF Stage
<1> QED
  BY <1>1, GoesOn DEF Stage, RunIInv, Phases

LEMMA AnalyzeStep ==
  ASSUME RunIInv, NEW p \in Procs, Analyze(p)
  PROVE  RunIInv'
<1>1. PICK runner, inputs : runner = Runner(ctx[p]) /\ inputs = ctx[p]
  OBVIOUS
<1>2. Evaluate(p, runner, inputs) \/ End(p)
  BY <1>1 DEF Analyze
<1>3. runner.evidence.usage # Nothing => IsUsage(runner.evidence.usage)
  BY <1>1, EvidenceType DEF Runner
<1>4. CASE End(p)
  BY <1>4, EndsHere DEF Analyze, RunIInv
<1>5. CASE Evaluate(p, runner, inputs)
  BY <1>3, <1>5, EvaluateStep DEF Analyze
<1> QED
  BY <1>2, <1>4, <1>5

LEMMA ClaimsAreOk ==
  ASSUME RunIInv, NEW claim \in Claims
  PROVE  AuditOk(claim)
<1>1. \A a \in emitted : AuditOk(a)
  BY DEF RunIInv
<1>2. CASE claim \in emitted
  BY <1>1, <1>2
<1>3. CASE claim \in {V1(a) : a \in emitted}
  BY <1>1, <1>3, V1Ok
<1>4. CASE claim \in {Evaluated(a.runner, pin.personal, requests, State, a.ux) :
                        a \in emitted, requests \in RequestSets}
  <2>1. PICK a \in emitted, requests \in RequestSets :
          claim = Evaluated(a.runner, pin.personal, requests, State, a.ux)
    BY <1>4
  <2>2. a.runner.evidence.usage # Nothing => IsUsage(a.runner.evidence.usage)
    BY <1>1 DEF AuditOk
  <2> QED
    BY <2>1, <2>2, EvaluatedOk
<1> QED
  BY <1>2, <1>3, <1>4 DEF Claims

LEMMA FinalizeStep ==
  ASSUME RunIInv, NEW p \in Procs, NEW claim \in Claims, NEW plan \in Plans,
         Finalize(p, claim, plan)
  PROVE  RunIInv'
<1>1. PICK completed :
        Go(p, "checking", [claim |-> claim, plan |-> plan, completed |-> completed], <<>>)
  BY DEF Finalize
<1>2. PICK inputs : inputs = [claim |-> claim, plan |-> plan, completed |-> completed]
  OBVIOUS
<1>3. AuditOk(inputs.claim)
  BY <1>2, ClaimsAreOk
<1> QED
  BY <1>1, <1>2, <1>3, GoesOn DEF Finalize, RunIInv, Phases

LEMMA CheckStep ==
  ASSUME RunIInv, NEW p \in Procs, Check(p)
  PROVE  RunIInv'
<1>1. CASE End(p)
  BY <1>1, EndsHere DEF Check, RunIInv
<1>2. CASE ~End(p)
  <2>1. PICK inputs : inputs = ctx[p]
    OBVIOUS
  <2>2. Acceptable(inputs) /\ AuditOk(inputs.claim)
    BY <1>2, <2>1 DEF Check, RunIInv, ProcInv
  <2>3. PICK list : list = Writes(SealedFrom(inputs), inputs)
    OBVIOUS
  <2>4. PICK f : Doing(list, f, files) /\ SealJob(f)
    BY <2>2, <2>3, SealBegins
  <2>5. PICK inputs2 : inputs2 = [emit |-> Nothing]
    OBVIOUS
  <2>6. Go(p, "writing", inputs2, list)
    BY <1>2, <2>1, <2>3, <2>5 DEF Check
  <2>7. inputs2.emit = Nothing
    BY <2>5
  <2> QED
    BY <2>4, <2>6, <2>7, GoesWriting DEF Check
<1> QED
  BY <1>1, <1>2

LEMMA JudgeStep ==
  ASSUME RunIInv, NEW p \in Procs, NEW candidates, Judge(p, candidates)
  PROVE  RunIInv'
<1>1. PICK s : s = AssessmentOf(candidates)
  OBVIOUS
<1>2. PICK list, inputs : list = <<<<"judgment-assessment", s>>>> /\ inputs = [emit |-> Nothing]
  OBVIOUS
<1>3. Go(p, "writing", inputs, list) /\ inputs.emit = Nothing
  BY <1>1, <1>2 DEF Judge
<1>4. Reopened /\ Decidable(s)
  BY <1>1 DEF Judge
<1>5. /\ Readable("analysis-attestation") /\ Readable("audit-result")
      /\ Readable("run-manifest") /\ V1(SealedAudit) = Attestation.v1
      /\ Derivable(SealedAudit)
  BY <1>4 DEF Reopened, AttestationHolds
<1>6. AuditOk(SealedAudit)
  BY <1>5 DEF RunIInv, RunInv, ManifestStands, FilesOk, SealOk
<1>7. BlockersClear(SealedAudit)
  BY <1>1, <1>4 DEF Decidable, AssessmentOf, Assessment
<1>8. /\ SealedAudit.violations = {}
      /\ SealedAudit.usage # Nothing =>
           SealedAudit.usage.violated \cup SealedAudit.usage.notAssessed = {}
  <2>1. PICK a : a = SealedAudit
    OBVIOUS
  <2> QED
    BY <1>5, <1>6, <1>7, <2>1, ClearIsClean
<1>9. Content(s) /\ "judgment-assessment" \in Kinds
  BY <1>1, AssessmentIsContent DEF AssessmentOf, Kinds
<1>10. PICK f : f = [x \in {"judgment-assessment"} |-> s]
  OBVIOUS
<1>11. Doing(list, f, files) /\ f["judgment-assessment"] = s
       /\ DOMAIN f = {"judgment-assessment"}
  BY <1>2, <1>9, <1>10, OneFile
<1>12. JudgeJob(f)
  BY <1>4, <1>5, <1>8, <1>11 DEF JudgeJob
<1> QED
  BY <1>3, <1>11, <1>12, GoesWriting DEF Judge

LEMMA DoneStep ==
  ASSUME RunIInv, NEW p \in Procs, Done(p)
  PROVE  RunIInv'
<1>1. ProcInv(p) /\ \A a \in emitted : AuditOk(a)
  BY DEF RunIInv
<1>2. ctx[p].emit = Nothing \/ AuditOk(ctx[p].emit)
  BY <1>1 DEF Done, ProcInv
<1>3. \A a \in emitted' : AuditOk(a)
  BY <1>1, <1>2 DEF Done
<1> QED
  BY <1>3, EndsHere DEF Done

LEMMA CrashStep ==
  ASSUME RunIInv, NEW p \in Procs, Crash(p)
  PROVE  RunIInv'
  BY EndsHere DEF Crash, RunIInv

\* The surroundings: no process moves and no file changes.
LEMMA Surroundings ==
  ASSUME RunIInv, UNCHANGED <<pin, files, emitted, procs>>, TypeOK'
  PROVE  RunIInv'
<1>1. Keeps /\ \A k \in Kinds : Readable(k)' => Readable(k)
  BY DEF Keeps, Readable
<1>2. FileParts'
  BY <1>1, PartsHold, PartsKept
<1>3. Shapes' /\ FillersApart'
  BY PartsHold DEF Shapes, FillersApart, Kind, procs, RunIInv
<1>4. ASSUME NEW p \in Procs PROVE ProcInv(p)'
  <2>1. ProcInv(p) /\ (Working(p) => Working(p)')
    BY <1>1, WorkingKeeps DEF RunIInv, procs
  <2> QED
    BY <2>1 DEF ProcInv, Kind, procs
<1> QED
  BY <1>2, <1>3, <1>4 DEF RunIInv, RunInv, FileParts

LEMMA SurroundingSteps ==
  ASSUME RunIInv, Tick \/ (\E t \in TreeNames : Edit(t)) \/ Rebind \/ Authorize
  PROVE  RunIInv'
<1>0. TypeOK
  BY DEF RunIInv, RunInv
<1>1. UNCHANGED <<pin, files, emitted, procs>>
  BY DEF Tick, Edit, Rebind, Authorize
<1>2. pin' \in Pins /\ DOMAIN files' = Kinds /\ pc' = pc
  BY <1>0, <1>1 DEF TypeOK, procs
<1>3. /\ authorized' \in BOOLEAN /\ tree' \in TreeNames /\ bound' \in BOOLEAN
  BY <1>0 DEF Tick, Edit, Rebind, Authorize, TypeOK
<1>4. now' \in pin'.age..(pin'.age + MaxTicks)
  <2>1. pin' = pin /\ pin.age \in Nat /\ MaxTicks \in Nat
        /\ now \in pin.age..(pin.age + MaxTicks)
    BY <1>0, <1>1, LifecycleAssumption DEF TypeOK
  <2>2. now' = now \/ (now < pin.age + MaxTicks /\ now' = now + 1)
    BY DEF Tick, Edit, Rebind, Authorize
  <2>3. CASE now' = now
    BY <2>1, <2>3
  <2>4. CASE now < pin.age + MaxTicks /\ now' = now + 1
    BY <2>1, <2>4
  <2> QED
    BY <2>2, <2>3, <2>4
<1>5. TypeOK'
  BY <1>0, <1>2, <1>3, <1>4 DEF TypeOK
<1> QED
  BY <1>1, <1>5, Surroundings

-----------------------------------------------------------------------------
(* The steps that store.                                                   *)

\* What a process that has something to write is about to do.
LEMMA NextFile ==
  ASSUME RunIInv, NEW p \in Procs, pc[p] \in {"writing", "filling"}, todo[p] # <<>>
  PROVE  \E f : /\ Doing(todo[p], f, files)
                /\ AttestJob(f) \/ SealJob(f) \/ JudgeJob(f)
                /\ Kind(p) \in DOMAIN f /\ Kind(p) \in Kinds /\ Payload(p) = f[Kind(p)]
                /\ Content(Payload(p))
                /\ \A x \in DOMAIN f : Rank(x) < Rank(Kind(p)) => files[x] = f[x]
<1>1. Working(p)
  BY DEF RunIInv, ProcInv
<1>2. PICK f : Doing(todo[p], f, files) /\ (AttestJob(f) \/ SealJob(f) \/ JudgeJob(f))
  BY <1>1 DEF Working
<1> QED
  BY <1>2, HeadOfJob DEF Kind, Payload

\* Another file that is being filled is another file.
LEMMA FilledByOne ==
  ASSUME RunIInv, NEW p \in Procs, NEW q \in Procs \ {p}, pc[q] = "filling"
  PROVE  /\ files[Kind(q)] = Torn /\ Kind(q) \in Kinds
         /\ pc[p] = "filling" => Kind(p) # Kind(q)
<1>1. ProcInv(q) /\ FillersApart
  BY DEF RunIInv
<1>2. Kind(q) \in Kinds
  BY <1>1, NextFile DEF ProcInv
<1> QED
  BY <1>1, <1>2 DEF ProcInv, FillersApart

LEMMA CreateStep ==
  ASSUME RunIInv, NEW p \in Procs, Create(p)
  PROVE  RunIInv'
<1>0. \A a \in emitted' : AuditOk(a)
  BY DEF RunIInv, Create
<1>1. pc[p] = "writing" /\ todo[p] # <<>> /\ run' = run /\ TypeOK /\ Shapes
  BY PartsHold DEF Create
<1>2. PICK f : /\ Doing(todo[p], f, files)
               /\ AttestJob(f) \/ SealJob(f) \/ JudgeJob(f)
               /\ Kind(p) \in DOMAIN f /\ Kind(p) \in Kinds /\ Payload(p) = f[Kind(p)]
               /\ Content(Payload(p))
  BY <1>1, NextFile
<1>3. ctx[p].emit = Nothing \/ AuditOk(ctx[p].emit)
  BY <1>1 DEF RunIInv, ProcInv
<1>4. CASE Differs(p)
  <2>1. End(p) /\ files' = files
    BY <1>4 DEF Create
  <2> QED
    BY <1>0, <1>1, <2>1, EndsHere
<1>5. CASE ~Differs(p) /\ files[Kind(p)] = Absent
  <2>1. /\ files' = [files EXCEPT ![Kind(p)] = Torn]
        /\ pc' = [pc EXCEPT ![p] = "filling"] /\ ctx' = ctx /\ todo' = todo
    BY <1>5 DEF Create
  <2>2. OthersStay(p) /\ pc'[p] = "filling" /\ "filling" \in Phases
    BY <1>1, <2>1 DEF OthersStay, TypeOK, Shapes, Phases
  <2>3. /\ files' = [k \in Kinds |-> files'[k]] /\ files'[Kind(p)] = Torn
        /\ \A k \in Kinds \ {Kind(p)} : files'[k] = files[k]
    BY <1>1, <1>2, <2>1 DEF Shapes
  <2>4. Keeps /\ \A k \in Kinds : Readable(k)' => Readable(k)
    BY <1>1, <1>5, <2>3 DEF Keeps, Readable, run
  <2>5. \A q \in Procs \ {p} : pc[q] = "filling" => Kind(q) # Kind(p)
    BY <1>5, FilledByOne, Marks
  <2>6. Working(p)'
    BY <2>1, <2>4, <1>2, WorkingKeeps DEF Working
  <2>7. ProcInv(p)'
    BY <1>1, <1>3, <2>1, <2>2, <2>3, <2>6 DEF ProcInv, Kind
  <2>8. StepOf(p)
    BY <1>0, <1>1, <2>1, <2>2, <2>3, <2>4, <2>5, <2>7 DEF StepOf, Kind
  <2>9. FileParts'
    BY <2>4, PartsHold, PartsKept
  <2> QED
    BY <2>8, <2>9, StepPreserves
<1>6. CASE ~Differs(p) /\ files[Kind(p)] # Absent
  <2>1. /\ pc' = [pc EXCEPT ![p] = "writing"] /\ todo' = [todo EXCEPT ![p] = Tail(@)]
        /\ ctx' = ctx /\ files' = files /\ files[Kind(p)] = Payload(p)
    BY <1>6 DEF Create, Written, Differs
  <2>2. /\ OthersStay(p) /\ pc'[p] = "writing" /\ "writing" \in Phases \ {"filling"}
        /\ todo'[p] = Tail(todo[p])
    BY <1>1, <2>1 DEF OthersStay, TypeOK, Shapes, Phases
  <2>3. Doing(todo'[p], f, files')
    BY <1>1, <1>2, <2>1, <2>2, TailOfJob DEF Kind, Payload
  <2>4. Keeps
    BY <1>1, <2>1 DEF Keeps, run
  <2>5. AttestJob(f)' \/ SealJob(f)' \/ JudgeJob(f)'
    BY <1>2, <2>4, SealJobKeeps, JudgeJobKeeps DEF AttestJob
  <2>6. ProcInv(p)'
    BY <1>3, <2>1, <2>2, <2>3, <2>5 DEF ProcInv, Working
  <2> QED
    BY <1>0, <1>1, <2>1, <2>2, <2>6, QuietStep
<1> QED
  BY <1>4, <1>5, <1>6

LEMMA FillFailsStep ==
  ASSUME RunIInv, NEW p \in Procs, FillFails(p)
  PROVE  RunIInv'
<1>0. \A a \in emitted' : AuditOk(a)
  BY DEF RunIInv, FillFails
<1>1. pc[p] = "filling" /\ run' = run /\ TypeOK /\ Shapes /\ End(p)
  BY PartsHold DEF FillFails
<1>2. todo[p] # <<>> /\ files[Kind(p)] = Torn
  BY <1>1 DEF RunIInv, ProcInv
<1>3. Kind(p) \in Kinds
  BY <1>1, <1>2, NextFile
<1>4. /\ files' = [k \in Kinds |-> files'[k]] /\ files'[Kind(p)] \in {Torn, Absent}
      /\ \A k \in Kinds \ {Kind(p)} : files'[k] = files[k]
  BY <1>1, <1>3 DEF FillFails, Shapes
<1>5. Keeps /\ \A k \in Kinds : Readable(k)' => Readable(k)
  BY <1>1, <1>2, <1>4 DEF Keeps, Readable, run
<1>6. OthersStay(p) /\ pc'[p] = "idle" /\ "idle" \in Phases
  BY <1>1, Ends DEF Phases
<1>7. ProcInv(p)'
  BY <1>6 DEF ProcInv
<1>8. \A q \in Procs \ {p} : pc[q] = "filling" => Kind(p) # Kind(q)
  BY <1>1, FilledByOne
<1>9. StepOf(p)
  BY <1>0, <1>1, <1>4, <1>5, <1>6, <1>7, <1>8 DEF StepOf
<1>10. FileParts'
  BY <1>5, PartsHold, PartsKept
<1> QED
  BY <1>9, <1>10, StepPreserves

\* What the filling of a file changes, and what then holds of its kind.
LEMMA FillFacts ==
  ASSUME RunIInv, NEW p \in Procs, Fill(p)
  PROVE  /\ Kind(p) \in Kinds /\ files[Kind(p)] = Torn /\ Content(files'[Kind(p)])
         /\ files' = [k \in Kinds |-> files'[k]]
         /\ \A k \in Kinds \ {Kind(p)} : files'[k] = files[k]
         /\ Keeps /\ run' = run
         /\ \E f : /\ Doing(todo[p], f, files)
                   /\ AttestJob(f) \/ SealJob(f) \/ JudgeJob(f)
                   /\ Kind(p) \in DOMAIN f /\ files'[Kind(p)] = f[Kind(p)]
                   /\ \A x \in DOMAIN f : Rank(x) < Rank(Kind(p)) => files[x] = f[x]
<1>1. pc[p] = "filling" /\ run' = run /\ Shapes
  BY PartsHold DEF Fill
<1>2. todo[p] # <<>> /\ files[Kind(p)] = Torn
  BY <1>1 DEF RunIInv, ProcInv
<1>3. PICK f : /\ Doing(todo[p], f, files)
               /\ AttestJob(f) \/ SealJob(f) \/ JudgeJob(f)
               /\ Kind(p) \in DOMAIN f /\ Kind(p) \in Kinds /\ Payload(p) = f[Kind(p)]
               /\ Content(Payload(p))
               /\ \A x \in DOMAIN f : Rank(x) < Rank(Kind(p)) => files[x] = f[x]
  BY <1>1, <1>2, NextFile
<1>4. /\ files' = [k \in Kinds |-> files'[k]] /\ files'[Kind(p)] = Payload(p)
      /\ \A k \in Kinds \ {Kind(p)} : files'[k] = files[k]
  BY <1>1, <1>3 DEF Fill, Shapes
<1>5. Keeps
  BY <1>1, <1>2, <1>4 DEF Keeps, Readable, run
<1> QED
  BY <1>1, <1>2, <1>3, <1>4, <1>5

\* Kinds that no other part speaks of become readable without effect on it.
LEMMA FillParts ==
  ASSUME RunIInv, NEW p \in Procs, Fill(p)
  PROVE  FileParts'
<1>1. /\ Kind(p) \in Kinds /\ files[Kind(p)] = Torn /\ Content(files'[Kind(p)])
      /\ \A k \in Kinds \ {Kind(p)} : files'[k] = files[k]
      /\ Keeps /\ run' = run
  BY FillFacts
<1>2. PICK f : /\ Doing(todo[p], f, files)
               /\ AttestJob(f) \/ SealJob(f) \/ JudgeJob(f)
               /\ Kind(p) \in DOMAIN f /\ files'[Kind(p)] = f[Kind(p)]
               /\ \A x \in DOMAIN f : Rank(x) < Rank(Kind(p)) => files[x] = f[x]
  BY FillFacts
<1>3. \A k \in Kinds \ {Kind(p)} : Readable(k)' => Readable(k)
  BY <1>1 DEF Readable
<1>4. /\ ManifestStands /\ AssessmentStands /\ JudgmentStands /\ FilesOk /\ JudgmentRests
  BY PartsHold DEF FileParts
<1>5. SealJob(f) => SealJob(f)'
  BY <1>1, SealJobKeeps
<1>6. JudgeJob(f) => JudgeJob(f)'
  BY <1>1, JudgeJobKeeps
<1>7. Readable("analysis-attestation")' => AttestationOk(Attestation)'
  <2>1. CASE Kind(p) # "analysis-attestation"
    BY <1>1, <1>3, <1>4, <2>1, AttestationKept DEF Kinds
  <2>2. CASE Kind(p) = "analysis-attestation"
    <3>1. AttestJob(f)
      BY <1>2, <2>2 DEF SealJob, JudgeJob, SealKinds
    <3> QED
      BY <1>2, <2>2, <3>1 DEF AttestJob, Attestation
  <2> QED
    BY <2>1, <2>2
<1>8. ManifestStands' /\ (Readable("run-manifest")' => SealOk(Manifest, pin.available)')
  <2>1. CASE Kind(p) # "run-manifest"
    BY <1>1, <1>3, <1>4, <2>1, ManifestKept DEF Kinds
  <2>2. CASE Kind(p) = "run-manifest"
    <3>1. SealJob(f) /\ SealJob(f)'
      BY <1>2, <1>5, <2>2 DEF AttestJob, JudgeJob
    <3>2. PICK m : m = f["run-manifest"]
      OBVIOUS
    <3>3. Manifest' = m
      BY <1>2, <2>2, <3>2 DEF Manifest
    <3>4. /\ SealOk(m, pin.available)' /\ Readable("analysis-attestation")'
          /\ m.attestation = Attestation'
      BY <3>1, <3>2 DEF SealJob
    <3>5. /\ DOMAIN f = SealKinds(m) /\ f["audit-result"] = m.audit
          /\ f["coverage"] = CoverageOf(m.audit)
          /\ m.planned => f["build-plan"] = Plan(m.audit)
          /\ f["readable-report"] = Report(m.audit)
      BY <3>1, <3>2 DEF SealJob
    <3>6. /\ {"audit-result", "coverage", "readable-report"} \subseteq DOMAIN f
          /\ m.planned => "build-plan" \in DOMAIN f
      BY <3>5 DEF SealKinds
    <3>7. \A x \in DOMAIN f : x \in {"audit-result", "coverage", "readable-report", "build-plan"}
             => files'[x] = f[x]
      <4>1. ASSUME NEW x \in DOMAIN f,
                   x \in {"audit-result", "coverage", "readable-report", "build-plan"}
            PROVE  files'[x] = f[x]
        <5>1. Rank(x) < Rank(Kind(p)) /\ x # Kind(p) /\ x \in Kinds
          BY <2>2, <4>1 DEF Rank, Kinds
        <5> QED
          BY <1>1, <1>2, <5>1
      <4> QED
        BY <4>1
    <3>8. /\ SealedAudit' = m.audit /\ files'["coverage"] = CoverageOf(m.audit)
          /\ files'["readable-report"] = Report(m.audit)
          /\ m.planned => files'["build-plan"] = Plan(m.audit)
      BY <3>5, <3>6, <3>7 DEF SealedAudit
    <3>9. /\ V1(m.audit) = Override(m.attestation.v1, Classify(pin'.available, m.completed))
          /\ m.exit = DeriveCode(m.audit)
          /\ Severity(m.exit) >= Severity(DeriveCode(m.attestation.v1))
          /\ ~m.audit.ready
      BY <3>4 DEF SealOk, AuditOk
    <3>10. m.exit # "pass"
      BY <3>9, NothingPasses
    <3> QED
      BY <3>3, <3>4, <3>8, <3>9, <3>10 DEF ManifestStands
  <2> QED
    BY <2>1, <2>2
<1>9. AssessmentStands'
  <2>1. CASE Kind(p) # "post-run-assessment"
    BY <1>1, <1>3, <1>4, <2>1, AssessmentKept DEF Kinds
  <2>2. CASE Kind(p) = "post-run-assessment"
    <3>1. SealJob(f) /\ SealJob(f)'
      BY <1>2, <1>5, <2>2 DEF AttestJob, JudgeJob
    <3>2. PICK m : m = f["run-manifest"]
      OBVIOUS
    <3>3. "run-manifest" \in DOMAIN f
      BY <3>1 DEF SealJob, SealKinds
    <3>4. files["run-manifest"] = m
      BY <1>2, <2>2, <3>2, <3>3 DEF Rank
    <3>5. files'["run-manifest"] = m
      BY <1>1, <2>2, <3>4 DEF Kinds
    <3>6. Content(m)
      BY <1>2, <3>2, <3>3 DEF Doing
    <3>7. f["post-run-assessment"] = PostRun(m.audit, m.exit)
      BY <3>1, <3>2 DEF SealJob
    <3> QED
      BY <1>2, <2>2, <3>5, <3>6, <3>7 DEF AssessmentStands, Manifest, Readable, Content
  <2> QED
    BY <2>1, <2>2
<1>10. JudgmentStands' /\ JudgmentRests'
  <2>1. CASE Kind(p) # "judgment-assessment"
    BY <1>1, <1>3, <1>4, <2>1, JudgmentKept DEF Kinds
  <2>2. CASE Kind(p) = "judgment-assessment"
    <3>1. JudgeJob(f)'
      BY <1>2, <1>6, <2>2 DEF AttestJob, SealJob, SealKinds
    <3> QED
      BY <1>2, <2>2, <3>1 DEF JudgeJob, JudgmentStands, JudgmentRests
  <2> QED
    BY <2>1, <2>2
<1> QED
  BY <1>7, <1>8, <1>9, <1>10 DEF FileParts, FilesOk

LEMMA FillStep ==
  ASSUME RunIInv, NEW p \in Procs, Fill(p)
  PROVE  RunIInv'
<1>1. /\ files[Kind(p)] = Torn /\ files' = [k \in Kinds |-> files'[k]]
      /\ \A k \in Kinds \ {Kind(p)} : files'[k] = files[k]
      /\ Keeps /\ run' = run
  BY FillFacts
<1>2. PICK f : /\ Doing(todo[p], f, files)
               /\ AttestJob(f) \/ SealJob(f) \/ JudgeJob(f)
  BY FillFacts
<1>3. TypeOK /\ Shapes /\ pc[p] = "filling" /\ todo[p] # <<>>
  BY PartsHold DEF Fill, RunIInv, ProcInv
<1>4. /\ pc' = [pc EXCEPT ![p] = "writing"] /\ todo' = [todo EXCEPT ![p] = Tail(@)]
      /\ ctx' = ctx /\ emitted' = emitted
  BY DEF Fill, Written
<1>5. /\ OthersStay(p) /\ pc'[p] = "writing" /\ "writing" \in Phases
      /\ todo'[p] = Tail(todo[p])
  BY <1>3, <1>4 DEF OthersStay, TypeOK, Shapes, Phases
<1>6. Doing(todo'[p], f, files')
  <2>1. files'[Head(todo[p])[1]] = Head(todo[p])[2]
    <3>1. Kind(p) \in DOMAIN files
      BY FillFacts, <1>3 DEF Shapes
    <3> QED
      BY <3>1 DEF Fill, Kind, Payload
  <2>2. Doing(todo[p], f, files')
    BY <1>1, <1>2, DoingKeeps
  <2> QED
    BY <1>3, <1>5, <2>1, <2>2, TailOfJob
<1>7. AttestJob(f)' \/ SealJob(f)' \/ JudgeJob(f)'
  BY <1>1, <1>2, SealJobKeeps, JudgeJobKeeps DEF AttestJob
<1>8. ProcInv(p)'
  BY <1>3, <1>4, <1>5, <1>6, <1>7 DEF ProcInv, Working, RunIInv
<1>9. \A q \in Procs \ {p} : pc[q] = "filling" => Kind(p) # Kind(q)
  BY <1>3, FilledByOne
<1>10. StepOf(p)
  BY <1>1, <1>4, <1>5, <1>8, <1>9 DEF StepOf, RunIInv
<1> QED
  BY <1>10, FillParts, StepPreserves

LEMMA Stutters == ASSUME RunIInv, UNCHANGED vars PROVE RunIInv'
<1>1. UNCHANGED <<pin, files, emitted, procs>> /\ TypeOK'
  BY PartsHold DEF vars, run, procs, TypeOK
<1> QED
  BY <1>1, Surroundings

LEMMA StepHolds == ASSUME RunIInv, [Next]_vars PROVE RunIInv'
<1>1. CASE UNCHANGED vars
  BY <1>1, Stutters
<1>2. ASSUME NEW p \in Procs,
             \/ Audit(p) \/ Scan(p) \/ Stage(p) \/ Analyze(p)
             \/ Finalization(p)
             \/ Check(p)
             \/ \E candidates \in CandidateSets : Judge(p, candidates)
             \/ Create(p) \/ Fill(p) \/ Done(p) \/ FillFails(p) \/ Crash(p)
      PROVE  RunIInv'
  BY <1>2, AuditStep, ScanStep, StageStep, AnalyzeStep, FinalizeStep, CheckStep, JudgeStep,
     CreateStep, FillStep, DoneStep, FillFailsStep, CrashStep DEF Finalization
<1>3. CASE Tick \/ (\E t \in TreeNames : Edit(t)) \/ Rebind \/ Authorize
  BY <1>3, SurroundingSteps
<1> QED
  BY <1>1, <1>2, <1>3 DEF Next

LEMMA InvariantHolds == Spec => []RunIInv
  BY InitHolds, StepHolds, PTL DEF Spec

-----------------------------------------------------------------------------
(* The theorems.                                                           *)

\* The artifacts of a run agree with one another at every moment: the manifest
\* names what is there, gives the verdict that was attested or that of a source
\* that expired, never a milder one and never a pass, the post-run assessment
\* speaks of that manifest, and judgment is passed only on a run that nothing
\* else blocks - whatever is edited, approved, interrupted or run meanwhile
\* (finalize.py:212-346, run_artifacts.py:594-735, judgment_decisions.py).
THEOREM ArtifactsAgree == Spec => []RunInv
<1>1. RunIInv => RunInv
  BY DEF RunIInv
<1> QED
  BY <1>1, InvariantHolds, PTL

LEMMA CodesAreVerdicts ==
  \A a : /\ DeriveCode(a) \in {"violation", "coverage", "source", "invalid"}
         /\ DeriveCode(a) # "none"
  BY CodeType DEF DeriveCode, Codes

LEMMA InitMaps == ASSUME Init PROVE Register!Init
<1>1. ~Readable("analysis-attestation") /\ ~Readable("run-manifest")
      /\ ~Readable("post-run-assessment")
  BY DEF Init, Readable, Kinds
<1> QED
  BY <1>1 DEF Register!Init, Code

\* A step that makes none of the three files readable is a stutter.
LEMMA OtherStepsStutter ==
  ASSUME RunIInv, Keeps,
         \A k \in {"analysis-attestation", "run-manifest", "post-run-assessment"} :
           Readable(k)' => Readable(k)
  PROVE  UNCHANGED Register!vars
<1>1. ASSUME NEW k \in {"analysis-attestation", "run-manifest", "post-run-assessment"}
      PROVE  Readable(k)' = Readable(k) /\ (Readable(k) => files'[k] = files[k])
  <2>1. k \in Kinds
    BY DEF Kinds
  <2>2. Readable(k) \in BOOLEAN /\ Readable(k)' \in BOOLEAN
    BY DEF Readable
  <2> QED
    BY <2>1, <2>2, ReadableStays
<1>2. /\ Code("analysis-attestation", DeriveCode(Attestation.v1))'
           = Code("analysis-attestation", DeriveCode(Attestation.v1))
  BY <1>1 DEF Code, Attestation
<1>3. Code("run-manifest", Manifest.exit)' = Code("run-manifest", Manifest.exit)
  BY <1>1 DEF Code, Manifest
<1> QED
  BY <1>1, <1>2, <1>3 DEF Register!vars

LEMMA FillMaps ==
  ASSUME RunIInv, NEW p \in Procs, Fill(p)
  PROVE  Register!Next \/ UNCHANGED Register!vars
<1>0. PICK kind \in Kinds : kind = Kind(p)
  BY FillFacts
<1>1. /\ files[kind] = Torn /\ Content(files'[kind])
      /\ \A k \in Kinds \ {kind} : files'[k] = files[k]
      /\ Keeps
  BY <1>0, FillFacts
<1>2. ~Readable(kind) /\ Readable(kind)'
  BY <1>1 DEF Readable, Content
<1>3. ASSUME NEW k \in Kinds \ {kind}
      PROVE  Readable(k)' = Readable(k) /\ files'[k] = files[k]
  BY <1>1 DEF Readable
<1>4. FileParts'
  BY FillParts
<1> DEFINE attested == Code("analysis-attestation", DeriveCode(Attestation.v1))
           sealed == Code("run-manifest", Manifest.exit)
           assessed == Readable("post-run-assessment")
<1>5. CASE kind = "analysis-attestation"
  <2>1. attested = "none" /\ attested' = DeriveCode(Attestation'.v1)
    BY <1>2, <1>5 DEF Code
  <2>2. sealed' = sealed /\ assessed' = assessed
    BY <1>3, <1>5 DEF Code, Manifest, Kinds
  <2>3. PICK v : v = DeriveCode(Attestation'.v1)
    OBVIOUS
  <2>4. v \in {"violation", "coverage", "source", "invalid", "pass"}
    BY <2>3, CodesAreVerdicts
  <2>5. Register!Attest(v)
    BY <2>1, <2>2, <2>3 DEF Register!Attest
  <2> QED
    BY <2>4, <2>5 DEF Register!Next
<1>6. CASE kind = "run-manifest"
  <2>1. SealOk(Manifest, pin.available)' /\ ManifestStands' /\ Readable("run-manifest")'
    BY <1>2, <1>4, <1>6 DEF FileParts, FilesOk
  <2>2. /\ Readable("analysis-attestation")' /\ Manifest'.attestation = Attestation'
        /\ Manifest'.exit # "pass"
    BY <2>1 DEF ManifestStands
  <2>3. Readable("analysis-attestation") /\ Attestation' = Attestation /\ attested' = attested
        /\ assessed' = assessed
    BY <1>3, <1>6, <2>2 DEF Attestation, Kinds, Code
  <2>4. attested = DeriveCode(Attestation.v1) /\ attested # "none"
    BY <2>3, CodesAreVerdicts DEF Code
  <2>5. PICK v : v = Manifest'.exit
    OBVIOUS
  <2>6. v \in {attested, "source"} /\ v \in {"violation", "coverage", "source", "invalid", "pass"}
    BY <2>1, <2>2, <2>3, <2>4, <2>5, CodesAreVerdicts DEF SealOk
  <2>7. sealed = "none" /\ sealed' = v
    BY <1>2, <1>6, <2>5 DEF Code
  <2>8. Register!Seal(v)
    BY <2>2, <2>3, <2>4, <2>5, <2>6, <2>7 DEF Register!Seal
  <2> QED
    BY <2>6, <2>8 DEF Register!Next
<1>7. CASE kind = "post-run-assessment"
  <2>1. Readable("run-manifest")'
    BY <1>2, <1>4, <1>7 DEF FileParts, AssessmentStands
  <2>2. Readable("run-manifest") /\ sealed' = sealed /\ attested' = attested
    BY <1>3, <1>7, <2>1 DEF Kinds, Code, Manifest, Attestation
  <2>3. Manifest.exit = DeriveCode(Manifest.audit)
    BY <2>2, PartsHold DEF FileParts, ManifestStands
  <2>4. sealed # "none"
    BY <2>2, <2>3, CodesAreVerdicts DEF Code
  <2>5. ~assessed /\ assessed' = TRUE
    BY <1>2, <1>7 DEF Readable
  <2>6. Register!Assess
    BY <2>2, <2>4, <2>5 DEF Register!Assess
  <2> QED
    BY <2>6 DEF Register!Next
<1>8. CASE kind \notin {"analysis-attestation", "run-manifest", "post-run-assessment"}
  <2>1. \A k \in {"analysis-attestation", "run-manifest", "post-run-assessment"} :
          Readable(k)' => Readable(k)
    BY <1>3, <1>8 DEF Kinds
  <2> QED
    BY <1>1, <2>1, OtherStepsStutter
<1> QED
  BY <1>5, <1>6, <1>7, <1>8

LEMMA NothingNew ==
  ASSUME RunIInv, [Next]_vars, \A p \in Procs : ~Fill(p)
  PROVE  Keeps /\ \A k \in Kinds : Readable(k)' => Readable(k)
<1>1. CASE files' = files /\ pin' = pin
  BY <1>1 DEF Keeps, Readable
<1>2. ASSUME NEW p \in Procs, Create(p), ~Differs(p), files[Kind(p)] = Absent
      PROVE  Keeps /\ \A k \in Kinds : Readable(k)' => Readable(k)
  <2>1. files' = [files EXCEPT ![Kind(p)] = Torn] /\ pin' = pin
    BY <1>2 DEF Create, run
  <2> QED
    BY <1>2, <2>1, PartsHold DEF Shapes, Keeps, Readable
<1>3. ASSUME NEW p \in Procs, FillFails(p)
      PROVE  Keeps /\ \A k \in Kinds : Readable(k)' => Readable(k)
  <2>1. files[Kind(p)] = Torn /\ pin' = pin /\ DOMAIN files = Kinds
    BY <1>3, PartsHold DEF FillFails, RunIInv, ProcInv, Shapes, run
  <2>2. \E x \in {Torn, Absent} : files' = [files EXCEPT ![Kind(p)] = x]
    BY <1>3 DEF FillFails
  <2> QED
    BY <2>1, <2>2 DEF Keeps, Readable
<1>4. CASE UNCHANGED vars
  BY <1>1, <1>4 DEF vars, run
<1>5. ASSUME NEW p \in Procs, Create(p)
      PROVE  \/ files' = files /\ pin' = pin
             \/ ~Differs(p) /\ files[Kind(p)] = Absent
  BY <1>5 DEF Create, run
<1>6. CASE Tick \/ (\E t \in TreeNames : Edit(t)) \/ Rebind \/ Authorize
  BY <1>1, <1>6 DEF Tick, Edit, Rebind, Authorize
<1>7. ASSUME NEW p \in Procs,
             \/ Audit(p) \/ Scan(p) \/ Stage(p) \/ Analyze(p)
             \/ Finalization(p)
             \/ Check(p)
             \/ \E candidates \in CandidateSets : Judge(p, candidates)
             \/ Done(p) \/ Crash(p)
      PROVE  files' = files /\ pin' = pin
  BY <1>7 DEF Audit, AuditFlutter, AuditFigma, Scan, Stage, Analyze, Finalization, Finalize, Check,
              Judge,
              Done, Crash, run
<1> QED
  BY <1>1, <1>2, <1>3, <1>4, <1>5, <1>6, <1>7 DEF Next

LEMMA StepMaps ==
  ASSUME RunIInv, [Next]_vars
  PROVE  [Register!Next]_(Register!vars)
<1>1. CASE \E p \in Procs : Fill(p)
  BY <1>1, FillMaps
<1>2. CASE \A p \in Procs : ~Fill(p)
  <2>1. Keeps /\ \A k \in Kinds : Readable(k)' => Readable(k)
    BY <1>2, NothingNew
  <2>2. \A k \in {"analysis-attestation", "run-manifest", "post-run-assessment"} :
          Readable(k)' => Readable(k)
    BY <2>1 DEF Kinds
  <2> QED
    BY <2>1, <2>2, OtherStepsStutter
<1> QED
  BY <1>1, <1>2

\* To its readers a run's evidence is attested once, sealed at most once with
\* the attested verdict or a source that expired, and assessed at most once
\* after that; no crash, failed write or second command takes any of it back
\* (finalize.py:212-346, post_run.py, run_artifacts.py).
THEOREM GivesTheEvidenceOnce == Spec => ImplementsRegister
<1>1. RunIInv /\ [Next]_vars => [Register!Next]_(Register!vars)
  BY StepMaps
<1>2. Init => Register!Init
  BY InitMaps
<1> QED
  BY <1>1, <1>2, InvariantHolds, PTL DEF Spec, ImplementsRegister, Register!Spec
-----------------------------------------------------------------------------
(* What is attested was analysed.                                          *)

Faithful(t) ==
  pin.adapter = "flutter" =>
    t.runner.raw = RunnerResult(Contents[t.runner.tree], t.runner.schema)

Attesting(i, list) == list[i][1] = "analysis-attestation"

\* The copy is of the listed tree, and nothing else is about to be attested.
StagedWell(p) ==
  /\ pc[p] \in {"scanning", "staging"} => ctx[p].before = tree
  /\ pc[p] = "staging" => ctx[p].scanned = tree
  /\ pc[p] = "analyzing" => ctx[p].staged = ctx[p].before /\ ctx[p].scanned = ctx[p].before
  /\ pc[p] \in {"writing", "filling"} =>
       \A i \in 1..Len(todo[p]) : Attesting(i, todo[p]) => Faithful(todo[p][i][2])

StagedInv == (\A p \in Procs : StagedWell(p)) /\ AnalyzedAsAttested

\* A step of p over sources that stay as they are.
LEMMA ProcessKeeps ==
  ASSUME RunIInv, StagedInv, NEW p \in Procs, OthersStay(p), pc'[p] \in Phases,
         tree' = tree, pin' = pin, StagedWell(p)', AnalyzedAsAttested'
  PROVE  StagedInv'
<1>1. \A q \in Procs \ {p} : pc'[q] = pc[q] /\ ctx'[q] = ctx[q] /\ todo'[q] = todo[q]
  BY PartsHold, OthersAreSame
<1>2. ASSUME NEW q \in Procs \ {p} PROVE StagedWell(q)'
  BY <1>1 DEF StagedInv, StagedWell, Attesting, Faithful
<1> QED
  BY <1>2 DEF StagedInv

LEMMA GoesFrom ==
  ASSUME RunIInv, StagedInv, NEW p \in Procs, NEW phase \in Phases, NEW inputs, NEW writes,
         Go(p, phase, inputs, writes), tree' = tree, pin' = pin, files' = files,
         phase \in {"scanning", "staging"} => inputs.before = tree,
         phase = "staging" => inputs.scanned = tree,
         phase = "analyzing" => inputs.staged = inputs.before /\ inputs.scanned = inputs.before,
         phase \in {"writing", "filling"} =>
           \A i \in 1..Len(writes) : Attesting(i, writes) => Faithful(writes[i][2])
  PROVE  StagedInv'
<1>1. OthersStay(p) /\ pc'[p] = phase /\ ctx'[p] = inputs /\ todo'[p] = writes
  BY PartsHold, Goes
<1>2. StagedWell(p)'
  BY <1>1 DEF StagedWell, Attesting, Faithful
<1>3. AnalyzedAsAttested'
  BY DEF StagedInv, AnalyzedAsAttested, Readable, Attestation
<1> QED
  BY <1>1, <1>2, <1>3, ProcessKeeps

LEMMA EndsFrom ==
  ASSUME RunIInv, StagedInv, NEW p \in Procs, End(p), tree' = tree, pin' = pin,
         AnalyzedAsAttested'
  PROVE  StagedInv'
<1>1. OthersStay(p) /\ pc'[p] = "idle" /\ "idle" \in Phases
  BY PartsHold, Ends DEF Phases
<1>2. StagedWell(p)'
  BY <1>1 DEF StagedWell
<1> QED
  BY <1>1, <1>2, ProcessKeeps

LEMMA SameFiles ==
  ASSUME StagedInv, files' = files, pin' = pin PROVE AnalyzedAsAttested'
  BY DEF StagedInv, AnalyzedAsAttested, Readable, Attestation

LEMMA EvaluateIsFaithful ==
  ASSUME RunIInv, StagedInv, NEW p \in Procs, NEW runner, NEW inputs,
         Evaluate(p, runner, inputs), UNCHANGED <<run, files>>,
         pin.adapter = "flutter" =>
           runner.raw = RunnerResult(Contents[runner.tree], runner.schema)
  PROVE  StagedInv'
<1>0. tree' = tree /\ pin' = pin
  BY DEF run
<1>1. PICK a : a = Evaluated(runner, pin.personal, inputs.requests, State, UxLane(inputs.ux))
  OBVIOUS
<1>2. PICK t : t = AttestationOf(a, inputs.ux)
  OBVIOUS
<1>3. PICK list : list = <<<<"analysis-attestation", t>>>>
  OBVIOUS
<1>4. \/ Go(p, "writing", [emit |-> a], list)
      \/ End(p)
  BY <1>1, <1>2, <1>3 DEF Evaluate
<1>5. t.runner = runner
  BY <1>1, <1>2, EvaluatedFields DEF AttestationOf
<1>6. \A i \in 1..Len(list) : Attesting(i, list) => Faithful(list[i][2])
  <2>1. Len(list) = 1 /\ list[1][2] = t
    BY <1>3
  <2> QED
    BY <1>5, <2>1 DEF Faithful
<1>7. CASE End(p)
  BY <1>0, <1>7, SameFiles, EndsFrom
<1>8. CASE Go(p, "writing", [emit |-> a], list)
  <2>1. "writing" \in Phases
    BY DEF Phases
  <2> QED
    BY <1>0, <1>6, <1>8, <2>1, GoesFrom
<1> QED
  BY <1>4, <1>7, <1>8

LEMMA AuditIsFaithful ==
  ASSUME RunIInv, StagedInv, NEW p \in Procs, Audit(p)
  PROVE  StagedInv'
<1>1. PICK requests \in RequestSets, ux \in UxInputs :
        \/ AuditFlutter(p, requests, ux)
        \/ \E o \in Observations : AuditFigma(p, requests, ux, o)
  BY DEF Audit
<1>2. CASE AuditFlutter(p, requests, ux)
  <2>1. PICK inputs : Go(p, "scanning", inputs, <<>>) /\ inputs.before = tree
    BY <1>2 DEF AuditFlutter
  <2>2. "scanning" \in Phases
    BY DEF Phases
  <2> QED
    BY <1>2, <2>1, <2>2, GoesFrom DEF AuditFlutter, run
<1>3. ASSUME NEW o \in Observations, AuditFigma(p, requests, ux, o)
      PROVE  StagedInv'
  <2>1. pin.adapter = "figma"
    BY <1>3 DEF AuditFigma, FigmaAccepts
  <2> QED
    BY <1>3, <2>1, EvaluateIsFaithful DEF AuditFigma
<1> QED
  BY <1>1, <1>2, <1>3

LEMMA AnalysisIsFaithful ==
  ASSUME RunIInv, StagedInv, NEW p \in Procs, Scan(p) \/ Stage(p) \/ Analyze(p)
  PROVE  StagedInv'
<1>1. StagedWell(p)
  BY DEF StagedInv
<1>2. CASE Scan(p)
  <2>1. PICK inputs : /\ Go(p, "staging", inputs, <<>>)
                      /\ inputs.before = tree /\ inputs.scanned = tree
    BY <1>1, <1>2 DEF Scan, StagedWell
  <2>2. "staging" \in Phases
    BY DEF Phases
  <2> QED
    BY <1>2, <2>1, <2>2, GoesFrom DEF Scan, run
<1>3. CASE Stage(p)
  <2>1. PICK inputs : /\ Go(p, "analyzing", inputs, <<>>)
                      /\ inputs.staged = inputs.before /\ inputs.scanned = inputs.before
    BY <1>1, <1>3 DEF Stage, StagedWell
  <2>2. "analyzing" \in Phases
    BY DEF Phases
  <2> QED
    BY <1>3, <2>1, <2>2, GoesFrom DEF Stage, run
<1>4. CASE Analyze(p)
  <2>1. PICK runner, inputs : runner = Runner(ctx[p]) /\ inputs = ctx[p]
    OBVIOUS
  <2>2. \/ tree = ctx[p].before /\ Evaluate(p, runner, inputs)
        \/ End(p)
    BY <1>4, <2>1 DEF Analyze
  <2>3. UNCHANGED <<run, files>>
    BY <1>4 DEF Analyze
  <2>4. CASE End(p)
    BY <2>3, <2>4, SameFiles, EndsFrom DEF run
  <2>5. CASE tree = ctx[p].before /\ Evaluate(p, runner, inputs)
    <3>1. Contents[tree] \in Trees
      BY PartsHold, LifecycleAssumption DEF TypeOK
    <3>2. Analyzed(ctx[p]) = Contents[tree]
      BY <1>1, <1>4, <2>5, <3>1 DEF Analyzed, StagedWell, Analyze, Trees
    <3>3. runner.raw = RunnerResult(Contents[runner.tree], runner.schema)
      BY <2>1, <2>5, <3>2 DEF Runner
    <3> QED
      BY <2>3, <2>5, <3>3, EvaluateIsFaithful
  <2> QED
    BY <2>2, <2>4, <2>5
<1> QED
  BY <1>2, <1>3, <1>4

\* Finalization and judgment never write an attestation.
LEMMA OthersDoNotAttest ==
  ASSUME RunIInv, StagedInv, NEW p \in Procs,
         \/ Finalization(p)
         \/ Check(p)
         \/ \E candidates \in CandidateSets : Judge(p, candidates)
  PROVE  StagedInv'
<1>0. /\ "checking" \in Phases /\ "writing" \in Phases
      /\ tree' = tree /\ pin' = pin /\ files' = files
  BY DEF Phases, Finalization, Finalize, Check, Judge, run
<1>1. ASSUME NEW claim \in Claims, NEW plan \in Plans, Finalize(p, claim, plan)
      PROVE  StagedInv'
  <2>1. PICK inputs : Go(p, "checking", inputs, <<>>)
    BY <1>1 DEF Finalize
  <2> QED
    BY <1>0, <2>1, GoesFrom
<1>2. CASE Check(p)
  <2>1. PICK inputs, list : /\ inputs = [emit |-> Nothing]
                            /\ list = Writes(SealedFrom(ctx[p]), ctx[p])
    OBVIOUS
  <2>2. Go(p, "writing", inputs, list) \/ End(p)
    BY <1>2, <2>1 DEF Check
  <2>3. \A i \in 1..Len(list) : ~Attesting(i, list)
    <3>1. PICK a, x, m : a = SealedFrom(ctx[p]) /\ x = ctx[p] /\ m = ManifestOf(a, x)
      OBVIOUS
    <3>2. list = IF x.plan # "none"
                 THEN <<<<"audit-result", a>>, <<"coverage", CoverageOf(a)>>,
                        <<"build-plan", Plan(a)>>, <<"readable-report", Report(a)>>,
                        <<"run-manifest", m>>, <<"post-run-assessment", PostRun(a, m.exit)>>>>
                 ELSE <<<<"audit-result", a>>, <<"coverage", CoverageOf(a)>>,
                        <<"readable-report", Report(a)>>,
                        <<"run-manifest", m>>, <<"post-run-assessment", PostRun(a, m.exit)>>>>
      BY <2>1, <3>1, WritesList
    <3>3. CASE x.plan # "none"
      BY <3>2, <3>3 DEF Attesting
    <3>4. CASE x.plan = "none"
      BY <3>2, <3>4 DEF Attesting
    <3> QED
      BY <3>3, <3>4
  <2>4. CASE End(p)
    BY <1>0, <2>4, SameFiles, EndsFrom
  <2>5. CASE Go(p, "writing", inputs, list)
    BY <1>0, <2>3, <2>5, GoesFrom
  <2> QED
    BY <2>2, <2>4, <2>5
<1>3. ASSUME NEW candidates \in CandidateSets, Judge(p, candidates)
      PROVE  StagedInv'
  <2>1. PICK s, inputs, list :
          /\ s = AssessmentOf(candidates) /\ inputs = [emit |-> Nothing]
          /\ list = <<<<"judgment-assessment", s>>>>
    OBVIOUS
  <2>2. Go(p, "writing", inputs, list)
    BY <1>3, <2>1 DEF Judge
  <2>3. \A i \in 1..Len(list) : ~Attesting(i, list)
    BY <2>1 DEF Attesting
  <2> QED
    BY <1>0, <2>2, <2>3, GoesFrom
<1> QED
  BY <1>1, <1>2, <1>3 DEF Finalization

\* What is left of a list says what the list says.
LEMMA RestIsFaithful ==
  ASSUME RunIInv, StagedInv, NEW p \in Procs, pc[p] \in {"writing", "filling"},
         todo[p] # <<>>, Written(p), UNCHANGED run, AnalyzedAsAttested'
  PROVE  StagedInv'
<1>1. PICK f : Doing(todo[p], f, files)
  BY NextFile
<1>2. PICK list, rest : list = todo[p] /\ rest = Tail(todo[p])
  OBVIOUS
<1>3. list \in Seq({<<k, f[k]>> : k \in DOMAIN f}) /\ list # <<>>
  BY <1>1, <1>2 DEF Doing
<1>4. /\ Len(rest) = Len(list) - 1 /\ Len(list) \in Nat \ {0}
      /\ \A i \in 1..Len(rest) : rest[i] = list[i + 1]
  BY <1>2, <1>3, HeadTailProperties
<1>5. \A i \in 1..Len(list) : Attesting(i, list) => Faithful(list[i][2])
  BY <1>2 DEF StagedInv, StagedWell
<1>6. \A i \in 1..Len(rest) : Attesting(i, rest) => Faithful(rest[i][2])
  <2> SUFFICES ASSUME NEW i \in 1..Len(rest), Attesting(i, rest)
               PROVE  Faithful(rest[i][2])
    OBVIOUS
  <2>1. i + 1 \in 1..Len(list) /\ rest[i] = list[i + 1]
    BY <1>4
  <2>2. Attesting(i + 1, list)
    BY <2>1 DEF Attesting
  <2> QED
    BY <1>5, <2>1, <2>2
<1>7. Go(p, "writing", ctx[p], rest)
  BY <1>2, PartsHold DEF Written, Go, Shapes
<1>8. /\ OthersStay(p) /\ pc'[p] = "writing" /\ todo'[p] = rest /\ "writing" \in Phases
      /\ tree' = tree /\ pin' = pin
  BY <1>7, PartsHold, Goes DEF Phases, run
<1>9. StagedWell(p)'
  BY <1>6, <1>8 DEF StagedWell, Attesting, Faithful
<1> QED
  BY <1>8, <1>9, ProcessKeeps

LEMMA FillIsFaithful ==
  ASSUME RunIInv, StagedInv, NEW p \in Procs, Fill(p)
  PROVE  StagedInv'
<1>1. pc[p] = "filling" /\ todo[p] # <<>> /\ Written(p) /\ UNCHANGED run
  BY DEF Fill, RunIInv, ProcInv
<1>2. PICK f : Doing(todo[p], f, files)
  BY <1>1, NextFile
<1>3. PICK list : list = todo[p]
  OBVIOUS
<1>4. list \in Seq({<<k, f[k]>> : k \in DOMAIN f}) /\ list # <<>>
  BY <1>1, <1>2, <1>3 DEF Doing
<1>5. 1 \in 1..Len(list) /\ Head(list) = list[1]
  BY <1>4
<1>6. Kind(p) = "analysis-attestation" => Faithful(Payload(p))
  BY <1>1, <1>3, <1>5 DEF Kind, Payload, StagedInv, StagedWell, Attesting
<1>7. /\ \A k \in Kinds \ {Kind(p)} : files'[k] = files[k]
      /\ Kind(p) \in Kinds /\ files'[Kind(p)] = Payload(p) /\ pin' = pin
  BY FillFacts, PartsHold DEF Fill, Shapes, run
<1>8. AnalyzedAsAttested'
  <2>1. CASE Kind(p) = "analysis-attestation"
    BY <1>6, <1>7, <2>1 DEF AnalyzedAsAttested, Attestation, Faithful
  <2>2. CASE Kind(p) # "analysis-attestation"
    BY <1>7, <2>2 DEF AnalyzedAsAttested, Attestation, Readable, StagedInv, Kinds
  <2> QED
    BY <2>1, <2>2
<1> QED
  BY <1>1, <1>8, RestIsFaithful

\* The other steps of a process that stores, and of one that leaves.
LEMMA StoringIsFaithful ==
  ASSUME RunIInv, StagedInv, NEW p \in Procs,
         Create(p) \/ Done(p) \/ FillFails(p) \/ Crash(p)
  PROVE  StagedInv'
<1>0. tree' = tree /\ UNCHANGED run
  BY DEF Create, Done, FillFails, Crash, run
<1>1. AnalyzedAsAttested'
  <2>1. CASE files' = files
    BY <1>0, <2>1, SameFiles DEF run
  <2>2. ASSUME files' # files
        PROVE  \E x \in {Torn, Absent} : files' = [files EXCEPT ![Kind(p)] = x]
    BY <2>2 DEF Create, Done, FillFails, Crash
  <2>3. ASSUME files' # files
        PROVE  files[Kind(p)] \in {Torn, Absent} /\ Kind(p) \in Kinds
    <3>1. Create(p) \/ FillFails(p)
      BY <2>3 DEF Done, Crash
    <3>2. CASE Create(p)
      BY <2>3, <3>2, NextFile DEF Create
    <3>3. CASE FillFails(p)
      BY <3>3, NextFile DEF FillFails, RunIInv, ProcInv
    <3> QED
      BY <3>1, <3>2, <3>3
  <2>4. CASE files' # files
    BY <1>0, <2>2, <2>3, <2>4, PartsHold
       DEF StagedInv, AnalyzedAsAttested, Readable, Attestation, Shapes, Kinds, run
  <2> QED
    BY <2>1, <2>4
<1>2. CASE End(p)
  BY <1>0, <1>1, <1>2, EndsFrom DEF run
<1>3. CASE Create(p) /\ Written(p)
  BY <1>0, <1>1, <1>3, RestIsFaithful DEF Create
<1>4. CASE Create(p) /\ pc' = [pc EXCEPT ![p] = "filling"] /\ UNCHANGED <<ctx, todo>>
  <2>1. OthersStay(p) /\ pc'[p] = "filling" /\ "filling" \in Phases
    BY <1>4, PartsHold DEF OthersStay, TypeOK, Shapes, Phases
  <2>2. StagedWell(p)'
    BY <1>0, <1>4, <2>1 DEF StagedInv, StagedWell, Attesting, Faithful, Create, run
  <2> QED
    BY <1>0, <1>1, <2>1, <2>2, ProcessKeeps DEF run
<1> QED
  BY <1>2, <1>3, <1>4 DEF Create, Done, FillFails, Crash

\* Whatever else happens, sources change only while nobody is about to copy them.
LEMMA SurroundingsAreFaithful ==
  ASSUME StagedInv, UNCHANGED <<pin, files, procs>>,
         (\E p \in Procs : pc[p] \in {"scanning", "staging"}) => tree' = tree
  PROVE  StagedInv'
<1>1. AnalyzedAsAttested'
  BY SameFiles
<1>2. ASSUME NEW p \in Procs PROVE StagedWell(p)'
  BY DEF StagedInv, StagedWell, Attesting, Faithful, procs
<1> QED
  BY <1>1, <1>2 DEF StagedInv

\* The analysis that a run attests is the analysis of the sources it attests, for every
\* behaviour in which no source is edited between their listing and their copy: an edit
\* at any other moment is found by the second listing or is not analysed, and neither
\* rivals, a new authorization nor a repeated audit mix two analyses (flutter_runner.py:700-790).
THEOREM UndisturbedIsAsAttested == UndisturbedSpec => []AnalyzedAsAttested
<1> DEFINE Quiet == (\E p \in Procs : pc[p] \in {"scanning", "staging"}) => tree' = tree
<1>1. Init => StagedInv
  <2>1. Init => \A k \in Kinds : ~Readable(k)
    BY DEF Init, Readable
  <2> QED
    BY <2>1 DEF Init, StagedInv, StagedWell, AnalyzedAsAttested, Kinds
<1>2. ASSUME RunIInv, StagedInv, [Next /\ Quiet]_vars
      PROVE  StagedInv'
  <2>1. CASE UNCHANGED vars
    BY <1>2, <2>1, SurroundingsAreFaithful DEF vars, run
  <2>2. ASSUME NEW p \in Procs,
               \/ Audit(p) \/ Scan(p) \/ Stage(p) \/ Analyze(p)
               \/ Finalization(p)
               \/ Check(p)
               \/ \E candidates \in CandidateSets : Judge(p, candidates)
               \/ Create(p) \/ Fill(p) \/ Done(p) \/ FillFails(p) \/ Crash(p)
        PROVE  StagedInv'
    BY <1>2, <2>2, AuditIsFaithful, AnalysisIsFaithful, OthersDoNotAttest,
       FillIsFaithful, StoringIsFaithful
  <2>3. CASE Quiet /\ (Tick \/ (\E t \in TreeNames : Edit(t)) \/ Rebind \/ Authorize)
    BY <1>2, <2>3, SurroundingsAreFaithful DEF Tick, Edit, Rebind, Authorize
  <2> QED
    BY <1>2, <2>1, <2>2, <2>3 DEF Next
<1>3. UndisturbedSpec => Spec
  BY PTL DEF UndisturbedSpec, Spec
<1>4. StagedInv => AnalyzedAsAttested
  BY DEF StagedInv
<1> QED
  BY <1>1, <1>2, <1>3, <1>4, InvariantHolds, PTL DEF UndisturbedSpec
=============================================================================
