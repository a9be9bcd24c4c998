---------------------------- MODULE AuditVerdict ----------------------------
(***************************************************************************)
(* How one audit reaches its verdict: the exact resolution of requested    *)
(* identities, the coverage and Usage Rules lanes, the UX lane, the design *)
(* system status and the exit code - once as `audit` computes them         *)
(* (evaluate_audit) and once as every later reader recomputes them from    *)
(* the sealed result (derive_audit_exit_code) - and what finalization, the *)
(* readable report and the post-run assessment make of a verdict.          *)
(*                                                                         *)
(* Identities, digests and texts are left out.  A request is the relation  *)
(* its identity has to the pinned catalog; a diagnostic is a Usage Rules   *)
(* rule it reports or some other violation; categories are the component   *)
(* category, which carries the Usage Rules coverage, and the rest.         *)
(***************************************************************************)
EXTENDS FiniteSets, Integers

CONSTANTS Rules,      \* usage rules of the pinned rule snapshot
          Lints,      \* violations that no usage rule stands behind
          UxAreas     \* required areas of the screens and the flow of the target

ASSUME DiagnosticsAssumption == Rules \cap Lints = {}

SourceStatuses == {"stale", "source_unavailable", "source_incomplete"}

Requests == {"exact", "absent", "duplicated", "deprecated", "unapproved"}

Nothing == [none |-> TRUE]

-----------------------------------------------------------------------------
(* The source and the resolver.                                            *)

\* classify_source_state of a complete snapshot by the age of its refresh:
\* 0 is at most 72 hours, 1 less than 168, 2 more.
Classify(available, age) ==
  IF age >= 2 THEN "stale"
  ELSE IF available THEN "fresh"
  ELSE IF age = 0 THEN "offline_grace"
  ELSE "source_unavailable"

\* The source blocks first.  Absence is proven by a fresh snapshot only.
Resolve(request, state) ==
  [request |-> request,
   state |-> state,
   status |->
     IF state \in SourceStatuses THEN state
     ELSE IF request = "absent"
       THEN IF state = "fresh" THEN "missing" ELSE "source_unavailable"
     ELSE IF request = "exact" THEN "allowed"
     ELSE IF request = "duplicated" THEN "ambiguous"
     ELSE IF request = "deprecated" THEN "conflict"
     ELSE "invalid"]

ResolveAll(requests, state) == {Resolve(r, state) : r \in requests}

StatusesOf(resolutions) == {r.status : r \in resolutions}

\* Every missing result carries its fixed sentinel, no other one does.
Sentinels(resolutions) == {r \in resolutions : r.status = "missing"}

-----------------------------------------------------------------------------
(* The coverage of the adapter.                                            *)

Categories == {"components", "others"}

CategoryStatuses == {"allowed", "unsupported", "not_assessed"}

Coverage == [adapter : {"flutter", "figma"}, supported : BOOLEAN, allFiles : BOOLEAN,
             category : [Categories -> CategoryStatuses]]

\* Clean evidence that the caller carried authorizes nothing: Figma's, and
\* every adapter's under a personal pin.
ProjectCoverage(c, personal) ==
  IF c.adapter = "figma" \/ personal
    THEN [c EXCEPT !.category =
            [k \in Categories |-> IF @[k] = "allowed" THEN "not_assessed" ELSE @[k]]]
    ELSE c

CoverageComplete(c) ==
  c.supported /\ c.allFiles /\ \A k \in Categories : c.category[k] = "allowed"

CoverageStatus(c) ==
  IF CoverageComplete(c) THEN "allowed"
  ELSE IF ~c.supported \/ \E k \in Categories : c.category[k] = "unsupported"
    THEN "unsupported"
  ELSE "not_assessed"

-----------------------------------------------------------------------------
(* The UX lane: an observation is the area it checks and its outcome.      *)

\* _evaluate: one check per required area, unobserved ones not assessed.
UxChecks(observed) ==
  [area \in UxAreas |->
     IF area \notin DOMAIN observed THEN "not_assessed"
     ELSE IF observed[area] THEN "allowed" ELSE "gap"]

\* Caller-carried observations keep every gap and lose every positive claim.
TrustedUx(checks) ==
  [area \in UxAreas |-> IF checks[area] = "allowed" THEN "not_assessed" ELSE checks[area]]

\* Nothing is the canonical untrusted lane of an audit without UX evidence.
UxStatus(checks) ==
  IF checks = Nothing THEN "not_assessed"
  ELSE IF \E area \in UxAreas : checks[area] = "gap" THEN "conflict"
  ELSE IF \E area \in UxAreas : checks[area] = "not_assessed" THEN "not_assessed"
  ELSE "allowed"

UxLane(observed) == IF observed = Nothing THEN Nothing ELSE TrustedUx(UxChecks(observed))

\* enforcement_authority_lane: no protected provider is compiled in.
EnforcementStatus == "not_assessed"

-----------------------------------------------------------------------------
(* The Usage Rules evidence of the runner and its lane.                    *)

\* The status that the exact sets of evidence u amount to.
UsageStatusOf(u) ==
  IF u.violated # {} THEN "conflict"
  ELSE IF u.status = "unsupported" THEN "unsupported"
  ELSE IF u.notAssessed # {} THEN "not_assessed"
  ELSE "allowed"

CanonicalUsage(u) ==
  /\ u.assessed \subseteq u.active /\ u.violated \subseteq u.assessed
  /\ u.active \subseteq u.assessed \cup u.notAssessed
  /\ u.assessed \cap u.notAssessed = {}
  /\ u.informative \cap (u.active \cup u.notAssessed) = {}
  /\ u.status \notin SourceStatuses \cup {"invalid"} =>
       /\ u.status = UsageStatusOf(u)
       /\ u.status = "unsupported" => u.assessed = {}

\* _assert_usage_rules_agreement: the lane says what the inherited projection says.
UsageAgrees(u, design, violations, c) ==
  /\ violations \cap Rules = u.violated
  /\ IF u.status \in SourceStatuses \cup {"invalid", "conflict"} THEN design = u.status
     ELSE c.category["components"] = u.status

\* A blocked source takes the lane over, unless its evidence is invalid.
UsageLane(u, design) ==
  [u EXCEPT !.status = IF @ # "invalid" /\ design \in SourceStatuses THEN design ELSE @]

-----------------------------------------------------------------------------
(* The design status and the exit code of audit a, over the source         *)
(* statuses its author saw.                                                *)

DesignViolated(a) ==
  \/ a.violations # {} \/ a.gaps \/ Sentinels(a.resolutions) # {}
  \/ StatusesOf(a.resolutions) \cap {"missing", "ambiguous", "conflict"} # {}

Invalid(a) == "invalid" \in StatusesOf(a.resolutions)

\* _SOURCE_STATUS_ORDER.
Worst(sources) ==
  IF "source_incomplete" \in sources THEN "source_incomplete"
  ELSE IF "source_unavailable" \in sources THEN "source_unavailable"
  ELSE "stale"

DesignStatus(a, sources) ==
  IF Invalid(a) THEN "invalid"
  ELSE IF sources # {} THEN Worst(sources)
  ELSE IF DesignViolated(a) THEN "conflict"
  ELSE IF ~CoverageComplete(a.coverage) THEN CoverageStatus(a.coverage)
  ELSE IF "unsupported" \in StatusesOf(a.resolutions) THEN "unsupported"
  ELSE IF "not_assessed" \in StatusesOf(a.resolutions) THEN "not_assessed"
  ELSE "allowed"

CoverageBlocked(a) ==
  \/ ~CoverageComplete(a.coverage) \/ UxStatus(a.ux) = "not_assessed"
  \/ EnforcementStatus # "allowed"
  \/ StatusesOf(a.resolutions) \cap {"unsupported", "not_assessed"} # {}

UsageIn(a, statuses) == a.usage # Nothing /\ a.usage.status \in statuses

\* _select_exit_code over the inherited lanes and, where there is one, the Usage lane.
ExitCode(a, sources) ==
  IF Invalid(a) \/ UsageIn(a, {"invalid"}) THEN "invalid"
  ELSE IF sources # {} \/ UsageIn(a, SourceStatuses) THEN "source"
  ELSE IF DesignViolated(a) \/ UxStatus(a.ux) = "conflict" \/ UsageIn(a, {"conflict"})
    THEN "violation"
  ELSE IF CoverageBlocked(a) \/ UsageIn(a, {"not_assessed", "unsupported"}) THEN "coverage"
  ELSE "pass"

-----------------------------------------------------------------------------
(* evaluate_audit, for one runner's evidence e.                            *)

SourcesSeen(a, state) == (StatusesOf(a.resolutions) \cup {state}) \cap SourceStatuses

\* The inherited lanes, before the design status and the Usage lane.
Lanes(runner, personal, requests, state, ux) ==
  LET e == runner.evidence IN
  [schema |-> IF e.usage = Nothing THEN 1 ELSE 2,
   runner |-> runner,                           \* analysisAttestationDigest
   coverage |-> ProjectCoverage(e.coverage, personal),
   violations |-> e.violations, gaps |-> e.gaps,
   resolutions |-> ResolveAll(requests, state), ux |-> ux,
   design |-> "not_assessed", usage |-> Nothing, ready |-> FALSE]

Evaluated(runner, personal, requests, state, ux) ==
  LET bare == Lanes(runner, personal, requests, state, ux)
      design == DesignStatus(bare, SourcesSeen(bare, state))
      u == runner.evidence.usage
      full == [bare EXCEPT !.design = design,
                           !.usage = IF u = Nothing THEN Nothing ELSE UsageLane(u, design)]
  IN [full EXCEPT !.ready = ExitCode(full, SourcesSeen(full, state)) = "pass"]

EvaluateCode(a, state) == ExitCode(a, SourcesSeen(a, state))

\* The evaluation is refused when the Usage lane disagrees with the rest of it.
Agrees(a) ==
  a.usage # Nothing =>
    CanonicalUsage(a.usage) /\ UsageAgrees(a.usage, a.design, a.violations, a.coverage)

-----------------------------------------------------------------------------
(* derive_audit_exit_code: recomputed from the sealed result alone.        *)

SourcesSealed(a) == (StatusesOf(a.resolutions) \cup {a.design}) \cap SourceStatuses

DeriveCode(a) == ExitCode(a, SourcesSealed(a))

Derivable(a) ==
  /\ a.coverage = ProjectCoverage(a.coverage, FALSE)
  /\ a.ux # Nothing => a.ux = TrustedUx(a.ux)
  /\ a.design = DesignStatus(a, SourcesSealed(a))
  /\ a.schema = 2 => Agrees(a) /\ a.ready = (DeriveCode(a) = "pass")

\* project_audit_result_v1 drops the Usage lane.
V1(a) == [a EXCEPT !.schema = 1, !.usage = Nothing]

-----------------------------------------------------------------------------
(* What finalization and its reports make of an audit.                     *)

\* A blocking state of the source at completion replaces the design status
\* and the status of the Usage lane; nothing is ready any more.
Override(a, state) ==
  IF state \in SourceStatuses
    THEN [a EXCEPT !.design = state, !.ready = FALSE,
                   !.usage = IF @ = Nothing THEN @ ELSE [@ EXCEPT !.status = state]]
    ELSE a

AllowedResolutions(a) == {r \in a.resolutions : r.status = "allowed"}

\* What a caller may claim of its build plan.
PlanClaims == {"none", "ready", "unready"}

\* The build plan selects exactly the allowed resolutions and carries exactly
\* the sentinels; a sentinel or a claim not to be ready makes it a violation.
Plan(a) == [selections |-> AllowedResolutions(a), sentinels |-> Sentinels(a.resolutions)]

PlanCode(a, plan) ==
  IF plan = "unready" \/ (plan = "ready" /\ Sentinels(a.resolutions) # {})
    THEN "violation" ELSE "pass"

Severity(code) ==
  CASE code = "pass" -> 0 [] code = "violation" -> 1 [] code = "coverage" -> 2
    [] code = "source" -> 3 [] code = "invalid" -> 4

Combine(x, y) == IF Severity(x) >= Severity(y) THEN x ELSE y

\* _next_action of the readable report.
NextAction(a) ==
  IF a.design \in SourceStatuses \cup {"invalid"} THEN <<"design", a.design>>
  ELSE IF a.violations # {} THEN <<"fix violations">>
  ELSE IF a.gaps \/ Sentinels(a.resolutions) # {} THEN <<"request assets">>
  ELSE IF a.design = "conflict" THEN <<"resolve conflicts">>
  ELSE IF a.usage # Nothing /\ a.usage.status # "allowed" THEN <<"usage", a.usage.status>>
  ELSE IF ~CoverageComplete(a.coverage) THEN <<"complete coverage">>
  ELSE IF a.design # "allowed" THEN <<"complete the design assessment">>
  ELSE IF UxStatus(a.ux) # "allowed" THEN <<"ux", UxStatus(a.ux)>>
  ELSE IF EnforcementStatus # "allowed" THEN <<"protected authority">>
  ELSE IF a.ready THEN <<"none">> ELSE <<"resolve the remaining lane">>

Report(a) == [audit |-> a, next |-> NextAction(a)]

When(condition, reason) == IF condition THEN {reason} ELSE {}

\* The reasons of the post-run assessment, each with whom it is attributed to.
ResolutionReason(status) ==
  <<status, CASE status \in {"missing", "ambiguous", "conflict"} -> "design_system"
              [] status = "invalid" -> "project_implementation"
              [] status = "unsupported" -> "capability_candidate"
              [] status \in SourceStatuses -> "source"
              [] status = "not_assessed" -> "project_configuration">>

DesignReasons(a) ==
  LET statuses == StatusesOf(a.resolutions) IN
  When(a.violations # {}, <<"violation", "project_implementation">>)
    \cup When(a.gaps, <<"gap", "design_system">>)
    \cup {ResolutionReason(s) : s \in statuses \ {"allowed"}}
    \cup When(a.design \in SourceStatuses, <<"design", "source">>)
    \cup When(a.design = "unsupported", <<"design", "capability_candidate">>)
    \cup When(a.design = "not_assessed", <<"design", "project_configuration">>)
    \cup When(a.design = "invalid" /\ a.violations = {} /\ "invalid" \notin statuses,
              <<"design", "project_implementation">>)
    \cup When(a.design = "conflict" /\ "conflict" \notin statuses,
              <<"design", "project_configuration">>)

LaneReasons(a) ==
  When(CoverageStatus(a.coverage) = "unsupported", <<"coverage", "capability_candidate">>)
    \cup When(CoverageStatus(a.coverage) = "not_assessed", <<"coverage", "project_configuration">>)
    \cup When(UxStatus(a.ux) = "conflict", <<"ux", "project_implementation">>)
    \cup When(UxStatus(a.ux) = "not_assessed", <<"ux", "capability_candidate">>)
    \cup When(EnforcementStatus = "not_assessed", <<"enforcement", "capability_candidate">>)

UsageReasons(a) ==
  IF a.usage = Nothing THEN {}
  ELSE {<<r, "project_implementation">> : r \in a.usage.violated}
         \cup {<<r, "project_configuration">> : r \in a.usage.notAssessed}
         \cup When(a.usage.status = "unsupported", <<"usage", "capability_candidate">>)
         \cup When(a.usage.status = "invalid", <<"usage", "project_implementation">>)
         \cup When(a.usage.status \in SourceStatuses, <<"usage", "source">>)

PostRun(a, exit) ==
  LET reasons == DesignReasons(a) \cup LaneReasons(a) \cup UsageReasons(a) IN
  [exit |-> exit, reasons |-> reasons,
   review |-> \E r \in reasons : r[2] = "capability_candidate"]
=============================================================================
