---------------------------- MODULE RunLifecycle ----------------------------
(***************************************************************************)
(* The evidence of one pinned run, from the audit that attests it over the *)
(* finalization that seals it to the judgment assessment that reopens it,  *)
(* one step per file operation, with several commands at a time, a project *)
(* that is edited while they run, a source that ages, and crashes.         *)
(*                                                                         *)
(* A digest stands for what it is the digest of.  A tree is the state of   *)
(* the project's sources; its contents are fixed, so an edit that is undone*)
(* gives back the same digest.                                             *)
(***************************************************************************)
EXTENDS JudgmentAssessment, Sequences

CONSTANTS Procs,          \* processes that run Guardian commands
          Pins,           \* pins a run may have been sealed with, at which age
          TreeNames,      \* states the project's sources may be in
          Contents,       \* [TreeNames -> Trees]
          Observations,   \* Figma observations a caller may carry
          RequestSets,    \* sets of requests a caller may ask for
          UxInputs,       \* UX observations, or Nothing for an old audit request
          Plans,          \* what callers claim of their build plans
          CandidateSets,  \* candidate results for the judgment rules
          MaxTicks, MaxCommands, MaxMishaps    \* bounds

ASSUME LifecycleAssumption ==
  /\ \A q \in Pins : q.age \in Nat
  /\ Contents \in [TreeNames -> Trees]
  /\ Observations \subseteq FigmaObservations
  /\ RequestSets \subseteq SUBSET Requests /\ Plans \subseteq PlanClaims
  /\ MaxTicks \in Nat /\ MaxCommands \in Nat /\ MaxMishaps \in Nat

VARIABLES pin,          \* the sealed run pin
          authorized,   \* an owner approved evaluator v2
          now,          \* the age of the pinned snapshot, see Classify
          tree,         \* the project's sources
          bound,        \* profile, selection, root and commit are as pinned
          files,        \* the artifacts of the run
          emitted,      \* audit results that were handed to the caller
          pc, ctx, todo,          \* each process: phase, inputs, files to write
          budget        \* commands and mishaps (edits, approvals, faults) left

run == <<pin, authorized, now, tree, bound>>
procs == <<pc, ctx, todo>>
vars == <<run, files, emitted, procs, budget>>

Kinds == {"analysis-attestation", "audit-result", "coverage", "build-plan",
          "readable-report", "run-manifest", "post-run-assessment", "judgment-assessment"}

\* A file that is not there and one whose writing was interrupted; no
\* artifact looks like either.
Absent == [file |-> "absent"]
Torn == [file |-> "torn"]

Readable(kind) == files[kind] \notin {Absent, Torn}

Attestation == files["analysis-attestation"]
Manifest == files["run-manifest"]
SealedAudit == files["audit-result"]

State == Classify(pin.available, now)

Schema == ConfigSchema(pin, authorized)

-----------------------------------------------------------------------------
Init ==
  /\ pin \in Pins /\ authorized \in BOOLEAN /\ now = pin.age
  /\ authorized => pin.schema = 2
  /\ tree \in TreeNames /\ bound = TRUE
  /\ files = [k \in Kinds |-> Absent] /\ emitted = {}
  /\ pc = [p \in Procs |-> "idle"]
  /\ ctx = [p \in Procs |-> Nothing] /\ todo = [p \in Procs |-> <<>>]
  /\ budget = [commands |-> MaxCommands, mishaps |-> MaxMishaps]

Spend(what) == budget[what] > 0 /\ budget' = [budget EXCEPT ![what] = @ - 1]

\* Process p goes on to a phase with its inputs and the files it has to write.
Go(p, phase, inputs, writes) ==
  /\ pc' = [pc EXCEPT ![p] = phase]
  /\ ctx' = [ctx EXCEPT ![p] = inputs]
  /\ todo' = [todo EXCEPT ![p] = writes]

End(p) == Go(p, "idle", Nothing, <<>>)

Command(p) == pc[p] = "idle" /\ Spend("commands")

-----------------------------------------------------------------------------
(* The audit.                                                              *)

AttestationOf(a, ux) == [runner |-> a.runner, ux |-> ux, v1 |-> V1(a)]

\* The verdict of one runner's evidence, refused unless its lanes agree and
\* the result can be recomputed; the attestation is written before the
\* result is handed out.
Evaluate(p, runner, inputs) ==
  LET a == Evaluated(runner, pin.personal, inputs.requests, State, UxLane(inputs.ux)) IN
  IF bound /\ Agrees(a) /\ Derivable(a)
    THEN Go(p, "writing", [emit |-> a],
            <<<<"analysis-attestation", AttestationOf(a, inputs.ux)>>>>)
    ELSE End(p)

\* Flutter: the sources are listed with their digests first ...
AuditFlutter(p, requests, ux) ==
  /\ Command(p) /\ bound /\ Configurable(pin, authorized)
  /\ Go(p, "scanning",
        [requests |-> requests, ux |-> ux, before |-> tree, schema |-> Schema], <<>>)
  /\ UNCHANGED <<run, files, emitted>>

\* ... then searched for suppressions ...
Scan(p) ==
  /\ pc[p] = "scanning"
  /\ Go(p, "staging",
        [requests |-> ctx[p].requests, ux |-> ctx[p].ux, before |-> ctx[p].before,
         schema |-> ctx[p].schema, scanned |-> tree], <<>>)
  /\ UNCHANGED <<run, files, emitted, budget>>

\* ... copied as they are by now ...
Stage(p) ==
  /\ pc[p] = "staging"
  /\ Go(p, "analyzing",
        [requests |-> ctx[p].requests, ux |-> ctx[p].ux, before |-> ctx[p].before,
         schema |-> ctx[p].schema, scanned |-> ctx[p].scanned, staged |-> tree], <<>>)
  /\ UNCHANGED <<run, files, emitted, budget>>

\* What is analyzed: the copy, with the suppressions of the project itself.
Analyzed(inputs) ==
  [Contents[inputs.staged] EXCEPT !.suppressed = Contents[inputs.scanned].suppressed]

Runner(inputs) ==
  LET raw == RunnerResult(Analyzed(inputs), inputs.schema) IN
  [tree |-> inputs.before, schema |-> inputs.schema, raw |-> raw,
   evidence |-> FlutterEvidence(raw, inputs.schema)]

\* ... and listed again after the analysis of the copy.
Analyze(p) ==
  /\ pc[p] = "analyzing"
  /\ IF /\ tree = ctx[p].before /\ Analyzable(Analyzed(ctx[p]))
        /\ Normalizable(RunnerResult(Analyzed(ctx[p]), ctx[p].schema), ctx[p].schema)
       THEN Evaluate(p, Runner(ctx[p]), ctx[p])
       ELSE End(p)
  /\ UNCHANGED <<run, files, emitted, budget>>

\* Figma: the caller carries the observation; no source tree is involved.
FigmaRunner(o) == [tree |-> "figma", schema |-> 1, raw |-> o, evidence |-> FigmaEvidence(o)]

AuditFigma(p, requests, ux, o) ==
  /\ Command(p) /\ bound /\ FigmaAccepts(pin, o) /\ ux # Nothing
  /\ Evaluate(p, FigmaRunner(o), [requests |-> requests, ux |-> ux])
  /\ UNCHANGED <<run, files, emitted>>

-----------------------------------------------------------------------------
(* Finalization.                                                           *)

\* The caller brings an audit result: one that was handed out, its v1
\* projection, or one for other requests about the same evidence.
Claims ==
  LET requested(a, requests) ==
        Evaluated(a.runner, pin.personal, requests, State, a.ux)
  IN emitted \cup {V1(a) : a \in emitted}
       \cup {requested(a, requests) : a \in emitted, requests \in RequestSets}

\* A persisted manifest is completed as of its own time; its plan is needed again.
Finalize(p, claim, plan) ==
  /\ Command(p) /\ Manifest # Torn
  /\ Readable("run-manifest") => Manifest.planned = (plan # "none")
  /\ Go(p, "checking",
        [claim |-> claim, plan |-> plan,
         completed |-> IF Readable("run-manifest") THEN Manifest.completed ELSE now], <<>>)
  /\ UNCHANGED <<run, files, emitted>>

Finalization(p) ==
  /\ pc[p] = "idle"
  /\ \E claim \in Claims, plan \in Plans : Finalize(p, claim, plan)

\* The identities are resolved again as of now, not as of the completion.
ResolvesAgain(a) == \A r \in a.resolutions : r = Resolve(r.request, State)

\* The configuration is generated again, under today's authorization.
ConfigStands(a) ==
  pin.adapter = "flutter" => Configurable(pin, authorized) /\ a.runner.schema = Schema

EvidenceOf(runner) ==
  IF pin.adapter = "flutter" THEN FlutterEvidence(runner.raw, runner.schema)
  ELSE FigmaEvidence(runner.raw)

\* A slip: the attested v1 projection is not compared.
Mut_AttestationHoldsUnbound(a) ==
  /\ Readable("analysis-attestation")
  /\ Attestation.runner = a.runner
  /\ a.runner.evidence = EvidenceOf(a.runner)
  /\ a.coverage = ProjectCoverage(a.runner.evidence.coverage, pin.personal)
  /\ a.violations = a.runner.evidence.violations
  /\ a.ux = UxLane(Attestation.ux)
  /\ pin.adapter = "flutter" => tree = a.runner.tree

\* verify_analysis_attestation: everything is rebuilt from the raw evidence;
\* Flutter sources must still be the attested ones.
AttestationHolds(a) ==
  /\ Readable("analysis-attestation")
  /\ Attestation.runner = a.runner /\ Attestation.v1 = V1(a)
  /\ a.runner.evidence = EvidenceOf(a.runner)
  /\ a.coverage = ProjectCoverage(a.runner.evidence.coverage, pin.personal)
  /\ a.violations = a.runner.evidence.violations
  /\ a.ux = UxLane(Attestation.ux)
  /\ pin.adapter = "flutter" => tree = a.runner.tree

\* A result of schema 2 carries the Usage lane of the sealed evidence.
UsageLaneSealed(a) ==
  a.schema = 2 => a.usage = UsageLane(a.runner.evidence.usage, a.design)

CompletedAudit(inputs) ==
  Override(inputs.claim, Classify(pin.available, inputs.completed))

FinalCode(a, plan) == Combine(DeriveCode(a), PlanCode(a, plan))

\* The readiness of the sealed audit is the final code's.
SealedFrom(inputs) ==
  [CompletedAudit(inputs) EXCEPT
     !.ready = FinalCode(CompletedAudit(inputs), inputs.plan) = "pass"]

Acceptable(inputs) ==
  LET a == inputs.claim IN
  /\ bound /\ ResolvesAgain(a) /\ Derivable(a) /\ ConfigStands(a)
  /\ AttestationHolds(a) /\ UsageLaneSealed(a)
  /\ Derivable(CompletedAudit(inputs))

CoverageOf(a) == [coverage |-> a.coverage, usage |-> a.usage]

ManifestOf(a, inputs) ==
  [attestation |-> Attestation, audit |-> a, planned |-> inputs.plan # "none",
   completed |-> inputs.completed, exit |-> FinalCode(a, inputs.plan)]

\* A slip: the manifest is stored before the readable report.
Mut_WritesManifestEarly(a, inputs) ==
  LET m == ManifestOf(a, inputs) IN
  <<<<"audit-result", a>>, <<"coverage", CoverageOf(a)>>>>
    \o (IF inputs.plan # "none" THEN <<<<"build-plan", Plan(a)>>>> ELSE <<>>)
    \o <<<<"run-manifest", m>>, <<"readable-report", Report(a)>>,
         <<"post-run-assessment", PostRun(a, m.exit)>>>>

Writes(a, inputs) ==
  LET m == ManifestOf(a, inputs) IN
  <<<<"audit-result", a>>, <<"coverage", CoverageOf(a)>>>>
    \o (IF inputs.plan # "none" THEN <<<<"build-plan", Plan(a)>>>> ELSE <<>>)
    \o <<<<"readable-report", Report(a)>>, <<"run-manifest", m>>,
         <<"post-run-assessment", PostRun(a, m.exit)>>>>

\* Every file is derived from the checked claim before the first is stored.
Check(p) ==
  /\ pc[p] = "checking"
  /\ IF Acceptable(ctx[p])
       THEN Go(p, "writing", [emit |-> Nothing], Writes(SealedFrom(ctx[p]), ctx[p]))
       ELSE End(p)
  /\ UNCHANGED <<run, files, emitted, budget>>

-----------------------------------------------------------------------------
(* The judgment assessment of a finalized run.                             *)

\* _reopen_context: all sealed evidence still fits together and the project.
Reopened ==
  /\ bound /\ authorized /\ pin.schema = 2
  /\ \A k \in {"analysis-attestation", "audit-result", "run-manifest"} : Readable(k)
  /\ Manifest.attestation = Attestation /\ Manifest.audit = SealedAudit
  /\ ConfigStands(SealedAudit) /\ Derivable(SealedAudit)
  /\ AttestationHolds(SealedAudit)

AssessmentOf(candidates) == Assessment(Attestation, SealedAudit, candidates)

\* The owner approves the exact assessment; its decisions are JudgmentHistory's.
Judge(p, candidates) ==
  /\ Command(p) /\ Reopened
  /\ CandidatesAccepted(Attestation, candidates) /\ Decidable(AssessmentOf(candidates))
  /\ Go(p, "writing", [emit |-> Nothing],
        <<<<"judgment-assessment", AssessmentOf(candidates)>>>>)
  /\ UNCHANGED <<run, files, emitted>>

-----------------------------------------------------------------------------
(* Create-once files.                                                      *)

Kind(p) == Head(todo[p])[1]
Payload(p) == Head(todo[p])[2]

Written(p) ==
  /\ pc' = [pc EXCEPT ![p] = "writing"]
  /\ todo' = [todo EXCEPT ![p] = Tail(@)]
  /\ UNCHANGED ctx

\* An existing file is accepted when it says the same.
Differs(p) == files[Kind(p)] # Absent /\ files[Kind(p)] # Payload(p)

Create(p) ==
  /\ pc[p] = "writing" /\ todo[p] # <<>>
  /\ IF Differs(p) THEN End(p) /\ UNCHANGED files
     ELSE IF files[Kind(p)] = Absent
       THEN /\ files' = [files EXCEPT ![Kind(p)] = Torn]
            /\ pc' = [pc EXCEPT ![p] = "filling"]
            /\ UNCHANGED <<ctx, todo>>
     ELSE Written(p) /\ UNCHANGED files
  /\ UNCHANGED <<run, emitted, budget>>

Fill(p) ==
  /\ pc[p] = "filling"
  /\ files' = [files EXCEPT ![Kind(p)] = Payload(p)]
  /\ Written(p)
  /\ UNCHANGED <<run, emitted, budget>>

\* The audit prints its result when the attestation stands.
Done(p) ==
  /\ pc[p] = "writing" /\ todo[p] = <<>>
  /\ emitted' = emitted \cup (IF ctx[p].emit = Nothing THEN {} ELSE {ctx[p].emit})
  /\ End(p)
  /\ UNCHANGED <<run, files, budget>>

\* A failed write removes its file again, except for the readable report.
FillFails(p) ==
  /\ pc[p] = "filling" /\ Spend("mishaps")
  /\ files' = [files EXCEPT ![Kind(p)] = IF Kind(p) = "readable-report" THEN Torn ELSE Absent]
  /\ End(p)
  /\ UNCHANGED <<run, emitted>>

Crash(p) ==
  /\ pc[p] # "idle" /\ Spend("mishaps")
  /\ End(p)
  /\ UNCHANGED <<run, files, emitted>>

-----------------------------------------------------------------------------
(* The surroundings.                                                       *)

Tick ==
  /\ now < pin.age + MaxTicks /\ now' = now + 1
  /\ UNCHANGED <<pin, authorized, tree, bound, files, emitted, procs, budget>>

Edit(t) ==
  /\ t # tree /\ Spend("mishaps") /\ tree' = t
  /\ UNCHANGED <<pin, authorized, now, bound, files, emitted, procs>>

\* The profile, the selection or the commit changes, or is as pinned again.
Rebind ==
  /\ Spend("mishaps") /\ bound' = ~bound
  /\ UNCHANGED <<pin, authorized, now, tree, files, emitted, procs>>

\* EvaluatorUpgrade: approval for the profile, whatever its runs are doing.
Authorize ==
  /\ ~authorized /\ pin.schema = 2 /\ authorized' = TRUE
  /\ Spend("mishaps")
  /\ UNCHANGED <<pin, now, tree, bound, files, emitted, procs>>

Audit(p) ==
  \E requests \in RequestSets, ux \in UxInputs :
    \/ AuditFlutter(p, requests, ux)
    \/ \E o \in Observations : AuditFigma(p, requests, ux, o)

Next ==
  \/ \E p \in Procs :
       \/ Audit(p) \/ Scan(p) \/ Stage(p) \/ Analyze(p)
       \/ Finalization(p) \/ Check(p)
       \/ \E candidates \in CandidateSets : Judge(p, candidates)
       \/ Create(p) \/ Fill(p) \/ Done(p) \/ FillFails(p) \/ Crash(p)
  \/ Tick \/ (\E t \in TreeNames : Edit(t)) \/ Rebind \/ Authorize

Spec == Init /\ [][Next]_vars

-----------------------------------------------------------------------------
(* Correctness.                                                            *)

TypeOK ==
  /\ pin \in Pins /\ authorized \in BOOLEAN /\ now \in pin.age..(pin.age + MaxTicks)
  /\ tree \in TreeNames /\ bound \in BOOLEAN
  /\ DOMAIN files = Kinds
  /\ pc \in [Procs -> {"idle", "scanning", "staging", "analyzing", "checking", "writing",
                      "filling"}]

\* The parts of a sealed run agree: the manifest names artifacts that are
\* there and say what it names; the sealed audit is the attested one, with at
\* most its status replaced by a source that blocked at completion; and its
\* exit code is that audit's, is never a pass and never milder than attested.
ManifestStands ==
  Readable("run-manifest") =>
    LET m == Manifest IN
    /\ Readable("analysis-attestation") /\ m.attestation = Attestation
    /\ SealedAudit = m.audit /\ files["coverage"] = CoverageOf(m.audit)
    /\ files["readable-report"] = Report(m.audit)
    /\ m.planned => files["build-plan"] = Plan(m.audit)
    /\ V1(m.audit) = Override(Attestation.v1, Classify(pin.available, m.completed))
    /\ m.exit = DeriveCode(m.audit) /\ m.exit # "pass" /\ ~m.audit.ready
    /\ Severity(m.exit) >= Severity(DeriveCode(Attestation.v1))

\* The post-run assessment speaks of the manifest that is there.
AssessmentStands ==
  Readable("post-run-assessment") =>
    /\ Readable("run-manifest")
    /\ files["post-run-assessment"] = PostRun(Manifest.audit, Manifest.exit)

\* Judgment is passed on a finalized run only whose source did not expire and
\* that no violation, gap in coverage or usage rule blocks.
JudgmentStands ==
  Readable("judgment-assessment") =>
    /\ Readable("run-manifest") /\ V1(SealedAudit) = Attestation.v1
    /\ Decidable(files["judgment-assessment"])
    /\ SealedAudit.violations = {}
    /\ SealedAudit.usage # Nothing =>
         SealedAudit.usage.violated \cup SealedAudit.usage.notAssessed = {}

\* What a reader of the run's artifacts may rely on, at every moment and
\* after every interruption (run_artifacts.py, finalize.py, post_run.py,
\* judgment_decisions.py).
RunInv == TypeOK /\ ManifestStands /\ AssessmentStands /\ JudgmentStands

Code(kind, code) == IF Readable(kind) THEN code ELSE "none"

Register ==
  INSTANCE RunRegister WITH
    Verdicts <- {"violation", "coverage", "source", "invalid", "pass"}, Blocked <- "source",
    attested <- Code("analysis-attestation", DeriveCode(Attestation.v1)),
    sealed <- Code("run-manifest", Manifest.exit),
    assessed <- Readable("post-run-assessment")

\* The evidence of a run is given once and in order: attested, sealed with
\* the attested verdict or a blocked source, assessed (finalize.py:212-346).
ImplementsRegister == Register!Spec

-----------------------------------------------------------------------------
(* What the documentation says of sources that change during an analysis.  *)

\* The attested analysis is that of the attested tree: "rejects source or
\* analyzer-input changes during the run" (adapters/flutter/README.md:82).
AnalyzedAsAttested ==
  Readable("analysis-attestation") /\ pin.adapter = "flutter" =>
    Attestation.runner.raw =
      RunnerResult(Contents[Attestation.runner.tree], Attestation.runner.schema)

\* Nobody edits the sources while a command is between listing and copying them.
UndisturbedSpec ==
  Init /\ [][Next /\ ((\E p \in Procs : pc[p] \in {"scanning", "staging"}) => tree' = tree)]_vars
=============================================================================
