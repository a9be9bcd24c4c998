--------------------------- MODULE FlutterAnalysis ---------------------------
(***************************************************************************)
(* The Flutter adapter: which usage rules the pinned configuration         *)
(* compiles, what the analyzer reports of a staged tree, and the evidence  *)
(* that normalization derives from it, for the audit and once more for     *)
(* every later check of the sealed runner evidence.                        *)
(*                                                                         *)
(* A tree is what the analyzer finds in it: lints, broken rules, rules it  *)
(* cannot decide, attempted suppressions, and whether every unit compiles. *)
(* A pin tells the schema of its snapshot and whether the snapshot's rules *)
(* are valid.  Toolchain, packages and dependencies are not modelled.      *)
(***************************************************************************)
EXTENDS AuditVerdict

CONSTANT Class      \* [Rules -> class], see Classes

\* "newer" are machine rules whose predicate only evaluator v2 supports,
\* "unmapped" machine rules whose identity has no approved constructor.
Classes == {"machine", "newer", "unmapped", "judgment", "informative"}

ASSUME ClassAssumption == Class \in [Rules -> Classes]

Trees == [lints : SUBSET Lints, broken : SUBSET Rules, unsure : SUBSET Rules,
          suppressed : BOOLEAN, compiles : BOOLEAN]

-----------------------------------------------------------------------------
(* The pinned configuration.                                               *)

OfClass(classes) == {r \in Rules : Class[r] \in classes}

\* An approved authorization makes rule snapshots run under evaluator v2.
ConfigSchema(pin, authorized) ==
  IF pin.schema = 2 /\ authorized THEN 3 ELSE pin.schema

\* Without it the rules must have been validated completely.
Configurable(pin, authorized) ==
  pin.adapter = "flutter" /\ (pin.schema = 2 => pin.valid \/ authorized)

Active(schema) ==
  CASE schema = 1 -> {}
    [] schema = 2 -> OfClass({"machine"})
    [] schema = 3 -> OfClass({"machine", "newer"})

\* Every gating rule that is not compiled, the judgment rules among them.
Inactive(schema) ==
  IF schema = 1 THEN {} ELSE OfClass(Classes \ {"informative"}) \ Active(schema)

Informative(schema) == IF schema = 1 THEN {} ELSE OfClass({"informative"})

-----------------------------------------------------------------------------
(* run_flutter_analysis: the analyzer's output for one staged tree.        *)

Reported(content, schema) == content.lints \cup (content.broken \cap Active(schema))

\* Only evaluator v2 marks active rules that it cannot decide.
Markers(content, schema) ==
  IF schema = 3 THEN content.unsure \cap Active(schema) ELSE {}

Incomplete(markers, schema) == Inactive(schema) # {} \/ markers # {}

\* A unit without its attestation, or an analyzer error, refuses the run.
Analyzable(content) == content.compiles

RunnerResult(content, schema) ==
  LET reported == Reported(content, schema)
      markers == Markers(content, schema)
  IN [reported |-> reported, markers |-> markers, suppressed |-> content.suppressed,
      components |-> IF Incomplete(markers, schema) THEN "not_assessed" ELSE "allowed",
      ready |-> /\ reported = {} /\ ~content.suppressed
                /\ ~Incomplete(markers, schema)]

-----------------------------------------------------------------------------
(* normalize_flutter_adapter_result.                                       *)

\* _build_usage_rules_evidence, for configurations of evaluator v2 only.
UsageEvidence(raw, schema) ==
  IF schema # 3 THEN Nothing
  ELSE LET violated == raw.reported \cap Rules
           notAssessed == Inactive(schema) \cup (raw.markers \ violated)
       IN [status |-> IF violated # {} THEN "conflict"
                      ELSE IF notAssessed # {} THEN "not_assessed" ELSE "allowed",
           active |-> Active(schema), assessed |-> Active(schema) \ notAssessed,
           violated |-> violated, informative |-> Informative(schema),
           notAssessed |-> notAssessed]

\* A suppression is a violation of its own.
Violations(raw) == raw.reported \cup (IF raw.suppressed THEN {"suppression"} ELSE {})

ReadyExpected(raw, schema) ==
  LET u == UsageEvidence(raw, schema) IN
  /\ raw.components = "allowed" /\ Violations(raw) = {}
  /\ u # Nothing => u.status = "allowed"

Normalizable(raw, schema) ==
  /\ raw.markers # {} => schema = 3
  /\ schema = 3 => (raw.reported \cap Rules) \cup raw.markers \subseteq Active(schema)
  /\ raw.ready = ReadyExpected(raw, schema)

FlutterEvidence(raw, schema) ==
  [coverage |-> [adapter |-> "flutter", supported |-> TRUE, allFiles |-> TRUE,
                 category |-> [k \in Categories |->
                    IF k = "components" THEN raw.components
                    ELSE IF schema = 1 THEN raw.components ELSE "allowed"]],
   violations |-> Violations(raw), gaps |-> FALSE, usage |-> UsageEvidence(raw, schema)]
=============================================================================
