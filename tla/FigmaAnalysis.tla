---------------------------- MODULE FigmaAnalysis ----------------------------
(***************************************************************************)
(* The Figma adapter: which collector observations it accepts under a pin, *)
(* the violations it finds in them and the evidence it hands to the audit. *)
(* What the collector carried proves violations, never compliance.         *)
(*                                                                         *)
(* An observation tells its status, source, document and completeness and  *)
(* the items that were read back: each a place, its category and kind, the *)
(* identity it names and whether its binding is exactly the approved one.  *)
(* A pin is valid when every approved token of its snapshot carries exact  *)
(* binding metadata.                                                       *)
(***************************************************************************)
EXTENDS AuditVerdict

CONSTANTS Tokens,       \* approved token identities
          Assets,       \* approved component and icon identities
          Documents,    \* documents of the pinned source cut, at their version
          Target        \* the document that a personal pin selected

ASSUME IdentityAssumption == Tokens \cap Assets = {}

ItemCategories == {"components", "icons", "others"}

ItemKinds == {"variable", "style", "asset", "raw", "unassessed"}

ObservationStatuses == {"allowed", "unsupported"} \cup SourceStatuses

Items == [at : Lints, category : ItemCategories, kind : ItemKinds,
          identity : Tokens \cup Assets \cup {"unapproved"}, exact : BOOLEAN]

FigmaObservations ==
  [status : ObservationStatuses, source : {"pinned", "other"},
   document : Documents \cup {"other"}, complete : BOOLEAN, items : SUBSET Items]

-----------------------------------------------------------------------------
(* What is refused.                                                        *)

\* The source must be the pinned one, available and complete, and the
\* collector must not have reported otherwise.
SourceAccepted(pin, o) ==
  pin.available /\ o.source = "pinned" /\ o.status \notin SourceStatuses

DocumentAccepted(pin, o) ==
  o.document \in Documents /\ (pin.personal => o.document = Target)

\* Completeness must fit the status; a clean personal read-back is not empty.
ReadbackAccepted(pin, o) ==
  /\ o.status = "allowed" => o.complete /\ (pin.personal => o.items # {})
  /\ o.status = "unsupported" => ~o.complete /\ o.items = {}

\* One observation per node field and category; an asset is a component or an icon.
ItemsAccepted(o) ==
  /\ \A i, j \in o.items : i.at = j.at /\ i.category = j.category => i = j
  /\ \A i \in o.items : i.kind = "asset" => i.category \in {"components", "icons"}

\* The configuration is built before the observation is looked at.
FigmaAccepts(pin, o) ==
  /\ pin.adapter = "figma" /\ pin.valid
  /\ SourceAccepted(pin, o) /\ DocumentAccepted(pin, o)
  /\ ReadbackAccepted(pin, o) /\ ItemsAccepted(o)

-----------------------------------------------------------------------------
(* What is reported.                                                       *)

\* An equal raw value is not a binding, even with an inferred match.
Violating(i) ==
  CASE i.kind = "raw" -> TRUE
    [] i.kind \in {"variable", "style"} -> i.identity \notin Tokens \/ ~i.exact
    [] i.kind = "asset" -> i.identity \notin Assets \/ ~i.exact
    [] i.kind = "unassessed" -> FALSE

\* Every category stays unassessed however clean the items are.
FigmaEvidence(o) ==
  LET supported == o.status # "unsupported" IN
  [coverage |-> [adapter |-> "figma", supported |-> supported, allFiles |-> o.complete,
                 category |-> [k \in Categories |->
                    IF supported THEN "not_assessed" ELSE "unsupported"]],
   violations |-> {i.at : i \in {j \in o.items : Violating(j)}},
   gaps |-> FALSE, usage |-> Nothing]

\* _occurrences of a judgment assessment: a complete read-back only.
HasInventory(o) == o.status # "unsupported" /\ o.complete
=============================================================================
