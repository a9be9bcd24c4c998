---------------------------- MODULE MCRunLifecycle ----------------------------
(* An instance of RunLifecycle: pins of every kind, trees that are clean     *)
(* or broken, and claims of every sort.                                      *)
EXTENDS RunLifecycle, TLC

MCRules == {"machine rule", "newer rule"}

\* Every rule can be assessed once evaluator v2 is authorized.
MCClass == ("machine rule" :> "machine") @@ ("newer rule" :> "newer")

MCAppliesTo == [r \in JudgmentRules |-> [kind |-> "system"]]

MCLints == {"lint", "suppression", "node"}

Tree(lints, broken, unsure, suppressed, compiles) ==
  [lints |-> lints, broken |-> broken, unsure |-> unsure,
   suppressed |-> suppressed, compiles |-> compiles]

MCContents ==
  ("clean" :> Tree({}, {}, {}, FALSE, TRUE))
    @@ ("broken" :> Tree({"lint"}, {"machine rule"}, {"newer rule"}, TRUE, TRUE))

Pin(adapter, personal, available, age, schema, valid) ==
  [adapter |-> adapter, personal |-> personal, available |-> available, age |-> age,
   schema |-> schema, valid |-> valid]

MCPins == {Pin("flutter", FALSE, TRUE, 1, 2, FALSE), Pin("flutter", FALSE, FALSE, 0, 2, TRUE),
           Pin("figma", TRUE, TRUE, 1, 1, TRUE)}

Item(at, category, kind, identity, exact) ==
  [at |-> at, category |-> category, kind |-> kind, identity |-> identity, exact |-> exact]

Observation(status, source, document, complete, items) ==
  [status |-> status, source |-> source, document |-> document,
   complete |-> complete, items |-> items]

MCObservations ==
  {Observation("allowed", "pinned", "target", TRUE,
               {Item("node", "components", "asset", "asset", TRUE)}),
   Observation("allowed", "pinned", "target", TRUE,
               {Item("node", "others", "variable", "token", FALSE)}),
   Observation("unsupported", "pinned", "target", FALSE, {})}

MCRequestSets == {{}, {"exact", "absent"}}

MCUxInputs == {Nothing, "flow" :> FALSE}

MCCandidateSets == {<<>>}

\* The processes are interchangeable; no liveness is checked here.
ProcSymmetry == Permutations(Procs)
=============================================================================
