SPECIFICATION Spec
CONSTANTS
  Rules <- MCRules
  Lints <- MCLints
  UxAreas = {"flow"}
  Class <- MCClass
  Tokens = {"token"}
  Assets = {"asset"}
  Documents = {"target", "library"}
  Target = "target"
  AppliesTo <- MCAppliesTo
  Findings = {"finding"}
  Procs = {p1, p2}
  Pins <- MCPins
  TreeNames = {"clean", "broken"}
  Contents <- MCContents
  Observations <- MCObservations
  RequestSets <- MCRequestSets
  UxInputs <- MCUxInputs
  Plans = {"none", "unready"}
  CandidateSets <- MCCandidateSets
  MaxTicks = 1
  MaxCommands = 3
  MaxMishaps = 1
INVARIANTS
  RunInv
PROPERTIES
  ImplementsRegister
SYMMETRY ProcSymmetry
CHECK_DEADLOCK FALSE
