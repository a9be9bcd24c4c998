SPECIFICATION Spec
CONSTANTS
  Procs = {p1, p2}
  Seqs = {1, 2, 3, 4}
  Assessments = {a1, a2}
  Choices = {c1, c2}
  Ops = {"apply", "revoke", "status", "preview"}
  MaxFaults = 2
  Nothing = Nothing
  Torn = Torn
  Free = Free
  Stale = Stale
INVARIANTS
  JudgmentInv
  EvidenceBeforeDecision
  Recoverable
PROPERTIES
  ImplementsRegister
  SuccessMeansInForce
  NotAssessedIsTrue
SYMMETRY Symmetry
