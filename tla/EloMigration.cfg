SPECIFICATION Spec
CONSTANTS
  p1 = p1
  p2 = p2
  k1 = k1
  k2 = k2
  v0 = v0
  v1 = v1
  v2 = v2
  a1 = a1
  a2 = a2
  c1 = c1
  c2 = c2
  Procs = {p1, p2}
  Keys = {k1, k2}
  Agendas <- MCEnrollments
  MaxFaults = 0
  Legacy = Legacy
  Nothing = Nothing
  Torn = Torn
  Categories = {c1, c2}
  Cap <- MCCap
  Achievements = {a1, a2}
  Category <- MCCategory
  Weight <- MCWeight
  EvaluationCap = 200
  ScoreMax = 2000
  Packages = {v0, v1, v2}
  Version <- MCVersion
  Bootstrap = v0
  Results <- MCResults
  Company = Company
  Personal <- MCPersonal
  Revisions = {"r1", "r2"}
  Bundles <- MCBundles
  Requests <- MCRequests
  MaxRules = 2
  CurrentVersion = 3
  Restorations = {"x"}
SYMMETRY Symmetry
CHECK_DEADLOCK FALSE
INVARIANT PartialEnrollmentRecovers
