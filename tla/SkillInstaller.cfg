SPECIFICATION Spec
CONSTANTS
  Roots = {r1, r2}
  MaxVersion = 2
  SkillCount = 2
  MaxInstalls = 3
  MaxFaults = 2
  Absent = Absent
  Broken = Broken
  Foreign = Foreign
  None = None
INVARIANTS
  InstallerInv
  LastGoodKept
  RecoveryRepeatable
PROPERTIES
  EditsKept
  ReportsAreTrue
  ImplementsRegister
