SPECIFICATION Spec
CONSTANTS
  b1 = b1
  b2 = b2
  Builds = {b1, b2}
  Version <- Ranks
  Prerelease = {}
  Accepts <- Ranges
  MaxRuntime = 2
  MaxSeq = 3
  MaxTime = 2
  Signed <- Actions
  MaxFaults = 2
INVARIANTS
  ReleaseInv
  Recoverable
  ReadIsNewest
PROPERTIES
  ImplementsRegister
CHECK_DEADLOCK FALSE
