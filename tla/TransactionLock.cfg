\* A lock file is left behind by a fault and may never be removed.
SPECIFICATION FairSpec
CONSTANTS
  Procs = {p1, p2, p3}
  MaxFaults = 2
  Absent = Absent
  Partial = Partial
  Stale = Stale
INVARIANTS
  LockInv
PROPERTIES
  ImplementsLock
  CommandsEnd
  FreedWithoutFaults
