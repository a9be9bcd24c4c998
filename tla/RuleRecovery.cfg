SPECIFICATION Spec
CONSTANTS
  Procs = {p1, p2}
  Seqs = {1, 2, 3}
  Digests = {d1}
  Ops = {"v1", "activate", "ingest", "load"}
  MaxFaults = 1
  MaxGrants = 1
  Nothing = Nothing
  Free = Free
  Stale = Stale
INVARIANTS
  InterruptedApplyRecovers
