SPECIFICATION Spec
CONSTANTS
  Procs = {p1, p2}
  Seqs = {1, 2}
  Digests = {d1}
  Stamps = {t1}
  Ops = {"ingest", "list"}
  MaxFaults = 0
  Nothing = Nothing
  Torn = Torn
  Free = Free
  Stale = Stale
PROPERTIES
  PointerNeverMovesDown
