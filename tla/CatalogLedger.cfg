SPECIFICATION Spec
CONSTANTS
  Procs = {p1, p2}
  Seqs = {1, 2, 3}
  Digests = {d1, d2}
  Stamps = {t1}
  Ops = {"ingest", "preflight", "resume", "pinned", "list"}
  MaxFaults = 1
  Nothing = Nothing
  Torn = Torn
  Free = Free
  Stale = Stale
INVARIANTS
  LedgerInv
PROPERTIES
  ImplementsRegister
  VerifiedMeansAligned
  PinnedForGood
  PointerMovesUp
SYMMETRY Symmetry
