SPECIFICATION Spec
CONSTANTS
  d1 = d1
  d2 = d2
  a = a
  b = b
  p1 = p1
  p2 = p2
  Docs = {d1, d2}
  Published = {d1}
  Contents = {a, b}
  Publishers = {p1, p2}
  Null = Null
  Installed <- MCInstalled
  MaxRuns = 3
SYMMETRY Symmetry
INVARIANTS
  OriginalsInv
  EvidenceChainHolds
PROPERTIES
  DeletesReleaseHistory
CHECK_DEADLOCK FALSE
