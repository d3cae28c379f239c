SPECIFICATION FairSpec
CONSTANTS
  d1 = d1
  d2 = d2
  v1 = v1
  v2 = v2
  a = a
  b = b
  Docs = {d1, d2}
  Versions = {v1, v2}
  Texts = {a, b}
  Candidates <- MCCandidates
  Uploads <- MCUploads
  Null = Null
  Budgets <- MCBudgets
INVARIANTS
  StatusInv
  ReportedIsStored
PROPERTIES
  ScriptEnds
CHECK_DEADLOCK FALSE
