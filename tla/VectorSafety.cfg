SPECIFICATION ActivitySpec
CONSTANTS
  f1 = f1
  Chunks = {c1, c2}
  Docs = {1}
  Files = {f1}
  DocOf <- MCDocOf
  FileOf <- MCFileOf
  Texts = {a, b}
  Migrated = {}
  Labelled = {}
  NoText = NoText
  Writers = {}
  MaxVersions = 2
  Workers = {w1}
  BatchSize = 1
  Edited = {c1}
  Requests <- MCRequests
  Answers = {"some"}
SYMMETRY MCSymmetry
INVARIANTS
  SearchServesCurrentText
  HealthInv
  MissingVectorsAreFlagged
