SPECIFICATION Spec
CONSTANTS
  d1 = d1
  f1 = f1
  Chunks = {c1}
  Docs = {d1}
  Files = {f1}
  DocOf <- MCDocOf
  FileOf <- MCFileOf
  Texts = {a, b}
  Migrated = {c1}
  Labelled = {c1}
  NoText = NoText
  Writers = {w1, w2}
  MaxVersions = 4
INVARIANTS
  TypeOK
  UniqueVersionNumbers
  CurrentAgreement
  ProjectionMatchesSelected
  DerivedOfCurrent
PROPERTIES
  SelectionLostOnlyByDelete
  HistoryAppendOnly
  LockDetectsIntervening
