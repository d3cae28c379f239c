SPECIFICATION FairVectorSpec
CONSTANTS
  f1 = f1
  Chunks = {1}
  Docs = {1, 2}
  Files = {f1}
  DocOf <- MCDocOf
  FileOf <- MCFileOf
  Texts = {a}
  Migrated = {}
  Labelled = {}
  NoText = NoText
  Writers = {}
  MaxVersions = 2
  Workers = {w1}
  BatchSize = 1
  Edited = {1}
  Requests <- MCRequests
  Answers = {"absent"}
PROPERTIES
  JobsEnd
