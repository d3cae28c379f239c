SPECIFICATION FairSpec
CONSTANTS
  c1 = c1
  c2 = c2
  x1 = x1
  x2 = x2
  doc = doc
  plain = plain
  code = code
  v1 = v1
  v2 = v2
  p1 = p1
  Null = Null
  Callers = {c1, c2}
  Doc = doc
  Chunks = {x1, x2}
  Categories = {plain, code}
  Uncategorized = plain
  Values = {v1, v2}
  SourceTags = v2
  Overwrites <- MCOverwrites
  Projects = {p1}
  Batches <- MCBatches
  Rebinds <- MCRebinds
  Versions = {1, 2}
  MaxCalls <- MCMaxCalls
INVARIANTS
  MetadataInv
PROPERTIES
  CallsWriteWhatWasAsked
  EveryCallEnds
CHECK_DEADLOCK FALSE
