SPECIFICATION Spec
CONSTANTS
  v1 = v1
  v2 = v2
  a = a
  b = b
  Publishers = {p1, p2}
  Versions = {v1, v2}
  Contents = {a, b, Interleaved}
  Interleaved = Interleaved
  Uploads <- MCUploads
  RechunkVersions <- MCRechunkVersions
  None = None
  RebuildModes = {"flagged"}
  OrderWidth = 2
  MaxRuns = 3
INVARIANT NoPartialVersion
