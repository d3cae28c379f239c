SPECIFICATION Spec
CONSTANTS
  w1 = w1
  w2 = w2
  Objects = {o1}
  Families = {doc, source}
  SourceFamily = source
  ServiceFamilies = {doc}
  CreateKinds = {"payload"}
  SupersedeKinds = {"supersession"}
  Callers = {w1, w2}
  Settings <- MCSettings
  MaxTime = 3
  MaxClock = 2
  MaxRevisions = 3
INVARIANTS
  AsOfInv
  AcceptedDisjoint
PROPERTIES
  SettledTimesStable
  CorrectionsAreExact
