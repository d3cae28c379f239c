SPECIFICATION FairSpec
CONSTANTS
  r1 = r1
  r2 = r2
  Callers = {r1, r2}
  None = None
  Entities <- MCEntities
  Kind <- MCKind
  FkParents <- MCFkParents
  Uses <- MCUses
  SortKey <- MCSortKey
  Starts <- MCStarts
  InitOwner <- MCInitOwner
  Asks <- MCAsks
  Targets <- MCTargets
  NewOwners <- MCNewOwners
  MaxCalls = 1
  MaxEdits = 1
INVARIANTS
  LifecycleInv
PROPERTIES
  MarkReachesAllBelow
  DeleteLeavesNoCheckedReference
  EveryCallEnds
CHECK_DEADLOCK FALSE
