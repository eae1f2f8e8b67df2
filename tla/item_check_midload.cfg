SPECIFICATION FairSpec
CONSTANTS
  None = None
  NoRevision = NoRevision
  Missing = Missing
  Checks = {c1}
  Loads = {l1, l2, l3}
  Requests = {c1, l1, l2, l3}
  Kind <- MCKind
  MaxSaves = 1
  MaxUserLoads = 1
  MaxCrashes = 0
INVARIANTS
  SaveDuringLoadIsSeen
CHECK_DEADLOCK FALSE
