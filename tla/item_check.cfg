SPECIFICATION FairSpec
CONSTANTS
  None = None
  NoRevision = NoRevision
  Missing = Missing
  Checks = {c1, c2}
  Loads = {l1, l2, l3}
  Requests = {c1, c2, l1, l2, l3}
  Kind <- MCKind
  MaxSaves = 1
  MaxUserLoads = 2
  MaxCrashes = 2
INVARIANTS
  TypeOK
  CheckNeverUsesOlderBuild
  LoadingHasOwner
  HeldCheckHasRelease
  SettledBuildIsFinal
  NothingIsStranded
PROPERTIES
  OnlyNewestIsPainted
  DeadProcessIsReplaced
  BuildLoadSettles
  NewestCheckIsAnswered
CHECK_DEADLOCK FALSE
