SPECIFICATION Spec
CONSTANTS
  NumEntries = 3
  Internal = 1
  Absent = Absent
  Torn = Torn
  MaxJobs = 2
  MaxFaults = 4
INVARIANTS
  TypeOK
  BackupIsIntact
  NothingIsLost
  UndoneIsRestored
PROPERTIES
  CommitIsComplete
  ImplementsAtomicInstall
  SwapIsAbstracted
CHECK_DEADLOCK FALSE
