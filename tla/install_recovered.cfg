SPECIFICATION Spec
CONSTANTS
  NumEntries = 2
  Internal = 1
  Absent = Absent
  Torn = Torn
  MaxJobs = 1
  MaxFaults = 3
INVARIANTS
  RecoveredMeansRestored
CHECK_DEADLOCK FALSE
