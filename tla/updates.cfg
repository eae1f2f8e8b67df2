SPECIFICATION Spec
CONSTANTS
    MaxVersion = 3
    MaxUpdaters = 2
    MaxLaunches = 2
    MaxFaults = 1
    MaxChecks = 1
INVARIANTS
    TypeOK
    InstallNotInUse
    InstalledIsComplete
    JournalCanBeUndone
    NeverInstallsOlder
PROPERTIES
    ImplementsAtomicUpdate
    OnlySwapsUnderJournal
    MutexIsReleased
CHECK_DEADLOCK FALSE
