SPECIFICATION Spec
CONSTANTS
    MaxVersion = 2
    MaxUpdaters = 1
    MaxLaunches = 1
    MaxFaults = 0
    MaxChecks = 0
PROPERTIES
    ExitNeverExtracts
CHECK_DEADLOCK FALSE
