SPECIFICATION Spec
CONSTANTS
    Apps = {a1, a2}
    Linkers = {a1}
    LinkedFirst = {a2}
    MaxSessions = 1
    MaxDevices = 2
    MaxExpiries = 1
    MaxFaults = 1
INVARIANTS
    TypeOK
    DeviceHasLink
    DeliveredOnce
    OneTokenCall
    TokensAreUsedOnce
PROPERTIES
    RotationKeepsRelink
CHECK_DEADLOCK FALSE
