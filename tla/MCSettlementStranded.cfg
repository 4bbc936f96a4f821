CONSTANTS
    Digests = {"a"}
    Window = 1
    MaxTime = 2
    MaxAuthorizations = 2
    MaxFaults = 1
SPECIFICATION SettlementSpec
INVARIANT
    NeverStranded
CHECK_DEADLOCK FALSE
