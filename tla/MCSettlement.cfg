CONSTANTS
    Digests = {"a"}
    Window = 1
    MaxTime = 1
    MaxAuthorizations = 2
    MaxFaults = 1
SPECIFICATION SettlementSpec
INVARIANTS
    EvidenceWhereShown
    SuccessShownIsPaid
PROPERTIES
    ServedIsClaimed
CHECK_DEADLOCK FALSE
