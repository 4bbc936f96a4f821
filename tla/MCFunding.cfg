CONSTANTS
    ImporterFunds = 1
    MaxTransfers = 1
    MaxRefunds = 1
    MaxFailures = 1
    MaxSent = 10
    MaxSigned = 2
    MaxEvents = 3
CHECK_DEADLOCK FALSE
SPECIFICATION PanelSpec
INVARIANTS
    NoDoubleDeposit
    MirroredAfterMining
    MirrorsOwnDeposits
PROPERTY
    FundedEventually
