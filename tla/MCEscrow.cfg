CONSTANTS
    M1 = 1
    M2 = 2
    HoldDuration = 0
    FundAmounts = {0, 1, 3, 4}
    ImporterFunds = 6
    MaxTime = 2
    Authorizations <- MCAuthorizations
SPECIFICATION Spec
INVARIANTS
    TypeOK
    ExporterPaidExactly
    PaidInSequence
    CustodyCovers
PROPERTIES
    NoSecondDeposit
    CompleteIsFinal
    ImplementsPayout
