CONSTANTS
    Trades = {"t", "u"}
    Wallets = {"importer", "exporter"}
    FirstParties <- Parties
    PartyPairs <- Others
    Requesters = {"flag", "evidence"}
    ChallengeTtl = 0
    TokenTtl = 0
    MaxChallenges = 2
    MaxTime = 1
    NoWallet = "none"
    MaxSwitches = 3
    MaxFaults = 1
    MaxDisputes = 1
SPECIFICATION Spec
INVARIANTS
    RecordedForParties
    RecordedForSeat
    RefusedForgotten
CHECK_DEADLOCK FALSE
