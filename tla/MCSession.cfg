CONSTANTS
    Trades = {"t", "u"}
    Wallets = {"importer", "exporter", "stranger"}
    FirstParties <- Parties
    PartyPairs <- Others
    Requesters = {"page", "repeat"}
    ChallengeTtl = 0
    TokenTtl = 0
    MaxChallenges = 4
    MaxTime = 1
    PageTrade = "t"
    NoWallet = "none"
    Polls = {"p"}
    MaxSwitches = 2
    MaxFaults = 1
    MaxSigned = 1
SPECIFICATION Spec
INVARIANTS
    OneTokenPerChallenge
    TokensEarned
PROPERTIES
    ClaimOffered
CHECK_DEADLOCK FALSE
