SPECIFICATION Spec
CONSTANTS
    RetryAttempts = 2
    MaxPools = 2
    MaxWrites = 2
INVARIANTS AllowedWasPassed FreezeStops FreezeShows
CHECK_DEADLOCK FALSE
