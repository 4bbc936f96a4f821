CONSTANTS
    DisputeIds = {"d"}
    Signers = {"s1", "s2"}
    Thresholds = {1, 2}
    Digests = {"doc"}
    Workers = {"w1", "w2"}
    MaxInFlight = 2
SPECIFICATION QueueSpec
INVARIANTS
    ResolvedBySigners
    ShownIsReal
PROPERTIES
    ResolvedStays
    DisputesReadBack
