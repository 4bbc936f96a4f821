CONSTANTS
    t1 = t1
    k1 = k1
    k2 = k2
    k3 = k3
    a1 = a1
    a2 = a2
    e1 = e1
    Trades = {t1}
    Keys = {k1, k2}
    Attempts = {a1, a2}
    Editors = {e1}
    Handlers = {"create", "fund", "hold"}
    Digests = {"doc"}
    MaxInFlight = 2
    Standings <- AllEligible
    MaxNonce = 2
    MaxFailures = 1
SYMMETRY Interchangeable
SPECIFICATION Spec
INVARIANTS
    OneReleasePerKey
    NonceUsedOnce
    OutcomeBacked
    RowConsistent
    ReleasedMeansAuthorized
PROPERTIES
    OutcomeFinal
