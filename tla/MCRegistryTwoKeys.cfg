CONSTANTS
    t1 = t1
    k1 = k1
    k2 = k2
    k3 = k3
    a1 = a1
    a2 = a2
    e1 = e1
    Trades = {t1}
    Keys = {k1, k2}
    Attempts = {a1, a2}
    Editors = {e1}
    Handlers = {"fund"}
    Digests = {"doc"}
    Standings <- AllEligible
    MaxInFlight = 2
    MaxNonce = 2
    MaxFailures = 0
SYMMETRY Interchangeable
SPECIFICATION Spec
INVARIANT
    AuthorizedOnce
