CONSTANTS
    t1 = t1
    k1 = k1
    k2 = k2
    k3 = k3
    a1 = a1
    a2 = a2
    e1 = e1
    Trades = {t1}
    Keys = {k1, k2, k3}
    Attempts = {a1}
    Editors = {e1}
    Handlers = {"fund", "anchor", "hold", "freeze"}
    Digests = {"doc"}
    Standings <- AnyStanding
    MaxInFlight = 1
    MaxNonce = 3
    MaxFailures = 0
SYMMETRY Interchangeable
SPECIFICATION Spec
INVARIANTS
    AuthorizedOnce
PROPERTIES
    ReleasedIsFinal
    FreshlyChecked
    StoredReadsBack
