CONSTANTS
    t1 = t1
    t2 = t2
    auto = auto
    e1 = e1
    Trades = {t1, t2}
    Keys <- EvidenceKeys
    Attempts = {auto}
    Editors = {e1}
    Handlers = {"anchor"}
    Digests = {"doc"}
    Standings <- OneIsOut
    MaxInFlight = 2
    MaxNonce = 2
    MaxFailures = 1
    Listing <- ListedInOrder
    Scheduled = auto
SPECIFICATION AutoSpec
INVARIANTS
    NoncePerEvidence
PROPERTIES
    FreshlyChecked
    EvidenceDecidedUnlessBlocked
