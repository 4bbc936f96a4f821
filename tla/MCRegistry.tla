----------------------------- MODULE MCRegistry -----------------------------
\* Small instances of StoredRows, and so of ReleaseRegistry, for TLC.
EXTENDS StoredRows, TLC

CONSTANTS t1, k1, k2, k3, a1, a2, e1

\* Keys and attempts are told apart only by equality.
Interchangeable == Permutations(Keys) \cup Permutations(Attempts)

\* Everyone eligible throughout, or anyone frozen and unfrozen at any time.
AllEligible == {Parties}
AnyStanding == SUBSET Parties

=============================================================================
