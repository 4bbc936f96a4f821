----------------------------- MODULE MCDisputes -----------------------------
\* Small instances of StoredDisputes, and so of DisputeQueue, for TLC.
EXTENDS StoredDisputes

=============================================================================
