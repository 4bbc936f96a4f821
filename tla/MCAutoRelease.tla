---------------------------- MODULE MCAutoRelease ----------------------------
\* Small instances of AutoRelease for TLC.
EXTENDS AutoRelease

CONSTANTS t1, t2, auto, e1

ListedInOrder == <<t1, t2>>
EvidenceKeys  == Trades \X Milestones \X Digests
\* Either party, but not both at once, may be frozen and unfrozen at any time.
OneIsOut == {Parties, {"importer"}, {"exporter"}}

=============================================================================
