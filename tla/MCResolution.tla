---------------------------- MODULE MCResolution ----------------------------
\* Small instances of ResolutionCenter for TLC.
EXTENDS ResolutionCenter

Pair(importer, exporter) == [importer |-> importer, exporter |-> exporter]

\* Two trades: the exporter of one is both parties of the other one, which
\* createTrade allows.
Parties == [t |-> Pair("importer", "exporter"), u |-> Pair("exporter", "exporter")]

\* What a trade is created again with: one trade so loses a party, the other one
\* gets another.
Others == {Pair("importer", "importer")}

=============================================================================
