----------------------------- MODULE MCSession -----------------------------
\* Small instances of TradeSession for TLC.
EXTENDS TradeSession

Pair(importer, exporter) == [importer |-> importer, exporter |-> exporter]

\* Two trades: the exporter of the page's is both parties of the other one, which
\* createTrade allows.
Parties == [t |-> Pair("importer", "exporter"), u |-> Pair("exporter", "exporter")]

\* What a trade is created again with: another importer, or another exporter.
Others == {Pair("stranger", "exporter"), Pair("importer", "stranger")}

=============================================================================
