--------------------------- MODULE FileSyncHistoryMC ---------------------------
(* The instance of FileSyncHistory for TLC.                                 *)
EXTENDS FileSyncHistory

CONSTANTS n1, n2, a, b

OneBlock == {<<a>>}
Contents == {<<a>>, <<b, b>>}
Blocks   == {a, b}
Pair     == {n1, n2}
First    == {n1}

ByTimestamp == [n \in Node |-> "timestamp"]
=============================================================================
