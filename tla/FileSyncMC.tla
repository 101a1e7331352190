------------------------------ MODULE FileSyncMC ------------------------------
(* Instances of FileSync for TLC.                                           *)
EXTENDS FileSync

CONSTANTS n1, n2, n3, a, b

OneBlock == {<<a>>}
Contents == {<<a>>, <<b, b>>}
Blocks   == {a, b}
Pair     == {n1, n2}
Trio     == {n1, n2, n3}
First    == {n1}

ByTimestamp == [n \in Node |-> "timestamp"]
ByHand      == [n \in Node |-> "manual"]
=============================================================================
