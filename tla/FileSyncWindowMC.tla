---------------------------- MODULE FileSyncWindowMC ---------------------------
(* Instances of FileSyncWindow for TLC.                                     *)
EXTENDS FileSyncWindow

CONSTANTS n1, n2, a, b

OneBlock  == {<<a>>}
TwoBlocks == {<<a>>, <<b>>}
Blocks    == {a, b}
Pair      == {n1, n2}
First     == {n1}

\* Which node is which, and which content, makes no difference.
Alike == Permutations({n1, n2}) \union Permutations({a, b})

\* What is said of the undisturbed ends with the first blind decision.
Sighted == ~blind

ByTimestamp == [n \in Node |-> "timestamp"]
Mixed       == [n \in Node |-> IF n = n1 THEN "size" ELSE "manual"]
=============================================================================
