--------------------------- MODULE MCPairSessions ---------------------------
(* Instances of PairSessions for TLC: the two pages are alike.             *)
EXTENDS PairSessions, TLC

Symmetry == Permutations(Pages)
=============================================================================
