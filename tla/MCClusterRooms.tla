--------------------------- MODULE MCClusterRooms ---------------------------
(* Instances of ClusterRooms for TLC: instances and peer ids are alike.    *)
EXTENDS ClusterRooms

Symmetry == Permutations(Insts) \cup Permutations(Ids)
=============================================================================
