------------------------------ MODULE MCOutbox ------------------------------
(* Instances of Outbox for TLC: peers are alike, and so are flushes.       *)
EXTENDS Outbox, TLC

Symmetry == Permutations(Peers) \cup Permutations(Flushes)

(* Bound: a third peer comes into play with one message only.              *)
InPlay ==
  {p \in Peers : link[p] # "closed"} \cup
  UNION {got[m] \cup entry[m].targets : m \in Messages} \cup UNION {meant[m] : m \in Private}
Small ==
  Cardinality({m \in Messages : stage[m] # "new"}) <= 1 \/ Cardinality(InPlay) <= 2
=============================================================================
