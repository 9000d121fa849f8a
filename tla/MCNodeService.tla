--------------------------- MODULE MCNodeService ----------------------------
(* Instances of NodeService for TLC. *)
EXTENDS NodeService

\* The votes of the first term, ranked.
MCOwner == [b \in Ballot |-> ((b - 1) % 3) + 1]
MCMajority == {Q \in SUBSET Replica : 2 * Cardinality(Q) > Cardinality(Replica)}
=============================================================================
