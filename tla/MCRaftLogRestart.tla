-------------------------- MODULE MCRaftLogRestart --------------------------
(* Instances of RaftLogRestart for TLC. *)
EXTENDS RaftLogRestart

\* The ranks of the votes (1,1), (1,2), (1,3), (2,1), ...
MCOwner == [b \in Ballot |-> ((b - 1) % 3) + 1]
MCMajority == {Q \in SUBSET Replica : 2 * Cardinality(Q) > Cardinality(Replica)}
=============================================================================
