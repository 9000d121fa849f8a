-------------------------- MODULE MCRouterWrites ----------------------------
(* Instances of RouterWrites for TLC. *)
EXTENDS RouterWrites, TLC

CONSTANTS a, b, x, y

MCShard == {a, b}
MCId == {x, y}
MCShardId == [id \in Id |-> IF id = x THEN a ELSE b]
Symmetry ==
    Permutations(Client) \cup Permutations(Replica) \cup Permutations(Dim)
=============================================================================
