--------------------------- MODULE MCShardSearch ----------------------------
(* Instances of ShardSearch for TLC. *)
EXTENDS ShardSearch

\* Two pairs of equal scores, one of them across the shards.
MCItem == {[id |-> 1, score |-> 5], [id |-> 2, score |-> 5],
           [id |-> 3, score |-> 5], [id |-> 4, score |-> 7],
           [id |-> 5, score |-> 3]}
MCShardId == [x \in Item |-> IF x.id \in {1, 3} THEN "a" ELSE "b"]
=============================================================================
