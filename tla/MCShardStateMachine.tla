------------------------ MODULE MCShardStateMachine ------------------------
(* Instances of ShardStateMachine for TLC. *)
EXTENDS ShardStateMachine, TLC

CONSTANTS docs, x, y, v, w

MCCollectionName == {docs}
MCId == {x, y}
MCData == {v, w}
MCDim == {2, 3}

Rec(id, dim, data) == [id |-> id, dim |-> dim, data |-> data]
Upsert(c, records) == [op |-> "Upsert", collection |-> c, records |-> records]
Delete(c, ids) == [op |-> "Delete", collection |-> c, ids |-> ids]

\* A batch with a duplicate id, a batch whose second record has another
\* dimension than its first, a plain overwrite, and a delete.
MCCommand ==
    {Upsert(docs, <<Rec(x, 2, v), Rec(x, 2, w)>>),
     Upsert(docs, <<Rec(x, 2, v), Rec(y, 3, v)>>),
     Upsert(docs, <<Rec(x, 2, v)>>),
     Delete(docs, {x})}

Symmetry == Permutations(Replica)
=============================================================================
