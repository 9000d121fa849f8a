------------------------- MODULE MCSnapshotTransfer ------------------------
(* Instances of SnapshotTransfer for TLC. *)
EXTENDS SnapshotTransfer, TLC

CONSTANTS docs, x, v

MCCollectionName == {docs}
MCId == {x}
MCData == {v}
MCDim == {2}

Upsert(id, data) ==
    [op |-> "Upsert", collection |-> docs,
     records |-> <<[id |-> id, dim |-> 2, data |-> data]>>]

MCCommand ==
    {Upsert(x, v),
     [op |-> "Delete", collection |-> docs, ids |-> {x}]}

Symmetry == Permutations(Replica)
=============================================================================
