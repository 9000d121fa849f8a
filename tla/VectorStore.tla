---------------------------- MODULE VectorStore ----------------------------
(***************************************************************************)
(* One replica's in-memory Store (crates/raftvec-node/src/store.rs) as a   *)
(* value, and its operations as functions of that value.                   *)
(*                                                                         *)
(* Each operation of the code takes the locks it needs, works, and drops   *)
(* them, so seen from outside it is one step on the value. The one         *)
(* exception is Store::snapshot, which locks the vectors of one collection *)
(* after the other; its steps are actions of ShardStateMachine.            *)
(*                                                                         *)
(* The embedding and the metadata of a vector are one value of Data, of    *)
(* which only the dimension is told apart. norm_sq is a function of the    *)
(* embedding, recomputed wherever a vector is stored, and shard_count is   *)
(* read by a debug_assert only; neither is kept.                           *)
(***************************************************************************)
EXTENDS Integers, Sequences

CONSTANTS
    CollectionName,  \* names of collections
    Id,              \* vector ids
    Dim,             \* dimensions a collection or an embedding may have
    Data,            \* an embedding with its metadata
    NoVector,        \* HashMap::get of an id that is not there
    NoCollection     \* HashMap::get of a collection that is not there

ASSUME NoVectorAssumption == NoVector \notin Data

-----------------------------------------------------------------------------
(* The types *)

VectorRecord == [id : Id, dim : Dim, data : Data]

Collection == [dim : Dim, vectors : [Id -> Data \cup {NoVector}]]

Store == [CollectionName -> Collection \cup {NoCollection}]

ASSUME NoCollectionAssumption == NoCollection \notin Collection

EmptyStore == [c \in CollectionName |-> NoCollection]

\* ShardCommand. The ids of a Delete are a set: removing an id twice
\* changes nothing more.
ShardCommand ==
    [op : {"Upsert"}, collection : CollectionName, records : Seq(VectorRecord)]
        \cup [op : {"Delete"}, collection : CollectionName, ids : SUBSET Id]

-----------------------------------------------------------------------------
(* What a command says about an id, whatever store it meets *)

RecordsOf(records, id) == {k \in DOMAIN records : records[k].id = id}

\* The ids a command writes or removes.
TouchedIds(cmd) ==
    IF cmd.op = "Upsert"
    THEN {id \in Id : RecordsOf(cmd.records, id) # {}}
    ELSE cmd.ids

Touches(cmd, c, id) == cmd.collection = c /\ id \in TouchedIds(cmd)

\* The last record of the batch with this id: HashMap::insert overwrites.
LastRecord(records, id) ==
    CHOOSE k \in RecordsOf(records, id) :
        \A m \in RecordsOf(records, id) : m <= k

\* What a touched id holds once the command took effect.
ValueLeftBy(cmd, id) ==
    IF cmd.op = "Upsert"
    THEN cmd.records[LastRecord(cmd.records, id)].data
    ELSE NoVector

-----------------------------------------------------------------------------
(* The operations *)

Exists(store, c) == store[c] # NoCollection

\* Guarded by ~Exists(store, c): otherwise CollectionExists, no change.
create_collection(store, c, d) ==
    [store EXCEPT ![c] = [dim     |-> d,
                          vectors |-> [id \in Id |-> NoVector]]]

\* Mutant: only the first record's dimension is checked.
InsertOkFirst(store, c, records) ==
    /\ Exists(store, c)
    /\ records # <<>> => records[1].dim = store[c].dim

\* insert: CollectionNotFound, DimensionMismatch. Every record is checked
\* before the first one is stored, then they are stored in order.
InsertOk(store, c, records) ==
    /\ Exists(store, c)
    /\ \A k \in DOMAIN records : records[k].dim = store[c].dim

\* Mutant: the entry API's or_insert, which keeps what is there.
Overwritten_keep(old, records, id) ==
    IF old = NoVector THEN records[LastRecord(records, id)].data ELSE old

\* HashMap::insert
Overwritten(old, records, id) == records[LastRecord(records, id)].data

insert(store, c, records) ==
    [store EXCEPT ![c] =
        [dim     |-> @.dim,
         vectors |-> [id \in Id |->
                         IF RecordsOf(records, id) # {}
                         THEN Overwritten(@.vectors[id], records, id)
                         ELSE @.vectors[id]]]]

\* delete: CollectionNotFound. Ids that are not there are passed over.
delete(store, c, ids) ==
    [store EXCEPT ![c] =
        [dim     |-> @.dim,
         vectors |-> [id \in Id |->
                         IF id \in ids THEN NoVector ELSE @.vectors[id]]]]

\* The call that ShardStateMachine::apply makes for a command, and whether
\* it returns Ok. An error leaves the store as it is.
Accepts(store, cmd) ==
    IF cmd.op = "Upsert"
    THEN InsertOk(store, cmd.collection, cmd.records)
    ELSE Exists(store, cmd.collection)

Execute(store, cmd) ==
    IF ~Accepts(store, cmd)
    THEN store
    ELSE IF cmd.op = "Upsert"
         THEN insert(store, cmd.collection, cmd.records)
         ELSE delete(store, cmd.collection, cmd.ids)
=============================================================================
