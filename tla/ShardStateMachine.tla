-------------------------- MODULE ShardStateMachine -------------------------
(***************************************************************************)
(* The replicas of one shard as the state machine sees them: every replica *)
(* applies the entries of the Raft log, in order, to its own Store         *)
(* (ShardStateMachine::apply, crates/raftvec-node/src/raft.rs), while      *)
(* CreateCollection reaches each replica outside the log (service.rs), a   *)
(* snapshot builder reads the store from a task of its own, and a replica  *)
(* may be restarted with nothing in memory.                                *)
(*                                                                         *)
(* The log is what openraft promises the state machine: one sequence of    *)
(* committed entries of which every replica is handed a growing prefix.    *)
(* RaftLog models how the replicas come to agree on it. Indices start      *)
(* at 1 and last_applied_log = None is 0.                                  *)
(***************************************************************************)
EXTENDS VectorStore, FiniteSets

CONSTANTS
    Replica,      \* the replicas of the shard
    Command,      \* the client commands of this instance
    NoTask,       \* no snapshot builder is running
    NoSnapshot,   \* no snapshot has been built
    MaxLog,       \* bound: entries in the log
    MaxRestarts,  \* bound: restarts of replicas
    MaxBuilds     \* bound: snapshots begun

ASSUME CommandAssumption == Command \subseteq ShardCommand
ASSUME BoundAssumption == {MaxLog, MaxRestarts, MaxBuilds} \subseteq Nat

VARIABLES
    log,               \* the committed entries (openraft)
    store,             \* sm.store of each replica
    last_applied_log,  \* sm.last_applied_log of each replica
    worker,            \* where each replica's apply loop is
    rejected,          \* entries that apply turned into applied_count 0
                       \* because insert or delete returned an error
    builder,           \* each replica's build_snapshot task
    snapshot,          \* the last snapshot each replica has built
    createdAt,         \* history: entries a replica had applied when it
                       \* created its copy of a collection
    restarts,          \* restarts so far (bounds the model)
    builds             \* snapshots begun so far (bounds the model)

vars == <<log, store, last_applied_log, worker, rejected, builder,
          snapshot, createdAt, restarts, builds>>

\* EntryPayload::Blank and Membership do not reach the store.
Blank == [op |-> "Blank"]

Entry == ShardCommand \cup {Blank}

IsCommand(e) == e.op # "Blank"

Builder == [pending : SUBSET CollectionName, data : Store]

Snapshot == [data : Store, last_log_id : Nat]

Init ==
    /\ log = <<>>
    /\ store = [r \in Replica |-> EmptyStore]
    /\ last_applied_log = [r \in Replica |-> 0]
    /\ worker = [r \in Replica |-> "idle"]
    /\ rejected = [r \in Replica |-> {}]
    /\ builder = [r \in Replica |-> NoTask]
    /\ snapshot = [r \in Replica |-> NoSnapshot]
    /\ createdAt = [r \in Replica |-> [c \in CollectionName |-> 0]]
    /\ restarts = 0
    /\ builds = 0

-----------------------------------------------------------------------------
(* openraft commits one more entry. *)

Commit(e) ==
    /\ Len(log) < MaxLog
    /\ log' = Append(log, e)
    /\ UNCHANGED <<store, last_applied_log, worker, rejected, builder,
                   snapshot, createdAt, restarts, builds>>

-----------------------------------------------------------------------------
(* ShardStateMachine::apply, one entry of the batch *)

\* Mutant: the index is one too high.
PublishedNext(r) == last_applied_log[r] + 2

\* Mutant: the index of a whole batch is published with one entry of it.
PublishedBatch(r) == Len(log)

\* The index that is published with the entry about to be applied.
Published(r) == last_applied_log[r] + 1

\* The index is published first; the store changes after it.
BeginApply(r) ==
    /\ worker[r] = "idle"
    /\ last_applied_log[r] < Len(log)
    /\ last_applied_log' = [last_applied_log EXCEPT ![r] = Published(r)]
    /\ worker' = [worker EXCEPT ![r] = "applying"]
    /\ UNCHANGED <<log, store, rejected, builder, snapshot,
                   createdAt, restarts, builds>>

\* insert(..).unwrap_or(0), delete(..).unwrap_or(0): a rejection is an
\* outcome, not a failure.
FinishApply(r) ==
    LET i == last_applied_log[r] IN
    /\ worker[r] = "applying"
    /\ worker' = [worker EXCEPT ![r] = "idle"]
    /\ IF IsCommand(log[i])
       THEN /\ store' = [store EXCEPT ![r] = Execute(@, log[i])]
            /\ rejected' = IF Accepts(store[r], log[i])
                           THEN rejected
                           ELSE [rejected EXCEPT ![r] = @ \cup {i}]
       ELSE UNCHANGED <<store, rejected>>
    /\ UNCHANGED <<log, last_applied_log, builder, snapshot, createdAt, restarts, builds>>

-----------------------------------------------------------------------------
(* NodeService::create_collection on one replica. Store::snapshot holds    *)
(* the read lock of the collections until it has visited the last one, and *)
(* create_collection needs the write lock.                                 *)

\* The entries whose effect a replica's store shows.
Done(r) ==
    IF worker[r] = "applying"
    THEN last_applied_log[r] - 1
    ELSE last_applied_log[r]

CollectionsLocked(r) == builder[r] # NoTask /\ builder[r].pending # {}

CreateCollection(r, c, d) ==
    /\ ~CollectionsLocked(r)
    /\ ~Exists(store[r], c)
    /\ store' = [store EXCEPT ![r] = create_collection(@, c, d)]
    /\ createdAt' = [createdAt EXCEPT ![r][c] = Done(r)]
    /\ UNCHANGED <<log, last_applied_log, worker, rejected, builder,
                   snapshot, restarts, builds>>

-----------------------------------------------------------------------------
(* build_snapshot: openraft runs the builder, a clone of the Arc of the    *)
(* live state machine, in a task beside the apply loop.                    *)

BeginSnapshot(r) ==
    /\ builder[r] = NoTask
    /\ builds < MaxBuilds
    /\ builds' = builds + 1
    /\ builder' = [builder EXCEPT ![r] =
           [pending |-> {c \in CollectionName : Exists(store[r], c)},
            data    |-> EmptyStore]]
    /\ UNCHANGED <<log, store, last_applied_log, worker, rejected,
                   snapshot, createdAt, restarts>>

\* coll.vectors.read() of one collection
CopyCollection(r, c) ==
    /\ builder[r] # NoTask
    /\ c \in builder[r].pending
    /\ builder' = [builder EXCEPT ![r] =
           [pending |-> @.pending \ {c},
            data    |-> [@.data EXCEPT ![c] = store[r][c]]]]
    /\ UNCHANGED <<log, store, last_applied_log, worker, rejected,
                   snapshot, createdAt, restarts, builds>>

\* Mutant: the index before the last applied.
SnapshotIndexBefore(r) == last_applied_log[r] - (IF last_applied_log[r] = 0 THEN 0 ELSE 1)

SnapshotIndex(r) == last_applied_log[r]

\* last_applied_log is read once the data has been copied.
FinishSnapshot(r) ==
    /\ builder[r] # NoTask
    /\ builder[r].pending = {}
    /\ builder' = [builder EXCEPT ![r] = NoTask]
    /\ snapshot' = [snapshot EXCEPT ![r] =
           [data |-> builder[r].data, last_log_id |-> SnapshotIndex(r)]]
    /\ UNCHANGED <<log, store, last_applied_log, worker, rejected, createdAt,
                   restarts, builds>>

-----------------------------------------------------------------------------
(* The process of a replica ends and main starts it again: the Store, the  *)
(* state machine and every task are new.                                   *)

Restart(r) ==
    /\ restarts < MaxRestarts
    /\ restarts' = restarts + 1
    /\ store' = [store EXCEPT ![r] = EmptyStore]
    /\ last_applied_log' = [last_applied_log EXCEPT ![r] = 0]
    /\ worker' = [worker EXCEPT ![r] = "idle"]
    /\ rejected' = [rejected EXCEPT ![r] = {}]
    /\ builder' = [builder EXCEPT ![r] = NoTask]
    /\ snapshot' = [snapshot EXCEPT ![r] = NoSnapshot]
    /\ createdAt' = [createdAt EXCEPT ![r] = [c \in CollectionName |-> 0]]
    /\ UNCHANGED <<log, builds>>

Next ==
    \/ \E e \in Command \cup {Blank} : Commit(e)
    \/ \E r \in Replica :
        \/ BeginApply(r)
        \/ FinishApply(r)
        \/ \E c \in CollectionName, d \in Dim : CreateCollection(r, c, d)
        \/ BeginSnapshot(r)
        \/ \E c \in CollectionName : CopyCollection(r, c)
        \/ FinishSnapshot(r)
        \/ Restart(r)

Spec == Init /\ [][Next]_vars

-----------------------------------------------------------------------------
(* Properties *)

TypeOK ==
    /\ log \in Seq(Entry)
    /\ store \in [Replica -> Store]
    /\ last_applied_log \in [Replica -> 0..Len(log)]
    /\ worker \in [Replica -> {"idle", "applying"}]
    /\ \A r \in Replica : worker[r] = "applying" => last_applied_log[r] > 0
    /\ rejected \in [Replica -> SUBSET (1..Len(log))]
    /\ builder \in [Replica -> Builder \cup {NoTask}]
    /\ snapshot \in [Replica -> Snapshot \cup {NoSnapshot}]
    /\ createdAt \in [Replica -> [CollectionName -> Nat]]
    /\ restarts \in Nat
    /\ builds \in Nat

\* The entries among the first n of a log that were not rejected and that
\* say what id holds in collection c.
Writers(entries, rej, c, id, n) ==
    {i \in 1..n : /\ IsCommand(entries[i])
                  /\ i \notin rej
                  /\ Touches(entries[i], c, id)}

\* Every id holds what the last of its writers left.
Reflects(coll, entries, rej, c, n) ==
    \A id \in Id :
        LET writers == Writers(entries, rej, c, id, n) IN
        \/ writers = {} /\ coll.vectors[id] = NoVector
        \/ \E i \in writers :
              /\ \A j \in writers : j <= i
              /\ coll.vectors[id] = ValueLeftBy(entries[i], id)

\* A replica's data are what the accepted entries of its applied prefix say,
\* in log order, last writer first: a rejected batch leaves no record behind
\* (insert checks all dimensions before it stores), a batch with an id twice
\* keeps its last record, and no entry is applied twice or skipped.
LastWriterWins ==
    \A r \in Replica, c \in CollectionName :
        Exists(store[r], c) =>
            Reflects(store[r][c], log, rejected[r], c, Done(r))

WrongDim(cmd, d) ==
    cmd.op = "Upsert" /\ \E k \in DOMAIN cmd.records : cmd.records[k].dim # d

\* apply rejects a command exactly when the replica's copy of the collection
\* did not exist yet when the entry was applied, or has another dimension.
RejectionsExplained ==
    \A r \in Replica : \A i \in 1..Done(r) :
        IsCommand(log[i]) =>
            LET c == log[i].collection IN
            i \in rejected[r] <=>
                \/ ~Exists(store[r], c)
                \/ i <= createdAt[r][c]
                \/ WrongDim(log[i], store[r][c].dim)

\* Two replicas that created a collection with the same dimension at the
\* same point of the log, and have applied the same entries, hold the same
\* vectors in it. This is the agreement that out-of-band CreateCollection
\* leaves: neither the log alone nor the order of the creations gives it.
ReplicasAgree ==
    \A r, s \in Replica, c \in CollectionName :
        /\ Exists(store[r], c) /\ Exists(store[s], c)
        /\ store[r][c].dim = store[s][c].dim
        /\ createdAt[r][c] = createdAt[s][c]
        /\ Done(r) = Done(s)
        => store[r][c] = store[s][c]

\* A snapshot holds nothing of an entry after its last_log_id: each of its
\* collections is the state after some prefix up to that index. build_snapshot
\* copies the data before it reads last_applied_log, and apply publishes the
\* index before it changes the store; both orders are needed.
SnapshotNeverAhead ==
    \A r \in Replica :
        snapshot[r] # NoSnapshot =>
            \A c \in CollectionName :
                Exists(snapshot[r].data, c) =>
                    \E n \in 0..snapshot[r].last_log_id :
                        Reflects(snapshot[r].data[c], log, rejected[r], c, n)

\* raft.rs:221: "A rejection (unknown collection, dim mismatch) is an
\* application-level outcome every replica reaches deterministically".
RejectionsDeterministic ==
    \A r, s \in Replica : \A i \in 1..Done(r) :
        i <= Done(s) => (i \in rejected[r] <=> i \in rejected[s])
=============================================================================
