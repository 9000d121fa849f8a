---------------------------- MODULE RouterWrites ----------------------------
(***************************************************************************)
(* The router's fan-out of changes (crates/raftvec-aggregator/src/         *)
(* router.rs): create_collection calls every replica of every shard, once; *)
(* insert and delete group their records by shard and send each group to   *)
(* the leader of its shard, with retries. All wait for every call before   *)
(* they return, and any failed call fails the request.                     *)
(*                                                                         *)
(* There is one collection. LeaderRetry models how an attempt finds the    *)
(* leader. An attempt that was given up may still be carried out, at any   *)
(* later time; one such attempt per shard and request is followed.         *)
(* ShardStateMachine models how the replicas of a shard apply an entry one *)
(* after the other; here they do so together.                              *)
(***************************************************************************)
EXTENDS Integers, FiniteSets

CONSTANTS
    Shard,         \* the shards
    Replica,       \* the replicas of a shard
    Id,            \* vector ids
    shard_id,      \* the shard of each id
    Dim,           \* dimensions of collections and of vectors
    Client,        \* clients of the aggregator
    NoCollection,  \* the collection does not exist on a node
    NoRequest,     \* the client has not asked for anything
    MaxRequests    \* bound: requests

ASSUME IdAssumption == IsFiniteSet(Id) /\ shard_id \in [Id -> Shard]
ASSUME RequestsAssumption == MaxRequests \in Nat

Node == Shard \X Replica

Request ==
    [op : {"create"}, dim : Dim]
        \cup [op : {"insert"}, dim : Dim, ids : SUBSET Id]
        \cup [op : {"delete"}, ids : SUBSET Id]

ASSUME NoneAssumption == NoCollection \notin Dim /\ NoRequest \notin Request

VARIABLES
    dim,       \* the dimension of each node's copy of the collection
    vectors,   \* the ids each node's copy holds
    req,       \* the last request of each client
    calls,     \* the calls of it that have not ended
    failed,    \* whether one of them failed
    count,     \* what the others have reported as inserted or deleted
    late,      \* attempts that were given up and may still be carried out
    requests,  \* requests so far (bounds the model)
    ready,     \* history: the nodes were ready for the request when it began
    sole       \* history: the ids of the request that no other change has
               \* reached since it began

storeVars == <<dim, vectors>>
requestVars == <<req, calls, failed, count>>
historyVars == <<requests, ready, sole>>
vars == <<storeVars, requestVars, late, historyVars>>

Init ==
    /\ dim = [n \in Node |-> NoCollection]
    /\ vectors = [n \in Node |-> {}]
    /\ req = [c \in Client |-> NoRequest]
    /\ calls = [c \in Client |-> {}]
    /\ failed = [c \in Client |-> FALSE]
    /\ count = [c \in Client |-> 0]
    /\ late = {}
    /\ requests = 0
    /\ ready = [c \in Client |-> FALSE]
    /\ sole = [c \in Client |-> {}]

-----------------------------------------------------------------------------
(* The beginning of a request *)

group_by_shard(ids, s) == {id \in ids : shard_id[id] = s}

\* Empty groups are not sent.
Targets(q) ==
    IF q.op = "create" THEN Node
    ELSE {s \in Shard : group_by_shard(q.ids, s) # {}}

IdsOf(q) == IF q = NoRequest \/ q.op = "create" THEN {} ELSE q.ids

\* No node has a collection that is to be created; every node has the
\* collection, with its dimension, that vectors are to be inserted into.
Ready(q) ==
    \A n \in Node :
        IF q.op = "create" THEN dim[n] = NoCollection
        ELSE dim[n] # NoCollection /\ (q.op = "insert" => dim[n] = q.dim)

Returned(c) == req[c] # NoRequest /\ calls[c] = {}

Ask(c, q) ==
    /\ calls[c] = {}
    /\ requests < MaxRequests
    /\ requests' = requests + 1
    /\ req' = [req EXCEPT ![c] = q]
    /\ calls' = [calls EXCEPT ![c] = Targets(q)]
    /\ failed' = [failed EXCEPT ![c] = FALSE]
    /\ count' = [count EXCEPT ![c] = 0]
    /\ ready' = [ready EXCEPT ![c] = Ready(q)]
    /\ sole' = [sole EXCEPT ![c] = IdsOf(q)]
    /\ UNCHANGED <<storeVars, late>>

-----------------------------------------------------------------------------
(* create_collection: one call for each node, without a retry *)

Close(c, t) == calls' = [calls EXCEPT ![c] = @ \ {t}]

\* Mutant: shards and replicas that fail are skipped, as they are in search.
FailSkipped(c) == UNCHANGED failed

Fail(c) == failed' = [failed EXCEPT ![c] = TRUE]

\* Mutant: a collection that exists is as good as a new one.
CheckAbsentNever(c, n) == UNCHANGED failed

\* Mutant: one that exists with the same dimension is.
CheckAbsentOrSame(c, n) ==
    IF dim[n] \in {NoCollection, req[c].dim} THEN UNCHANGED failed ELSE Fail(c)

\* AlreadyExists
CheckAbsent(c, n) ==
    IF dim[n] = NoCollection THEN UNCHANGED failed ELSE Fail(c)

\* A collection that exists is left as it is.
CreateAt(n, d) ==
    dim' = IF dim[n] = NoCollection THEN [dim EXCEPT ![n] = d] ELSE dim

\* The node answers: created, or AlreadyExists.
Create(c, n) ==
    /\ req[c].op = "create"
    /\ Close(c, n)
    /\ CreateAt(n, req[c].dim)
    /\ CheckAbsent(c, n)
    /\ UNCHANGED <<vectors, req, count, late, historyVars>>

\* The call fails on its way to the node, or its answer on the way back.
CreateLost(c, n) ==
    /\ req[c].op = "create"
    /\ Close(c, n)
    /\ Fail(c)
    /\ UNCHANGED dim \/ CreateAt(n, req[c].dim)
    /\ UNCHANGED <<vectors, req, count, late, historyVars>>

-----------------------------------------------------------------------------
(* insert and delete: call_with_retry for each shard with a group *)

\* What applying the group of shard s does to the node's ids.
Applied(n, s, q) ==
    IF n[1] # s \/ dim[n] = NoCollection THEN vectors[n]
    ELSE IF q.op = "delete" THEN vectors[n] \ group_by_shard(q.ids, s)
    ELSE IF dim[n] = q.dim THEN vectors[n] \cup group_by_shard(q.ids, s)
    ELSE vectors[n]

Apply(s, q) == vectors' = [n \in Node |-> Applied(n, s, q)]

\* The ids of a group that is applied are no longer sole to requests that asked
\* for something else.
Touch(s, q) ==
    sole' = [d \in Client |->
        IF req[d] = q THEN sole[d] ELSE sole[d] \ group_by_shard(q.ids, s)]

\* An attempt may have been given up before.
MayComeLate(c, s) ==
    late' \in {late, late \cup {[shard |-> s, req |-> req[c]]}}

\* The leader's Ok: the size of the group, whether or not apply accepted it.
Served(c, s) ==
    /\ req[c].op # "create"
    /\ Close(c, s)
    /\ Apply(s, req[c]) /\ Touch(s, req[c])
    /\ count' = [count EXCEPT ![c] =
           @ + Cardinality(group_by_shard(req[c].ids, s))]
    /\ MayComeLate(c, s)
    /\ UNCHANGED <<dim, req, failed, requests, ready>>

\* Every attempt failed.
Unserved(c, s) ==
    /\ req[c].op # "create"
    /\ Close(c, s)
    /\ Fail(c)
    /\ MayComeLate(c, s)
    /\ UNCHANGED <<storeVars, req, count, historyVars>>

\* An attempt that was given up is carried out after all.
ServedLate(l) ==
    /\ Apply(l.shard, l.req) /\ Touch(l.shard, l.req)
    /\ late' = late \ {l}
    /\ UNCHANGED <<dim, requestVars, requests, ready>>

Next ==
    \/ \E c \in Client :
        \/ \E q \in Request : Ask(c, q)
        \/ \E t \in calls[c] : \/ Create(c, t) \/ CreateLost(c, t)
                               \/ Served(c, t) \/ Unserved(c, t)
    \/ \E l \in late : ServedLate(l)

Spec == Init /\ [][Next]_vars

-----------------------------------------------------------------------------
(* Properties *)

Ok(c) == Returned(c) /\ ~failed[c]

\* create_collection that returned Ok has made the collection, with its
\* dimension, on every replica of every shard (no node restarts here): whatever
\* the order in which the calls of two requests arrive, none that met the other's
\* collection, or what a failed one left half-done, is told Ok.
CreatedEverywhere ==
    \A c \in Client : Ok(c) /\ req[c].op = "create" =>
        \A n \in Node : dim[n] = req[c].dim

\* What a failed create_collection leaves on some of the nodes cannot be
\* completed by asking again, with any dimension, nor can two requests have
\* created the same collection: one that returns Ok began when no node had it.
CreatedAfresh ==
    \A c \in Client : Ok(c) /\ req[c].op = "create" => ready[c]

TookEffect(c) ==
    \A n \in Node :
        LET ids == group_by_shard(sole[c], n[1]) IN
        IF req[c].op = "insert"
        THEN ids \subseteq vectors[n] ELSE ids \cap vectors[n] = {}

\* insert and delete that return Ok, on a collection that every node had with
\* the right dimension, took effect in every shard and report all of their
\* records. Only a change of the same id that is carried out after the request
\* began can undo it: another request, or an attempt that was given up before.
\* Being asked for, or being able to come late, undoes nothing, and neither do
\* late attempts of the request itself.
AnswersAreTrue ==
    \A c \in Client : Ok(c) /\ req[c].op # "create" /\ ready[c] =>
        TookEffect(c) /\ count[c] = Cardinality(req[c].ids)

\* technical-design.md:274: "every acknowledged write is present exactly once".
\* Records that insert reported as inserted, and that nobody has touched since,
\* are there.
AcknowledgedIsPresent ==
    \A c \in Client : Ok(c) /\ req[c].op = "insert" => TookEffect(c)
=============================================================================
