# raftvec in TLA+

raftvec is a sharded vector database: records are hashed to shards, each shard
is a Raft group (openraft) whose replicas apply the log to an in-memory store,
and an aggregator routes writes to the leaders and merges the top-k lists of all
shards. These modules model its replication, its snapshots, its client
operations and its search. Paths below are relative to `src/crates`.

## The system

| part | state | operations | what makes it correct |
|---|---|---|---|
| `Store` (`raftvec-node/src/store.rs`) | collections, each a dimension and a map from ids to vectors | create, insert, delete, search, snapshot, restore | a batch is stored whole or not at all; the last writer of an id wins |
| `ShardStateMachine` (`raft.rs`) | the store, `last_applied_log` | apply, build and install a snapshot | equal prefixes of the log give equal stores; a snapshot is the state of its index |
| `LogStore` (`raft.rs`) | vote, entries, committed index, all in memory | append, truncate, purge, save_vote, save_committed | with openraft: one agreed log |
| transport (`raft_network.rs`) | cached connections behind one lock | append_entries, vote, install_snapshot | may lose, delay and repeat calls without harm; a dead peer stops only the calls to itself |
| `NodeService` (`service.rs`) | none | create_collection, insert, delete, search | an answered write stays; a search is never stale |
| top-k (`raftvec-core`) | bounded heaps | push, merge, parallel scan | exact, whatever the split and whatever the ties |
| router (`raftvec-aggregator/src/router.rs`) | one leader hint per shard | fan-out, retries, merge | results exact for the shards that answered; failures reported |

Clients call the aggregator; its router calls `NodeService` on the replica it
takes for the leader. Writes go through `raft.client_write` into the log and
come back to every replica's `apply`. `CreateCollection` is different: it
reaches every replica directly and is not in the log.

The behaviours that are hard to test are listed as hazards in `PROJECT.json`,
with their lines: the order of `CreateCollection` and the log, the snapshot task
beside the apply loop, late and repeated Raft calls, calls that fail after they
took effect, logs that are purged, restarts with empty memory, deposed leaders
that still answer, the order of merges in the scan, and shards that fail during a
search.

## The modules

| module | models |
|---|---|
| `VectorStore` | `Store` as a value, its operations as functions of it |
| `ShardStateMachine` | the replicas of a shard applying one log; snapshots, creations, restarts |
| `SnapshotTransfer` | the same with `install_snapshot` |
| `AgreedLog` | what a Raft group promises its state machines |
| `RaftLog` | openraft's protocol over `LogStore`; implements `AgreedLog` |
| `RaftLogRestart` | the same with replicas that restart |
| `LinearLog` | what a shard promises its clients |
| `NodeService` | `RaftLog` with client answers and linearizable searches; implements `LinearLog` |
| `ShardSearch` | a distributed search, from the scan to the router's merge |
| `LeaderRetry` | the router's search for the leader of a shard |
| `Replication` | a leader's calls to its followers: the connection cache, lost calls, purged logs; implements `AgreedLog` |
| `RouterWrites` | the router's create, insert and delete over all shards |
| `RaftLogSteps`, `RaftLogProofs`, and `*Proofs` of the others | the proofs |
| `MC*` | constants for TLC |

**ShardStateMachine.** `apply` is two steps per entry, because the code
publishes `last_applied_log` before it changes the store and takes no lock over
both. `build_snapshot` is a task of its own: it copies one collection per step
(each has its own lock, while the lock on the map of collections is held, which
keeps `create_collection` out), then reads the index. A restart empties the
replica. `rejected` and `createdAt` record what a replica did with an entry and
when it created a collection. An embedding and its metadata are one value of
which only the dimension matters; norms and `shard_count` are left out.

**SnapshotTransfer.** `install_snapshot` replaces the store, then sets the
index. `get_current_snapshot` answers `None`, so no snapshot is sent in a running
cluster today; the module composes the two functions as openraft's storage
interface does. `quiet`, `built` and `clean` are history.

**RaftLog.** openraft is a library; its rules (which vote is granted, when an
entry is committed, what a follower does with AppendEntries) are modelled from
the interface `LogStore` implements and marked external. Votes are ranked into
ballots. In-flight requests are not listed: every request a leader sent is a
section of its log and may be handled at any time, repeatedly or never, which
covers loss, delay, reordering and duplication. A call that finds everything it
brings in place (`IsRepeat`) changes nothing; `Replicate` leaves it out, because
a specification allows steps that change nothing anyway. `purge` is in
`Replication`.

**Replication.** One leader in one term. Each follower has a replication stream
that calls it through `GrpcConnection::call`: lock the cache, look up, unlock,
connect, lock, insert, send, and wait. Every await is a step of its own, and at
every await openraft's timeout may drop the call (`Lost`); the peer may have
handled it by then. Links are cut and heal. A log is the set of indexes in
`LogStore`'s map, so that a gap could show. Replicas purge whatever they know to
be committed, at any time: that is more than openraft's snapshot policy does.
Where a follower needs entries that are gone, openraft asks for
`get_current_snapshot`, which has none. Restarts are in `RaftLogRestart`.

**NodeService.** A write is answered when the replica that took it has applied
its entry. A search takes the replica's belief, lets a quorum confirm it, waits
for the read index (at least the leader's own blank entry), reads, answers.
Heartbeats that come after a quorum has answered are plain calls of `RaftLog`. The
apply loop may be anywhere up to the committed index. Stores are represented by
the prefix of the log they reflect; `ShardStateMachine` says what that means.
`LinearLog` is the view from outside: one log, writes that are answered out of it
and reads of a prefix that has everything any client knew of when they began. A
search is a `LinearLog` read from its first step to its answer, and takes effect
when it reads the store.

**ShardSearch.** Each shard has several workers; which worker scans which record,
which heap is merged into which, and in which order a heap yields its items
are all open, as with rayon and an unsorted heap. A shard may fail at any time
before the router merges.

**LeaderRetry.** Several requests run `call_with_retry` over one `leader_hint`.
A replica that does not lead redirects to the leader it knows of, or fails. The
leader serves the request, or answers any attempt with an error (`Refuse`): a
search of a collection it does not have or with another dimension, a read that
no quorum confirms, a write or a scan that fails. `call_with_retry` does not
tell these errors from those of other replicas (`router.rs:348`): a request that
cannot be served uses up its attempts, may reach the leader more than once, and
moves `leader_hint` off the leader each time. The properties of success are
therefore about requests that no leader refuses, while others are refused beside
them. A replica that is down never answers. Crashes, restarts, elections that
depose a live leader, and late answers are faults of the environment, bounded by
`MaxFaults`. `listed` says whether the addresses in redirects are those the
router was configured with. A search may be cancelled by its deadline after any
attempt. An attempt that was given up has no later effect here; `RouterWrites`
follows it.

**RouterWrites.** `create_collection` is one call per node, insert and delete
one (retried) call per shard with a group. A call may fail before or after it
took effect, and an attempt that was given up may be carried out at any later
time. All replicas of a shard apply an entry in one step here, so that "every
replica" in the properties rests on that; `ShardStateMachine` has them one after
the other. Nodes do not restart. `ready` records whether the nodes were ready for
a request when it began: none had the collection it creates, or all had the one
it writes to. `sole` keeps the ids of a request that no other change has
reached since it began. A late attempt of an earlier request takes an id out of it
when it is carried out, not before: that it may then undo what was answered
meanwhile is what the code does.

## The runs

| run | instance | distinct states | shows |
|---|---|---|---|
| `shard_agreement` | 2 replicas, 1 collection, 2 dimensions, 2 ids, log of 3, 1 restart, 1 build | 3,500,376 | stores are what the log and the creations say; snapshots are never ahead of their index |
| `snapshot_transfer` | 2 replicas, log of 2, 2 builds, 1 restart | 1,078,014 | undisturbed snapshots are exact, also when passed on |
| `node_service` | 3 replicas, 2 ballots, log of 3 | 254,285 | the log is agreed, the leader has all of it; answers are kept; searches are current; clients see one log |
| `replication` | leader, 2 followers, calls of 1 entry, 2 entries, 2 faults | 366,655 | logs have no gap; committed is with a majority and only grows; no answered call is in vain; reachable followers catch up |
| `shard_search` | 5 records with ties, 2 shards of 2 workers, k = 2 | 233,820 | top-k is exact |
| `leader_retry` | 3 replicas, 2 requests at a time, 4 attempts, 2 faults | 1,024,885 | a stale guess costs one retry; requests fail only if disturbed or refused; service resumes |
| `router_writes` | 2 shards of 2 replicas, 2 ids, 2 dimensions, 2 clients, 3 requests | 1,108,767 | what is answered Ok is true; collections are created afresh or not at all |
| `shard_determinism` | as the first, no restart | violation | replicas may disagree on a rejection |
| `snapshot_race` | 2 replicas, log of 2, 1 build | violation | a snapshot may lack an entry it claims |
| `raft_restart` | 3 replicas, 3 ballots, 1 restart | violation | a restarted replica can cost a committed write |
| `router_ack` | as `router_writes` | violation | an insert that was rejected is acknowledged |
| `catch_up` | as `replication`, 1 fault | violation | a follower whose next entry was purged stays behind |

The bounds are the smallest at which the cases meet. Three entries are a write,
an overwrite or rejection, and a delete; the commands include a batch with an id
twice and one with mixed dimensions. Three log positions of `RaftLog` hold the
membership entry, a leader's blank entry and a client's command, and two ballots
are a deposed leader and its successor, who overwrites its entries. One
collection shows the race of the builder with the apply loop; that a snapshot
copies several collections at different times, and that there are more ballots,
is covered by the proofs. In `Replication`, calls of one entry make every
follower lag by a call, and two faults are a cut link and a lost call, or two of
either: enough for a purge behind a follower's back, a repeated append and both
followers out of reach. Five records make the heaps of size two overflow in a
scan, in a merge and in the router, with ties in each. k = 0 and all other sizes
are covered by the proof. Replicas are symmetric in the runs of the state
machine and, with clients and dimensions, in those of `RouterWrites`. They are
not in `RaftLog`, where ballots belong to nodes. Two faults are enough for a
crash and the loss of an answer, or a crash and a restart; one replica of three
may be down. Three requests are a creation, a write and one that interferes.
Deadlock checking is off where a bounded instance ends, and on in `LeaderRetry`,
where requests keep coming, and in `Replication`, where heartbeats do.

All properties hold without fairness (invariants, action properties and
refinements), except `ServiceResumes` of `LeaderRetry` and `FollowersCatchUp`
and `LaggingCatchesUp` of `Replication`. `ServiceResumes` assumes weak fairness
of each request's next step, the handler on a live replica included (tokio polls
it, and its timer ends an attempt on a stopped replica), and of openraft's
election and heartbeats while a majority runs. It is conditional on leaders that
no longer refuse, because a service that is asked for an unknown collection only
never succeeds. That requests keep arriving is an assumption on the clients.
Cancelling is not fair, and it may hit every request after its first attempt;
that the deadline is longer than one attempt (2 s and 400 ms by default) is
built in.

The properties of `Replication` assume weak fairness of each step of a stream
(openraft's task starts the next call, tokio polls it, a peer that can be
reached answers) and strong fairness of taking the lock, because tokio's mutex
serves its waiters in turn. Nothing is assumed about calls to a peer that cannot
be reached, not even that the connect times out: the others must catch up
regardless. Purging, cutting and healing are not fair.

### Where code and text disagree

* `shard_determinism`: `raft.rs:221` calls rejections deterministic. They depend
  on when `CreateCollection` arrived. `RejectionsExplained` and `ReplicasAgree`
  state what holds instead, and the theorem `CreatedAlikeRejectAlike` that the
  comment is right while the creations are alike on all replicas.
* `snapshot_race`: `build_snapshot` reads its index after its data, so an entry
  applied in between is in the index and not in the data. `SnapshotNeverAhead`
  is the half that holds.
* `raft_restart`: `README.md:29` rules out losing an acknowledged write to one
  node failure, and the limitations mention only a restart of the full cluster.
  A node that fails and comes back with an empty `LogStore` may vote again and
  elect a leader without a committed entry. The trace needs that one restart and
  message delays. `node_service` shows that nothing is lost while nodes stay up.
* `catch_up`: `docs/technical-design.md:248` wants a lagging replica to catch up
  without replaying the log. `get_current_snapshot` (`raft.rs:265`) has nothing
  to send, so a follower that was cut off while the leader purged its next entry
  stays behind. `FollowersCatchUp` is what holds: a follower catches up as long
  as its next entry is there. The theorem `LeftBehindForGood` says that once it
  is not, and no call under way brings it, nothing in the code ever does.
* `router_ack`: `service.rs:114` reports the size of the batch, not what `apply`
  accepted, while `docs/technical-design.md:274` asks that every acknowledged
  write is present. `AnswersAreTrue` is what holds once every node has the
  collection with the right dimension.

## The proofs

`ShardStateMachineProofs` proves, for any number of replicas, collections, ids,
commands and any bounds, `TypeOK`, `LastWriterWins`, `RejectionsExplained`,
`ReplicasAgree` and `SnapshotNeverAhead`. The assumptions are those of the
modules: the "none" values are not data, and commands are well-formed. The
inductive invariant adds to the properties that each collection a running
builder has copied reflects some prefix up to the replica's current index: that
is what carries `SnapshotNeverAhead` from the copy to the end of the build.
`ReplicasAgree` follows from the other two: equal creations give equal
rejections (`CreatedAlikeRejectAlike`), and those give equal last writers.
`InsertIsTheLoop` ties the closed form of `insert` to the loop in `store.rs`: no
record changes nothing, and one record more is one more overwriting insert.

The same module proves `QuietSnapshotsAreExact` of `SnapshotTransfer`. Here a
store may come from another replica, so the invariant `TInv` cannot speak of
what this replica has applied. It says that a clean store shows the first n
entries, less the rejections of the replicas they were applied on, where n is
the applied index, or the index of the snapshot while one is being installed;
that every exact snapshot shows the entries up to its `last_log_id`; and that a
builder that nothing has disturbed holds a copy of the store in all collections
it has visited. Collections that do not exist count too: every entry for them
was refused, which is what makes a later creation harmless.
`InstalledAgreesWithReplayed` draws the conclusion for two replicas: one that
took over such a snapshot and one that replayed the log hold the same vectors at
the same index, if they rejected the same commands.

`ShardSearchProofs` proves `HeapsAreExact` and `SearchIsExact` for every finite
set of records, every partition, every number of workers and every k. Two lemmas
carry it: `PushTop` (pushing an item keeps a heap the top k of what it stands
for) and `MergeTop` (an item beaten by k items of one heap cannot be in the top
k of the union). The invariant says that every record is in exactly one place:
unscanned, or covered by one live heap of its own shard.

`RaftLogSteps` and `RaftLogProofs` prove `TypeOK`, `LogMatching`,
`CommittedNeverLost` and that `RaftLog` implements `AgreedLog` (`AgreedLogKept`),
for any set of replicas, any system of intersecting quorums, any assignment of
ballots to replicas and any bounds. The properties are far from inductive. The
invariant needs to say what may still happen to an entry that is not committed
yet: an entry of ballot b is `Blocked` once a quorum has moved past b without
confirming it, and no later step can unblock it. `SafeOK`, the core, says that an
entry is blocked or in the log of every leader of a later ballot. A new leader
has it because one of the replicas that elected it has it (`AcceptedOK`, with
quorums that intersect), and that replica compared the last ids when it granted
the vote (`GrantedOK`, and the order of log ids); the log of the candidate then
agrees with that of the ballot its last entry came from (`LogsOK`). `CommitOK`
ties every committed index to an entry on a quorum, which can never be blocked,
so that `SafeOK` applies to it. Four theorems say what follows for a replica:
`StateMachineSafety` (no two replicas apply different entries at an index),
`CommittedIsNeverTruncated` (no step changes an entry its replica knows to be
committed), `LeaderCompleteness` (what a quorum confirmed is in the log of every
later leader) and `LeaderAppendOnly`.

`NodeServiceProofs` builds on this and proves `AckedIsKept` and
`ReadsAreCurrent`. A leader that misses something committed when a search begins
is `Deposed`: the quorum that granted the newer ballot will not confirm it
again. Two refinements follow. `NodeKeepsRaft`: with its heartbeats mapped to
AppendEntries, every behaviour of the handlers is one of `RaftLog`, so that all
that is proved there holds with clients on top. A heartbeat may be a repeat;
`RepeatChangesNothing` shows that it is then a stuttering step.
`ImplementsLinearLog` (`ClientsSeeOneLog`): the agreed log is the log of
`LinearLog`, and each handler step is one of its steps or invisible to clients.

`ReplicationProofs` proves `LogHasNoGap`, `CommittedOnMajority` and that
`Replication` implements `AgreedLog` (`CommitsInOrder`) for any number of
followers, any payload size and any faults. The invariant says that the log
of a replica and the entries of every call in flight are runs of consecutive
indexes, that a replica never purges more than it knows to be committed, and
that a confirmed index was really reached. The refinement maps what the leader
committed to the agreed log, and needs besides that a late or repeated call takes
no committed index back. `LeftBehindForGood` is an action property: a follower
that is left behind stays where it is in every step of any replica.

Two more theorems of that module are the part of catching up that needs no
fairness. `CallsMakeProgress` is an action property: a call to a follower that
has not confirmed the whole log brings more than it has confirmed, and once it is
answered the follower has confirmed all it brought, or is left behind.
`ConflictsAreFinal` says that a follower refuses a call only in the second case.
Both rest on `CInv`: a call starts no further than what its follower has
confirmed or the leader has purged. Lost and repeated calls therefore never open
a hole between a follower and the next call, only a purge does.

`LeaderRetryProofs` proves `TypeOK`, `NeverAWrongAnswer`,
`StaleGuessCostsOneRetry` for every group, and `GivesUpOnlyIfDisturbed` in two
forms: for groups with at most as many replicas as attempts, and, if redirects
can be followed, for groups of up to twice the attempts less two. All hold while
leaders answer other calls with errors. The code has four attempts
(`router.rs:58`), so that is four and six replicas. A call that nothing disturbs
and no leader refuses goes round the list and meets the leader, or is redirected
to it, before it comes back to where it started; that gives the first form. For
the cost, the invariant adds the attempts made to the replicas between the guess
and the leader that are down (`Ahead`): their sum never exceeds the number of
replicas that are down, plus one once the guess is the leader. The second form
follows because a leader needs a majority that is up.

`RouterWritesProofs` proves `CreatedEverywhere`, `CreatedAfresh` and
`AnswersAreTrue` for any number of shards, replicas, ids and requests at a time.
A creation that began with the collection on some node, and has not failed yet,
still has to call such a node (`Doomed`), which will answer `AlreadyExists`. For
writes the invariant follows each request: the collection it found ready stays so
(`Prepared`), its sole ids look as it asked at the shards whose calls have returned
(`Effect`), and the records counted so far are those of these shards (`Counted`).

The assumptions are those stated in the modules: finite sets where counting is
involved, "none" values that are no data, intersecting quorums, positive counts.

Every safety and action property of a passing run is proved. Only model-checked
are the liveness properties `ServiceResumes` and `FollowersCatchUp`: they rest
on fairness and on which steps are enabled, which the prover does not handle.

## Not modelled

* `cluster_status` and the connects at the aggregator's start: reads and set-up
  without effect on the state above.
* The metadata of a search result, which is read after its score (`service.rs:201`)
  and may come from a newer state; no document promises otherwise.
* `MAX_MESSAGE_SIZE`: payloads have no size here.
* `create_collection` and `cluster_status` wait for a hanging node without a
  timeout; no document bounds them, and the models let a call stay open.
* Metrics (`metrics.rs`), which nothing reads back.
* `vecctl` and the load generator: clients without shared state.
* Floating-point similarity (scores are ranks), the hash of ids (any function),
  generated gRPC code, command-line parsing.
* The MetaRaft group of the design document, for which there is no code.
