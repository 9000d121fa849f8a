---------------------------- MODULE Replication -----------------------------
(***************************************************************************)
(* How a leader brings its followers up to date: openraft's replication    *)
(* streams call the peers through GrpcNetwork (crates/raftvec-node/src/    *)
(* raft_network.rs), out of a LogStore (raft.rs) that is purged behind     *)
(* snapshots.                                                              *)
(*                                                                         *)
(* There is one leader, for one term; RaftLog models elections and logs    *)
(* that conflict. Followers may be cut off for a while and keep their      *)
(* memory. A log is the set of the indexes in its map. Applying, building  *)
(* a snapshot and deciding what to purge are openraft's: a replica may     *)
(* purge whatever it knows to be committed.                                *)
(***************************************************************************)
EXTENDS Integers, FiniteSets, Sequences

CONSTANTS
    Leader, Follower,     \* the replicas
    max_payload_entries,  \* the entries of one AppendEntries
    MaxIndex,             \* bound: entries
    MaxFaults             \* bound: cuts and calls lost on the way

Replica == Follower \cup {Leader}

ASSUME ReplicaAssumption == Leader \notin Follower /\ IsFiniteSet(Follower)
ASSUME BoundAssumption ==
    max_payload_entries \in Nat \ {0} /\ MaxIndex \in Nat /\ MaxFaults \in Nat

VARIABLES
    log,          \* LogStore.log: the indexes of its entries
    last_purged,  \* LogStore.last_purged_log_id; 0 is None
    committed,    \* LogStore.committed; 0 is None
    clients,      \* GrpcNetwork.clients of the leader: the peers in the cache
    pc,           \* where the call to each follower is
    sent,         \* what it carries
    matched,      \* what each follower has confirmed to the leader
    cut,          \* the followers that cannot be reached
    faults        \* faults so far (bounds the model)

storeVars == <<log, last_purged, committed>>
callVars == <<clients, pc, sent>>
vars == <<storeVars, callVars, matched, cut, faults>>

Nothing == [prev |-> 0, entries |-> {}, commit |-> 0]

Init ==
    /\ log = [r \in Replica |-> {}]
    /\ last_purged = [r \in Replica |-> 0]
    /\ committed = [r \in Replica |-> 0]
    /\ clients = {}
    /\ pc = [f \in Follower |-> "idle"]
    /\ sent = [f \in Follower |-> Nothing]
    /\ matched = [f \in Follower |-> 0]
    /\ cut = {}
    /\ faults = 0

-----------------------------------------------------------------------------
(* LogStore *)

Greatest(S) == CHOOSE i \in S : \A j \in S : j <= i

Larger(i, j) == IF i < j THEN j ELSE i

\* Mutant: an empty map is an empty log, whatever was purged.
get_log_state_unpurged(r) == IF log[r] = {} THEN 0 ELSE Greatest(log[r])

\* get_log_state: the last entry, or the last one purged
get_log_state(r) == IF log[r] = {} THEN last_purged[r] ELSE Greatest(log[r])

\* Mutant: the range excludes its end.
try_get_log_entries_before(r, from, to) == {i \in log[r] : from <= i /\ i < to}

try_get_log_entries(r, from, to) == {i \in log[r] : from <= i /\ i <= to}

append(r, entries) == log' = [log EXCEPT ![r] = @ \cup entries]

purge(r, index) ==
    /\ last_purged' = [last_purged EXCEPT ![r] = index]
    /\ log' = [log EXCEPT ![r] = {i \in @ : i > index}]

save_committed(r, index) == committed' = [committed EXCEPT ![r] = index]

\* raft.client_write on the leader
ClientWrite ==
    LET index == get_log_state(Leader) + 1 IN
    /\ index <= MaxIndex
    /\ append(Leader, {index})
    /\ UNCHANGED <<last_purged, committed, callVars, matched, cut, faults>>

\* The leader has heard of an entry from a quorum, itself included.
Commit(i) ==
    /\ committed[Leader] < i /\ i <= get_log_state(Leader)
    /\ 2 * (Cardinality({f \in Follower : matched[f] >= i}) + 1)
           > Cardinality(Follower) + 1
    /\ save_committed(Leader, i)
    /\ UNCHANGED <<log, last_purged, callVars, matched, cut, faults>>

\* Entries that a snapshot covers are purged.
Purge(r, i) ==
    /\ last_purged[r] < i /\ i <= committed[r]
    /\ purge(r, i)
    /\ UNCHANGED <<committed, callVars, matched, cut, faults>>

-----------------------------------------------------------------------------
(* GrpcConnection::call *)

\* What follows the entries a follower has confirmed, or the ones that were
\* purged. A call without entries is a heartbeat.
Payload(f) ==
    LET prev == Larger(matched[f], last_purged[Leader]) IN
    [prev |-> prev,
     entries |-> try_get_log_entries(Leader, prev + 1, prev + max_payload_entries),
     commit |-> committed[Leader]]

\* Mutant: the lock is held until the peer is connected.
HoldsLockOverConnect(f) == pc[f] \in {"lookup", "connect", "insert"}

\* get_or_connect locks the cache to look up and to insert.
HoldsLock(f) == pc[f] \in {"lookup", "insert"}

LockIsFree(f) == \A g \in Follower \ {f} : ~HoldsLock(g)

Goto(f, label) == pc' = [pc EXCEPT ![f] = label]

\* The request is serialized.
Start(f) ==
    /\ pc[f] = "idle"
    /\ Goto(f, "begin")
    /\ sent' = [sent EXCEPT ![f] = Payload(f)]
    /\ UNCHANGED <<storeVars, clients, matched, cut, faults>>

\* self.clients.lock().await, the first time and the second
Lock(f) ==
    /\ LockIsFree(f)
    /\ \/ pc[f] = "begin" /\ Goto(f, "lookup")
       \/ pc[f] = "connected" /\ Goto(f, "insert")
    /\ UNCHANGED <<storeVars, clients, sent, matched, cut, faults>>

Lookup(f) ==
    /\ pc[f] = "lookup"
    /\ Goto(f, IF f \in clients THEN "call" ELSE "connect")
    /\ UNCHANGED <<storeVars, clients, sent, matched, cut, faults>>

Connect(f) ==
    /\ pc[f] = "connect" /\ f \notin cut
    /\ Goto(f, "connected")
    /\ UNCHANGED <<storeVars, clients, sent, matched, cut, faults>>

Insert(f) ==
    /\ pc[f] = "insert"
    /\ clients' = clients \cup {f}
    /\ Goto(f, "call")
    /\ UNCHANGED <<storeVars, sent, matched, cut, faults>>

\* The call returns to openraft.
End(f) ==
    /\ Goto(f, "idle")
    /\ sent' = [sent EXCEPT ![f] = Nothing]

\* The snapshots there are to send. There is no snapshot cache: None.
get_current_snapshot == {}

\* The entries of a call follow what the peer has. Otherwise openraft falls back
\* to a snapshot that reaches as far.
Accepts(f, m) == \E i \in {get_log_state(f)} \cup get_current_snapshot : m.prev <= i

LastOf(m) == IF m.entries = {} THEN m.prev ELSE Greatest(m.entries)

\* Mutant: what has arrived is taken for committed.
CommitOf_arrived(m) == LastOf(m)

\* What a call lets its peer take for committed never exceeds its entries.
CommitOf(m) == IF m.commit < LastOf(m) THEN m.commit ELSE LastOf(m)

\* ShardRaftService::append_entries and the peer's Raft: entries the peer has
\* are not appended again.
Handle(f) ==
    LET m == sent[f] IN
    IF Accepts(f, m)
    THEN /\ append(f, {i \in m.entries : i > get_log_state(f)})
         /\ save_committed(f, Larger(committed[f], CommitOf(m)))
    ELSE UNCHANGED <<log, committed>>

Confirm(f) == matched' = [matched EXCEPT ![f] = Larger(@, LastOf(sent[f]))]

\* The peer's answer comes back: success, or a conflict.
Answered(f) ==
    /\ pc[f] = "call" /\ f \notin cut
    /\ End(f)
    /\ Handle(f)
    /\ IF Accepts(f, sent[f]) THEN Confirm(f) ELSE UNCHANGED matched
    /\ UNCHANGED <<last_purged, clients, cut, faults>>

\* Mutant: an error is taken for an answer.
Error_confirmed(f) == Confirm(f)

\* RPCError: openraft learns nothing about the follower and will try again.
Error(f) == UNCHANGED matched

\* The peer cannot be reached: CONNECT_TIMEOUT, or Unavailable.
Unreachable(f) ==
    /\ pc[f] \in {"connect", "call"} /\ f \in cut
    /\ End(f)
    /\ Error(f)
    /\ UNCHANGED <<storeVars, clients, cut, faults>>

-----------------------------------------------------------------------------
(* Faults *)

Fault == faults < MaxFaults /\ faults' = faults + 1

\* openraft's timeout (heartbeat_interval) drops a call at an await, or the
\* call is lost, before or after the peer has handled it.
Lost(f) ==
    /\ Fault
    /\ pc[f] \in {"begin", "connect", "connected", "call"}
    /\ End(f)
    /\ Error(f)
    /\ \/ UNCHANGED <<log, committed>>
       \/ pc[f] = "call" /\ Handle(f)
    /\ UNCHANGED <<last_purged, clients, cut>>

Cut(f) ==
    /\ Fault
    /\ f \notin cut
    /\ cut' = cut \cup {f}
    /\ UNCHANGED <<storeVars, callVars, matched>>

Heal(f) ==
    /\ f \in cut
    /\ cut' = cut \ {f}
    /\ UNCHANGED <<storeVars, callVars, matched, faults>>

Next ==
    \/ ClientWrite
    \/ \E i \in 1..MaxIndex : Commit(i)
    \/ \E r \in Replica, i \in 1..MaxIndex : Purge(r, i)
    \/ \E f \in Follower :
        \/ Start(f) \/ Lock(f) \/ Lookup(f) \/ Connect(f) \/ Insert(f)
        \/ Answered(f) \/ Unreachable(f) \/ Lost(f)
        \/ Cut(f) \/ Heal(f)

\* The streams go on; tokio's mutex serves its waiters in turn; a peer that can
\* be reached answers. Nothing is assumed of calls to one that cannot.
Fairness ==
    \A f \in Follower :
        /\ WF_vars(Start(f)) /\ SF_vars(Lock(f)) /\ WF_vars(Lookup(f))
        /\ WF_vars(Connect(f)) /\ WF_vars(Insert(f)) /\ WF_vars(Answered(f))

Spec == Init /\ [][Next]_vars /\ Fairness

-----------------------------------------------------------------------------
(* Properties *)

\* The entries of a LogStore follow one another, from the last one purged: also
\* when everything was purged and when calls overlap, are lost or repeated.
LogHasNoGap ==
    \A r \in Replica : log[r] = last_purged[r] + 1..get_log_state(r)

\* What any replica takes for committed is with a majority: a call that ended
\* in an error confirms nothing, whatever the peer did with it.
CommittedOnMajority ==
    \A r \in Replica :
        2 * Cardinality({s \in Replica : get_log_state(s) >= committed[r]})
            > Cardinality(Replica)

\* In one term the index says which entry it is.
Upto(n) == [i \in 1..n |-> i]

Agreed == INSTANCE AgreedLog WITH
    chosen <- Upto(committed[Leader]),
    known  <- [r \in Replica |-> Upto(committed[r])]

\* The streams keep the promise of AgreedLog: what the leader committed stays
\* so, and what a follower may apply is a growing part of it, although a call
\* may be lost after it was handled, and the next one starts further back.
CommitsInOrder == Agreed!AgreedSpec

\* The leader has purged what a follower needs next, and no call under way
\* brings it.
LeftBehind(f) ==
    /\ get_log_state(f) < last_purged[Leader]
    /\ sent[f].entries = {} \/ get_log_state(f) < sent[f].prev

\* The call to a follower brings more than the follower has confirmed.
Ahead(f) == matched[f] < LastOf(sent[f])

Progress(f) ==
    /\ Start(f) /\ matched[f] < get_log_state(Leader) => Ahead(f)'
    /\ Ahead(f) => \/ Ahead(f)'
                   \/ Answered(f) /\ (matched'[f] = LastOf(sent[f]) \/ LeftBehind(f)')
                   \/ Unreachable(f) \/ Lost(f)

\* No answered call is in vain: a call to a follower that has not confirmed all
\* of the leader's log brings more, until it is answered or fails; once it is
\* answered, the follower has confirmed what it brought or is left behind.
CallsMakeProgress == [][\A f \in Follower : Progress(f)]_vars

\* get_or_connect, raft_network.rs:55: the lock never covers the connect,
\* "otherwise one slow connect to a dead peer serializes connects to healthy
\* peers behind it". A follower that can be reached, and whose next entry is
\* still there, catches up, even if a connect to another one never returns.
FollowersCatchUp ==
    \A f \in Follower :
        []<>(\/ f \in cut
             \/ get_log_state(f) < last_purged[Leader]
             \/ get_log_state(f) = get_log_state(Leader))

\* technical-design.md:248: "a restarted or lagging replica must catch up
\* without replaying the full log".
LaggingCatchesUp ==
    \A f \in Follower :
        []<>(f \in cut \/ get_log_state(f) = get_log_state(Leader))
=============================================================================
