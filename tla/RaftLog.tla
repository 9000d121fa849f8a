------------------------------ MODULE RaftLog -------------------------------
(***************************************************************************)
(* The Raft group of one shard: how three replicas agree on the log.       *)
(*                                                                         *)
(* The protocol is openraft's, a library; what it keeps, it keeps in the   *)
(* repository's LogStore (crates/raftvec-node/src/raft.rs): the vote, the  *)
(* entries and the committed index, all of them in memory. Its RPCs travel *)
(* over ShardRaft gRPC (raft_network.rs), where a call that timed out at   *)
(* the sender may still be executed by the receiver at any later time.     *)
(*                                                                         *)
(* Votes (term, node id) are ranked: a ballot is the rank of a vote and    *)
(* Owner its node. A log id is (ballot, index). Index 1 is the membership  *)
(* entry that raft.initialize() writes under ballot 0.                     *)
(*                                                                         *)
(* Requests in flight are not kept one by one. A leader's log grows while  *)
(* its ballot lasts, so every AppendEntries it ever sent is a section of   *)
(* leaderLog[b]; a receiver may handle any such section at any time, any   *)
(* number of times, or never. Vote requests are kept in candidateLog[b].   *)
(***************************************************************************)
EXTENDS Integers, Sequences, FiniteSets

CONSTANTS
    Replica,      \* the members of the group
    Majority,     \* the sets of replicas that are a quorum
    Bootstrap,    \* the replicas started with --bootstrap
    MaxBallot,    \* bound: ballots
    Owner,        \* the node of each ballot
    Value,        \* client commands
    MaxLog        \* bound: entries in a log

Ballot == 1..MaxBallot

ASSUME MajorityAssumption ==
    /\ Majority \subseteq SUBSET Replica
    /\ \A Q1, Q2 \in Majority : Q1 \cap Q2 # {}
ASSUME OwnerAssumption == Owner \in [Ballot -> Replica]
ASSUME BoundAssumption == MaxBallot \in Nat /\ MaxLog \in Nat
ASSUME BootstrapAssumption == Bootstrap \subseteq Replica

VARIABLES
    vote,          \* LogStore.vote of each replica; 0 is None
    log,           \* LogStore.log
    committed,     \* LogStore.committed, an index; 0 is None
    leader,        \* whether a replica leads under its vote
    candidateLog,  \* the last log id each ballot's vote request carries
    granted,       \* the replicas that granted each ballot
    leaderLog,     \* the log of each ballot's leader
    leaderCommit,  \* the committed index of each ballot's leader
    matched,       \* the index each replica confirmed to each ballot's leader
    chosen         \* history: the entries that have been committed

replicaVars == <<vote, log, committed, leader>>
ballotVars == <<candidateLog, granted, leaderLog, leaderCommit, matched>>
vars == <<replicaVars, ballotVars, chosen>>

Entry == [ballot : 0..MaxBallot, payload : Value \cup {"Membership", "Blank"}]

LogId(b, i) == [ballot |-> b, index |-> i]

-----------------------------------------------------------------------------
(* LogStore *)

\* Mutant: an id that does not tell how long the log is.
get_log_state_first(l) ==
    IF l = <<>> THEN LogId(0, 0) ELSE LogId(l[1].ballot, 1)

\* get_log_state: the id of the last entry
get_log_state(l) ==
    IF l = <<>> THEN LogId(0, 0) ELSE LogId(l[Len(l)].ballot, Len(l))

\* LogId's order
AtLeast(id1, id2) ==
    \/ id1.ballot > id2.ballot
    \/ id1.ballot = id2.ballot /\ id1.index >= id2.index

\* Mutant: the entry at the index stays (range excludes its start).
truncate_after(l, index) ==
    SubSeq(l, 1, IF index > Len(l) THEN Len(l) ELSE index)

\* truncate: every entry from the index on is removed
truncate(l, index) == SubSeq(l, 1, index - 1)

\* append: the entries follow the ones that are there
append(l, entries) == l \o entries

\* Mutant: only the vote for itself is stored.
save_vote_own(r, b) ==
    vote' = IF r = Owner[b] THEN [vote EXCEPT ![r] = b] ELSE vote

save_vote(r, b) == vote' = [vote EXCEPT ![r] = b]

\* Mutant: the index after the last committed one is stored.
save_committed_next(r, i) == committed' = [committed EXCEPT ![r] = i + 1]

save_committed(r, i) == committed' = [committed EXCEPT ![r] = i]

Larger(a, b) == IF a < b THEN b ELSE a

\* Of the leader's committed entries, those that this call has confirmed.
KnownCommitted(commit, last) == IF commit < last THEN commit ELSE last

-----------------------------------------------------------------------------
Init ==
    /\ vote = [r \in Replica |-> 0]
    /\ log = [r \in Replica |-> <<>>]
    /\ committed = [r \in Replica |-> 0]
    /\ leader = [r \in Replica |-> FALSE]
    /\ candidateLog = [b \in Ballot |-> LogId(0, 0)]
    /\ granted = [b \in Ballot |-> {}]
    /\ leaderLog = [b \in Ballot |-> <<>>]
    /\ leaderCommit = [b \in Ballot |-> 0]
    /\ matched = [b \in Ballot |-> [r \in Replica |-> 0]]
    /\ chosen = <<>>

\* main: raft.initialize(members) half a second after the start of a replica
\* with --bootstrap. openraft refuses it once there is a vote or an entry.
Initialize(r) ==
    /\ r \in Bootstrap
    /\ vote[r] = 0 /\ log[r] = <<>>
    /\ log' = [log EXCEPT ![r] =
           append(@, <<[ballot |-> 0, payload |-> "Membership"]>>)]
    /\ UNCHANGED <<vote, committed, leader, ballotVars, chosen>>

\* The election timer of a member fires. A replica without the membership
\* entry does not know it is a member.
Campaign(r, b) ==
    /\ log[r] # <<>>
    /\ Owner[b] = r /\ b > vote[r] /\ granted[b] = {}
    /\ save_vote(r, b)
    /\ leader' = [leader EXCEPT ![r] = FALSE]
    /\ candidateLog' = [candidateLog EXCEPT ![b] = get_log_state(log[r])]
    /\ granted' = [granted EXCEPT ![b] = {r}]
    /\ UNCHANGED <<log, committed, leaderLog, leaderCommit, matched, chosen>>

\* A vote request is granted: the log of the candidate is not behind, and
\* no higher vote was seen. save_vote comes before the answer.
GrantVote(r, b) ==
    /\ granted[b] # {} /\ r # Owner[b]
    /\ b > vote[r]
    /\ AtLeast(candidateLog[b], get_log_state(log[r]))
    /\ save_vote(r, b)
    /\ leader' = [leader EXCEPT ![r] = FALSE]
    /\ granted' = [granted EXCEPT ![b] = @ \cup {r}]
    /\ UNCHANGED <<log, committed, candidateLog, leaderLog, leaderCommit,
                   matched, chosen>>

\* A quorum granted the ballot. The new leader appends a blank entry.
BecomeLeader(r) ==
    LET b == vote[r] IN
    /\ b # 0 /\ Owner[b] = r /\ ~leader[r]
    /\ leaderLog[b] = <<>>
    /\ \E Q \in Majority : Q \subseteq granted[b]
    /\ Len(log[r]) < MaxLog
    /\ log' = [log EXCEPT ![r] =
           append(@, <<[ballot |-> b, payload |-> "Blank"]>>)]
    /\ leader' = [leader EXCEPT ![r] = TRUE]
    /\ leaderLog' = [leaderLog EXCEPT ![b] = log'[r]]
    /\ leaderCommit' = [leaderCommit EXCEPT ![b] = committed[r]]
    /\ matched' = [matched EXCEPT ![b][r] = Len(log'[r])]
    /\ UNCHANGED <<vote, committed, candidateLog, granted, chosen>>

\* raft.client_write on the leader: the command is appended.
ClientWrite(r, v) ==
    LET b == vote[r] IN
    /\ leader[r]
    /\ Len(log[r]) < MaxLog
    /\ log' = [log EXCEPT ![r] =
           append(@, <<[ballot |-> b, payload |-> v]>>)]
    /\ leaderLog' = [leaderLog EXCEPT ![b] = log'[r]]
    /\ matched' = [matched EXCEPT ![b][r] = Len(log'[r])]
    /\ UNCHANGED <<vote, committed, leader, candidateLog, granted,
                   leaderCommit, chosen>>

\* A replica handles an AppendEntries of ballot b that carries the entries
\* after prev up to last, and the leader's committed index of then. Entries
\* that are there already are kept, with what follows them; the first one
\* that differs is truncated with all that follow.
AppendEntries(r, b, prev, last, commit) ==
    LET sent == SubSeq(leaderLog[b], prev + 1, last)
        same == \A i \in prev + 1..last :
                    i <= Len(log[r]) /\ log[r][i] = leaderLog[b][i]
    IN
    /\ leaderLog[b] # <<>> /\ r # Owner[b]
    /\ b >= vote[r]
    /\ prev > 0 =>
           prev <= Len(log[r]) /\ log[r][prev] = leaderLog[b][prev]
    /\ save_vote(r, b)
    /\ leader' = [leader EXCEPT ![r] = FALSE]
    /\ log' = IF same THEN log
              ELSE [log EXCEPT ![r] = append(truncate(@, prev + 1), sent)]
    /\ save_committed(r, Larger(committed[r], KnownCommitted(commit, last)))
    /\ matched' = [matched EXCEPT ![b][r] = Larger(@, last)]
    /\ UNCHANGED <<candidateLog, granted, leaderLog, leaderCommit, chosen>>

\* A call that tells a replica nothing: it follows the ballot, has the entries
\* and has confirmed them, and knows that they are committed.
IsRepeat(r, b, prev, last, commit) ==
    /\ vote[r] = b /\ ~leader[r]
    /\ matched[b][r] >= last /\ committed[r] >= KnownCommitted(commit, last)
    /\ \A i \in prev + 1..last :
           i <= Len(log[r]) /\ log[r][i] = leaderLog[b][i]

\* A replica handles any call that the leader of a ballot may have sent by now.
\* To handle a repeat is to change nothing, a stuttering step.
Replicate(r, b) ==
    /\ r # Owner[b] /\ b >= vote[r]
    /\ \E last \in 0..Len(leaderLog[b]), commit \in 0..leaderCommit[b] :
           \E prev \in 0..last :
               /\ ~IsRepeat(r, b, prev, last, commit)
               /\ AppendEntries(r, b, prev, last, commit)

\* The leader finds an entry of its own ballot on a quorum.
Commit(r, i) ==
    LET b == vote[r] IN
    /\ leader[r]
    /\ i \in committed[r] + 1..Len(log[r])
    /\ log[r][i].ballot = b
    /\ \E Q \in Majority : \A q \in Q : matched[b][q] >= i
    /\ save_committed(r, i)
    /\ leaderCommit' = [leaderCommit EXCEPT ![b] = i]
    /\ chosen' = IF i > Len(chosen) THEN SubSeq(log[r], 1, i) ELSE chosen
    /\ UNCHANGED <<vote, log, leader, candidateLog, granted, leaderLog,
                   matched>>

Next ==
    \E r \in Replica :
        \/ Initialize(r)
        \/ \E b \in Ballot : Campaign(r, b) \/ GrantVote(r, b) \/ Replicate(r, b)
        \/ BecomeLeader(r)
        \/ \E v \in Value : ClientWrite(r, v)
        \/ \E i \in 1..MaxLog : Commit(r, i)

Spec == Init /\ [][Next]_vars

-----------------------------------------------------------------------------
(* Properties *)

TypeOK ==
    /\ vote \in [Replica -> 0..MaxBallot]
    /\ log \in [Replica -> Seq(Entry)]
    /\ \A r \in Replica : committed[r] \in 0..Len(log[r])
    /\ leader \in [Replica -> BOOLEAN]
    /\ candidateLog \in [Ballot -> [ballot : 0..MaxBallot, index : Nat]]
    /\ granted \in [Ballot -> SUBSET Replica]
    /\ leaderLog \in [Ballot -> Seq(Entry)]
    /\ \A b \in Ballot : leaderCommit[b] \in 0..Len(leaderLog[b])
    /\ matched \in [Ballot -> [Replica -> 0..MaxLog]]
    /\ chosen \in Seq(Entry)

\* Two logs that share an entry agree on everything before it.
LogMatching ==
    \A r, s \in Replica : \A i \in 1..Len(log[r]) :
        i <= Len(log[s]) /\ log[r][i].ballot = log[s][i].ballot =>
            \A j \in 1..i : log[r][j] = log[s][j]

\* The entries a replica may apply.
Known(r) == SubSeq(log[r], 1, committed[r])

Agreed == INSTANCE AgreedLog WITH known <- [r \in Replica |-> Known(r)]

\* The group keeps the promise of AgreedLog: what is committed once stays
\* committed, in every replica, through elections, late and repeated calls.
AgreedLogKept == Agreed!AgreedSpec

\* The leader of the highest ballot, the one that can still commit.
Leads(r) ==
    leader[r] /\ \A b \in Ballot : leaderLog[b] # <<>> => b <= vote[r]

\* As long as no process restarts, the leader has every entry that was ever
\* committed: client_write answers once its entry is committed and applied.
CommittedNeverLost ==
    \A r \in Replica : Leads(r) => Agreed!Prefix(chosen, log[r])
=============================================================================
