---------------------------- MODULE NodeService -----------------------------
(***************************************************************************)
(* The client's view of one shard: the replicas of RaftLog with their      *)
(* apply loops and the handlers of NodeService                             *)
(* (crates/raftvec-node/src/service.rs). insert and delete answer once the *)
(* leader has applied their entry; search asks a quorum whether this       *)
(* replica still leads, waits for the apply loop, and reads the store.     *)
(*                                                                         *)
(* A store is the number of entries applied to it: ShardStateMachine shows *)
(* what the store holds after a prefix of the log. The apply loop may be   *)
(* anywhere up to the committed index whenever it is looked at. One search *)
(* at a time is followed; one that overlaps with it may take effect before *)
(* or after it.                                                            *)
(***************************************************************************)
EXTENDS RaftLog

CONSTANT NoSearch     \* no search is in progress

VARIABLES
    acked,     \* history: the last entry a client has an answer for, or has
               \* seen the effect of in the result of a search
    search     \* the search in progress

nodeVars == <<acked, search>>

NodeInit ==
    /\ Init
    /\ acked = 0
    /\ search = NoSearch

\* Mutant: entries are applied before they are committed.
AppliedEarly(r) == 0..Len(log[r])

\* Where the apply loop of a replica may be.
Applied(r) == 0..committed[r]

-----------------------------------------------------------------------------
(* insert, delete: client_write is ClientWrite of RaftLog, then the answer. *)

\* Ok(_): openraft answers the caller on the replica that took the write when
\* that replica has applied the entry. The other outcomes, a leader hint or an
\* error, change nothing.
AnswerWrite(r, i) ==
    /\ i \in Applied(r)
    /\ log[r][i].payload \in Value /\ Owner[log[r][i].ballot] = r
    /\ i > acked
    /\ acked' = i
    /\ UNCHANGED <<vars, search>>

-----------------------------------------------------------------------------
(* search *)

\* The entry a read has to wait for, in ensure_linearizable: what is committed,
\* and at least the blank entry of the leader's own ballot. A new leader does
\* not know yet how much its predecessor committed.
ReadIndex(r) ==
    LET own == {i \in 1..Len(log[r]) : log[r][i].ballot = vote[r]} IN
    Larger(committed[r], CHOOSE i \in own : \A j \in own : i <= j)

Searching(r, phase) ==
    search # NoSearch /\ search.at = r /\ search.phase = phase

\* leadership() says IAmLeader: this replica's own belief. Redirect and
\* Unknown return without reading anything.
BeginSearch(r) ==
    /\ search = NoSearch
    /\ leader[r]
    /\ search' = [at |-> r, phase |-> "confirm", ballot |-> vote[r],
                  index |-> ReadIndex(r), confirmed |-> {r}, floor |-> acked,
                  seen |-> 0]
    /\ UNCHANGED <<vars, acked>>

\* Mutant: leadership() is trusted and no quorum is asked.
LinearizableByBelief == TRUE

Linearizable == \E Q \in Majority : Q \subseteq search.confirmed

\* ensure_linearizable: a replica answers the heartbeat of this leader, an
\* AppendEntries without entries, unless it knows of a higher vote. Answers
\* that come after those of a quorum are not waited for.
ConfirmLeader(r, q) ==
    /\ Searching(r, "confirm")
    /\ ~Linearizable /\ q \notin search.confirmed
    /\ AppendEntries(q, search.ballot, 0, 0, 0)
    /\ search' = [search EXCEPT !.confirmed = @ \cup {q}]
    /\ UNCHANGED acked

\* Mutant: the search sees entries that are not committed yet.
SearchStoreEarly(r) ==
    /\ Searching(r, "confirm")
    /\ Linearizable
    /\ \E n \in AppliedEarly(r) :
        /\ n >= search.index
        /\ search' = [search EXCEPT !.phase = "found", !.confirmed = {},
                                    !.seen = n]
    /\ UNCHANGED <<vars, acked>>

\* ensure_linearizable returns Ok, then store.search runs.
SearchStore(r) ==
    /\ Searching(r, "confirm")
    /\ Linearizable
    /\ \E n \in Applied(r) :
        /\ n >= search.index
        /\ search' = [search EXCEPT !.phase = "found", !.confirmed = {},
                                    !.seen = n]
    /\ UNCHANGED <<vars, acked>>

\* get_metadata of each result, then the answer. An id that is gone by now
\* keeps its score and gets no metadata.
AnswerSearch(r) ==
    /\ Searching(r, "found")
    /\ acked' = Larger(acked, search.seen)
    /\ search' = NoSearch
    /\ UNCHANGED vars

\* A search that cannot confirm its leadership fails with unavailable.
FailSearch(r) ==
    /\ Searching(r, "confirm")
    /\ search' = NoSearch
    /\ UNCHANGED <<vars, acked>>

NodeNext ==
    \/ Next /\ UNCHANGED nodeVars
    \/ \E r \in Replica :
        \/ \E i \in 1..MaxLog : AnswerWrite(r, i)
        \/ BeginSearch(r)
        \/ \E q \in Replica : ConfirmLeader(r, q)
        \/ SearchStore(r)
        \/ AnswerSearch(r)
        \/ FailSearch(r)

NodeSpec == NodeInit /\ [][NodeNext]_<<vars, nodeVars>>

-----------------------------------------------------------------------------
(* Properties *)

\* What a client was told, by an answer to a write or by the result of a
\* search, is in the log of the leader from then on.
AckedIsKept ==
    \A r \in Replica : Leads(r) =>
        /\ acked <= Len(chosen)
        /\ Agreed!Prefix(SubSeq(chosen, 1, acked), log[r])

\* A search sees every write that was answered before it began, and nothing
\* older than what an earlier search has shown: README.md:30, "an isolated
\* ex-leader refuses to answer instead of returning stale data".
ReadsAreCurrent ==
    \A r \in Replica : Searching(r, "found") => search.seen >= search.floor

Found == search # NoSearch /\ search.phase = "found"

Linear == INSTANCE LinearLog WITH
    told   <- acked,
    floor  <- IF search = NoSearch THEN {} ELSE {search.floor},
    result <- IF Found THEN {search.seen} ELSE {}

\* The handlers keep the promise of LinearLog: clients see writes and searches
\* take effect one after the other on one log, in an order that respects which
\* was answered before which began, whoever leads meanwhile.
ClientsSeeOneLog == Linear!LinearSpec
=============================================================================
