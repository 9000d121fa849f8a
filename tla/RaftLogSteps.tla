---------------------------- MODULE RaftLogSteps ----------------------------
(***************************************************************************)
(* The inductive invariant of RaftLog, and what the steps of the protocol  *)
(* do to logs, votes and matches. RaftLogProofs concludes from it.         *)
(*                                                                         *)
(* The argument is the one of Paxos, with logs for values. An entry of     *)
(* ballot b at index i that is not on a quorum yet may get there later,    *)
(* unless a quorum has left ballot b without it (Blocked). Whatever is not *)
(* blocked is in the log of every later leader (SafeOK): the leader was    *)
(* granted its ballot by a replica that has the entry (AcceptedOK), and    *)
(* the vote compared the candidate's last log id with that replica's       *)
(* (GrantedOK).                                                            *)
(***************************************************************************)
EXTENDS RaftLog, TLAPS

-----------------------------------------------------------------------------
(* The inductive invariant *)

\* Types alone; the bounds in TypeOK follow from the other parts.
Types ==
    /\ vote \in [Replica -> 0..MaxBallot]
    /\ log \in [Replica -> Seq(Entry)]
    /\ committed \in [Replica -> Nat]
    /\ leader \in [Replica -> BOOLEAN]
    /\ candidateLog \in [Ballot -> [ballot : 0..MaxBallot, index : Nat]]
    /\ granted \in [Ballot -> SUBSET Replica]
    /\ leaderLog \in [Ballot -> Seq(Entry)]
    /\ leaderCommit \in [Ballot -> Nat]
    /\ matched \in [Ballot -> [Replica -> Nat]]
    /\ chosen \in Seq(Entry)

Started(b) == leaderLog[b] # <<>>

Same(l, m, n) ==
    n <= Len(l) /\ n <= Len(m) /\ \A j \in 1..n : l[j] = m[j]

\* A log starts with the membership entry, its ballots do not decrease, and
\* an entry of ballot c comes with everything c's leader had before it. ll is
\* leaderLog, before or after a step.
WellFormed(l, ll) ==
    \A i \in 1..Len(l) :
        /\ l[i].ballot = 0 <=> i = 1
        /\ i = 1 => l[i].payload = "Membership"
        /\ \A j \in 1..i : l[j].ballot <= l[i].ballot
        /\ l[i].ballot # 0 => Same(l, ll[l[i].ballot], i)

Below(l, b) == \A i \in 1..Len(l) : l[i].ballot <= b

\* The last entry of a leader's log is its own, if only the blank one.
OwnLast(ll, b) == ll[b] # <<>> => ll[b][Len(ll[b])].ballot = b

LogsOK ==
    /\ \A r \in Replica : WellFormed(log[r], leaderLog) /\ Below(log[r], vote[r])
    /\ \A b \in Ballot : /\ WellFormed(leaderLog[b], leaderLog)
                         /\ Below(leaderLog[b], b)
                         /\ Len(leaderLog[b]) <= MaxLog
                         /\ OwnLast(leaderLog, b)

VotesOK ==
    \A b \in Ballot :
        /\ \A r \in granted[b] : vote[r] >= b
        /\ granted[b] # {} => Owner[b] \in granted[b] /\ log[Owner[b]] # <<>>
        /\ Started(b) => \E Q \in Majority : Q \subseteq granted[b]

MatchesOK ==
    \A b \in Ballot, r \in Replica :
        /\ matched[b][r] <= Len(leaderLog[b])
        /\ matched[b][r] > 0 => vote[r] >= b

CandidatesOK ==
    \A b \in Ballot :
        granted[b] # {} /\ ~Started(b) /\ vote[Owner[b]] = b =>
            candidateLog[b] = get_log_state(log[Owner[b]])

LeadersOK ==
    \A r \in Replica : leader[r] =>
        /\ vote[r] \in Ballot /\ Owner[vote[r]] = r /\ Started(vote[r])
        /\ log[r] = leaderLog[vote[r]]
        /\ committed[r] = leaderCommit[vote[r]]

\* Entry i of b's leader is one of its own ballot.
OwnEntry(ll, b, i) == i \in 1..Len(ll[b]) /\ ll[b][i].ballot = b

\* A quorum has left ballot b without confirming index i. vt is vote and mt
\* is matched, before or after a step.
Blocked(vt, mt, b, i) ==
    \E Q \in Majority : \A q \in Q : vt[q] > b /\ mt[b][q] < i

AcceptedOK ==
    \A b \in Ballot, r \in Replica, i \in Nat :
        OwnEntry(leaderLog, b, i) /\ matched[b][r] >= i =>
            \/ Blocked(vote, matched, b, i)
            \/ Same(log[r], leaderLog[b], i)

GrantedOK ==
    \A b, c \in Ballot, r \in Replica, i \in Nat :
        b < c /\ r \in granted[c] /\ OwnEntry(leaderLog, b, i)
              /\ matched[b][r] >= i =>
            \/ Blocked(vote, matched, b, i)
            \/ AtLeast(candidateLog[c], LogId(b, i))

SafeOK ==
    \A b, c \in Ballot, i \in Nat :
        b < c /\ Started(c) /\ OwnEntry(leaderLog, b, i) =>
            \/ Blocked(vote, matched, b, i)
            \/ Same(leaderLog[c], leaderLog[b], i)

\* Index i of ballot b is on a quorum.
Quorate(ll, mt, b, i) ==
    /\ OwnEntry(ll, b, i)
    /\ \E Q \in Majority : \A q \in Q : mt[b][q] >= i

\* The first n entries of l were committed by a ballot up to b.
Backed(ll, mt, l, n, b) ==
    n = 0 \/ \E c \in Ballot, i \in Nat :
                 c <= b /\ Quorate(ll, mt, c, i) /\ n <= i /\ Same(l, ll[c], n)

CommitOK ==
    /\ \A r \in Replica :
        /\ Backed(leaderLog, matched, log[r], committed[r], vote[r])
        /\ committed[r] <= Len(chosen)
    /\ \A b \in Ballot :
        /\ Backed(leaderLog, matched, leaderLog[b], leaderCommit[b], b)
        /\ leaderCommit[b] <= Len(chosen)
    /\ chosen = <<>> \/ \E c \in Ballot :
            /\ Quorate(leaderLog, matched, c, Len(chosen))
            /\ leaderCommit[c] >= Len(chosen)
            /\ Same(chosen, leaderLog[c], Len(chosen))

Shape == LogsOK /\ VotesOK /\ MatchesOK /\ CandidatesOK /\ LeadersOK

IInv == Types /\ Shape /\ AcceptedOK /\ GrantedOK /\ SafeOK /\ CommitOK

-----------------------------------------------------------------------------
(* Logs as sequences *)

\* append with one entry, as initialize, a new leader and client_write use it.
LEMMA AppendOne ==
    ASSUME NEW l \in Seq(Entry), NEW e \in Entry
    PROVE  /\ append(l, <<e>>) \in Seq(Entry)
           /\ Len(append(l, <<e>>)) = Len(l) + 1
           /\ \A j \in 1..Len(l) : append(l, <<e>>)[j] = l[j]
           /\ append(l, <<e>>)[Len(l) + 1] = e
           /\ append(l, <<e>>) # <<>>
  BY DEF append

\* truncate and append after a conflict: the log becomes the leader's prefix.
LEMMA Splice ==
    ASSUME NEW l \in Seq(Entry), NEW m \in Seq(Entry),
           NEW last \in 0..Len(m), NEW prev \in 0..last, prev <= Len(l),
           \A j \in 1..prev : l[j] = m[j]
    PROVE  LET n == append(truncate(l, prev + 1), SubSeq(m, prev + 1, last)) IN
           n \in Seq(Entry) /\ Len(n) = last /\ \A j \in 1..last : n[j] = m[j]
  <1> DEFINE t == SubSeq(l, 1, prev)
             u == SubSeq(m, prev + 1, last)
  <1>1. t \in Seq(Entry) /\ Len(t) = prev /\ \A j \in 1..prev : t[j] = m[j]
    OBVIOUS
  <1>2. /\ u \in Seq(Entry) /\ Len(u) = last - prev
        /\ \A j \in 1..last - prev : u[j] = m[prev + j]
    OBVIOUS
  <1>3. /\ t \o u \in Seq(Entry) /\ Len(t \o u) = last
        /\ \A j \in 1..last : (t \o u)[j] = IF j <= prev THEN t[j] ELSE u[j - prev]
    BY <1>1, <1>2
  <1>4. \A j \in 1..last : (t \o u)[j] = m[j]
    BY <1>1, <1>2, <1>3
  <1>5. truncate(l, prev + 1) = t
    BY DEF truncate
  <1> QED BY Zenon, <1>3, <1>4, <1>5 DEF append

-----------------------------------------------------------------------------
(* Types *)

LEMMA EntryType ==
    ASSUME NEW b \in 0..MaxBallot, NEW p \in Value \cup {"Membership", "Blank"}
    PROVE  [ballot |-> b, payload |-> p] \in Entry
  BY DEF Entry

LEMMA LogState ==
    ASSUME NEW l \in Seq(Entry)
    PROVE  get_log_state(l) \in [ballot : 0..MaxBallot, index : Nat]
  <1>1. \A b \in 0..MaxBallot, i \in Nat :
            LogId(b, i) \in [ballot : 0..MaxBallot, index : Nat]
    BY DEF LogId
  <1>2. 0 \in 0..MaxBallot
    BY BoundAssumption
  <1>3. CASE l = <<>>
    BY <1>1, <1>2, <1>3 DEF get_log_state
  <1>4. CASE l # <<>>
    <2>1. l[Len(l)] \in Entry /\ Len(l) \in Nat
      BY <1>4
    <2>2. l[Len(l)].ballot \in 0..MaxBallot
      BY <2>1 DEF Entry
    <2> QED BY Zenon, <1>1, <1>4, <2>1, <2>2 DEF get_log_state
  <1> QED BY <1>3, <1>4

LEMMA TypesStep ==
    ASSUME Types, Next
    PROVE  Types'
  <1> USE BoundAssumption DEF Types, Ballot
  <1>1. ASSUME NEW r \in Replica, Initialize(r) PROVE Types'
    <2>1. [ballot |-> 0, payload |-> "Membership"] \in Entry
      BY EntryType
    <2>2. append(log[r], <<[ballot |-> 0, payload |-> "Membership"]>>) \in Seq(Entry)
      BY <2>1, AppendOne
    <2> QED BY Zenon, <1>1, <2>2 DEF Initialize, ballotVars
  <1>2. ASSUME NEW r \in Replica, NEW b \in Ballot, Campaign(r, b) PROVE Types'
    <2>1. get_log_state(log[r]) \in [ballot : 0..MaxBallot, index : Nat]
      BY LogState
    <2>2. vote' \in [Replica -> 0..MaxBallot] /\ leader' \in [Replica -> BOOLEAN]
      <3>1. /\ vote' = [vote EXCEPT ![r] = b]
            /\ leader' = [leader EXCEPT ![r] = FALSE]
        BY <1>2 DEF Campaign, save_vote
      <3> QED BY <3>1
    <2>3. candidateLog' \in [Ballot -> [ballot : 0..MaxBallot, index : Nat]]
      BY SMTT(30), <1>2, <2>1 DEF Campaign
    <2>4. granted' \in [Ballot -> SUBSET Replica]
      BY <1>2 DEF Campaign
    <2> QED BY Zenon, <1>2, <2>2, <2>3, <2>4 DEF Campaign
  <1>3. ASSUME NEW r \in Replica, NEW b \in Ballot, GrantVote(r, b) PROVE Types'
    <2>1. vote' \in [Replica -> 0..MaxBallot] /\ leader' \in [Replica -> BOOLEAN]
      <3>1. /\ vote' = [vote EXCEPT ![r] = b]
            /\ leader' = [leader EXCEPT ![r] = FALSE]
        BY <1>3 DEF GrantVote, save_vote
      <3> QED BY <3>1
    <2>2. granted' \in [Ballot -> SUBSET Replica]
      BY Zenon, <1>3 DEF GrantVote
    <2> QED BY Zenon, <1>3, <2>1, <2>2 DEF GrantVote
  <1>4. ASSUME NEW r \in Replica, BecomeLeader(r) PROVE Types'
    <2> DEFINE e == [ballot |-> vote[r], payload |-> "Blank"]
    <2>1. e \in Entry
      BY EntryType
    <2>2. append(log[r], <<e>>) \in Seq(Entry) /\ Len(append(log[r], <<e>>)) \in Nat
      BY <2>1, AppendOne
    <2> HIDE DEF e
    <2> QED BY Zenon, <1>4, <2>2 DEF BecomeLeader, e
  <1>5. ASSUME NEW r \in Replica, NEW v \in Value, ClientWrite(r, v) PROVE Types'
    <2> DEFINE e == [ballot |-> vote[r], payload |-> v]
    <2>1. e \in Entry
      BY EntryType
    <2>2. append(log[r], <<e>>) \in Seq(Entry) /\ Len(append(log[r], <<e>>)) \in Nat
      BY <2>1, AppendOne
    <2> HIDE DEF e
    <2> QED BY Zenon, <1>5, <2>2 DEF ClientWrite, e
  <1>6. ASSUME NEW r \in Replica, NEW b \in Ballot,
               NEW last \in 0..Len(leaderLog[b]), NEW commit \in 0..leaderCommit[b],
               NEW prev \in 0..last, AppendEntries(r, b, prev, last, commit)
        PROVE  Types'
    <2>1. append(truncate(log[r], prev + 1), SubSeq(leaderLog[b], prev + 1, last))
              \in Seq(Entry)
      <3>1. prev <= Len(log[r])
        BY <1>6 DEF AppendEntries
      <3>2. truncate(log[r], prev + 1) \in Seq(Entry)
        BY SMTT(30), <3>1 DEF truncate
      <3>3. SubSeq(leaderLog[b], prev + 1, last) \in Seq(Entry)
        BY SMTT(30)
      <3> QED BY <3>2, <3>3 DEF append
    <2>2. /\ Larger(committed[r], KnownCommitted(commit, last)) \in Nat
          /\ Larger(matched[b][r], last) \in Nat
      BY DEF Larger, KnownCommitted
    <2>3. vote' \in [Replica -> 0..MaxBallot] /\ leader' \in [Replica -> BOOLEAN]
      BY SMTT(30), <1>6 DEF AppendEntries, save_vote
    <2>4. log' \in [Replica -> Seq(Entry)]
      BY Zenon, <1>6, <2>1 DEF AppendEntries
    <2>5. committed' \in [Replica -> Nat]
      BY <1>6, <2>2 DEF AppendEntries, save_committed
    <2>6. matched' \in [Ballot -> [Replica -> Nat]]
      BY Zenon, <1>6, <2>2 DEF AppendEntries
    <2> QED BY Zenon, <1>6, <2>3, <2>4, <2>5, <2>6 DEF AppendEntries
  <1>7. ASSUME NEW r \in Replica, NEW i \in 1..MaxLog, Commit(r, i) PROVE Types'
    <2>1. SubSeq(log[r], 1, i) \in Seq(Entry)
      BY <1>7 DEF Commit
    <2>2. committed' \in [Replica -> Nat] /\ leaderCommit' \in [Ballot -> Nat]
      <3>1. /\ committed' = [committed EXCEPT ![r] = i]
            /\ leaderCommit' = [leaderCommit EXCEPT ![vote[r]] = i]
        BY <1>7 DEF Commit, save_committed
      <3>2. i \in Nat
        OBVIOUS
      <3>3. committed' \in [Replica -> Nat]
        BY <3>1, <3>2
      <3>4. leaderCommit' \in [Ballot -> Nat]
        BY Zenon, <3>1, <3>2
      <3> QED BY Zenon, <3>3, <3>4
    <2>3. chosen' \in Seq(Entry)
      BY <1>7, <2>1 DEF Commit
    <2> QED BY Zenon, <1>7, <2>2, <2>3 DEF Commit
  <1> QED BY Zenon, <1>1, <1>2, <1>3, <1>4, <1>5, <1>6, <1>7 DEF Next, Replicate

-----------------------------------------------------------------------------
(* Logs of one ballot agree *)

LEMMA BallotNat == \A b \in Ballot : b \in Nat /\ b > 0 /\ b \in 0..MaxBallot
  BY BoundAssumption DEF Ballot

LEMMA EntryBallot ==
    ASSUME NEW l \in Seq(Entry), NEW i \in 1..Len(l)
    PROVE  /\ l[i].ballot \in Nat
           /\ l[i].ballot # 0 => l[i].ballot \in Ballot
  <1>1. l[i] \in Entry
    OBVIOUS
  <1>2. l[i].ballot \in 0..MaxBallot
    BY <1>1 DEF Entry
  <1> QED BY <1>2, BoundAssumption DEF Ballot

LEMMA EntryEqual ==
    ASSUME NEW d \in Entry, NEW e \in Entry,
           d.ballot = e.ballot, d.payload = e.payload
    PROVE  d = e
  BY DEF Entry

Logs == [Ballot -> Seq(Entry)]

\* The logs of all leaders grow at the end only.
LogsGrow(ll, ll2) == \A b \in Ballot : Same(ll[b], ll2[b], Len(ll[b]))

LEMMA SamePart ==
    ASSUME NEW l \in Seq(Entry), NEW m \in Seq(Entry), NEW k \in Seq(Entry),
           NEW n \in Nat, NEW i \in Nat, i <= n, Same(l, m, n)
    PROVE  /\ Same(l, m, i) /\ Same(m, l, i)
           /\ Same(m, k, i) => Same(l, k, i)
           /\ Same(k, m, i) => Same(k, l, i)
  BY DEF Same

LEMMA WellFormedPrefix ==
    ASSUME NEW ll \in Logs, NEW l \in Seq(Entry), NEW m \in Seq(Entry),
           WellFormed(m, ll), Same(l, m, Len(l))
    PROVE  WellFormed(l, ll)
  <1> SUFFICES ASSUME NEW i \in 1..Len(l)
               PROVE  /\ l[i].ballot = 0 <=> i = 1
                      /\ i = 1 => l[i].payload = "Membership"
                      /\ \A j \in 1..i : l[j].ballot <= l[i].ballot
                      /\ l[i].ballot # 0 => Same(l, ll[l[i].ballot], i)
    BY DEF WellFormed
  <1>1. i \in 1..Len(m) /\ \A j \in 1..i : l[j] = m[j]
    BY DEF Same
  <1>2. /\ l[i].ballot = 0 <=> i = 1
        /\ i = 1 => l[i].payload = "Membership"
        /\ \A j \in 1..i : l[j].ballot <= l[i].ballot
    BY <1>1 DEF WellFormed
  <1>3. ASSUME l[i].ballot # 0 PROVE Same(l, ll[l[i].ballot], i)
    <2>1. Same(m, ll[l[i].ballot], i)
      BY <1>1, <1>3 DEF WellFormed
    <2> QED BY <1>1, <2>1 DEF Same
  <1> QED BY <1>2, <1>3

LEMMA WellFormedGrows ==
    ASSUME NEW ll \in Logs, NEW ll2 \in Logs, NEW l \in Seq(Entry),
           LogsGrow(ll, ll2), WellFormed(l, ll)
    PROVE  WellFormed(l, ll2)
  <1> SUFFICES ASSUME NEW i \in 1..Len(l), l[i].ballot # 0
               PROVE  Same(l, ll2[l[i].ballot], i)
    BY DEF WellFormed
  <1> DEFINE b == l[i].ballot
  <1>1. b \in Ballot
    BY EntryBallot
  <1>2. Same(l, ll[b], i)
    BY DEF WellFormed
  <1>3. Same(ll[b], ll2[b], Len(ll[b])) /\ ll[b] \in Seq(Entry)
    BY <1>1 DEF LogsGrow, Logs
  <1> HIDE DEF b
  <1>4. Same(l, ll2[b], i)
    BY <1>2, <1>3 DEF Same
  <1> QED BY <1>4 DEF b

\* An entry of the same ballot at the same index: the logs agree up to there.
LEMMA WellFormedMatch ==
    ASSUME NEW ll \in Logs, NEW l \in Seq(Entry), NEW m \in Seq(Entry),
           WellFormed(l, ll), WellFormed(m, ll),
           NEW i \in 1..Len(l), i <= Len(m), l[i].ballot = m[i].ballot
    PROVE  Same(l, m, i)
  <1>1. CASE l[i].ballot = 0
    <2>1. i = 1 /\ l[1].payload = "Membership" /\ m[1].payload = "Membership"
      BY <1>1 DEF WellFormed
    <2>2. l[1] \in Entry /\ m[1] \in Entry
      BY <2>1
    <2>3. l[1] = m[1]
      BY <2>1, <2>2, EntryEqual
    <2> QED BY <2>1, <2>3 DEF Same
  <1>2. CASE l[i].ballot # 0
    <2>1. Same(l, ll[l[i].ballot], i) /\ Same(m, ll[l[i].ballot], i)
      BY <1>2 DEF WellFormed
    <2> QED BY <2>1 DEF Same
  <1> QED BY <1>1, <1>2

\* A leader appends an entry of its ballot to its log.
LEMMA WellFormedAppend ==
    ASSUME NEW ll \in Logs, NEW l \in Seq(Entry), NEW b \in Ballot,
           NEW e \in Entry, e.ballot = b, l # <<>>,
           WellFormed(l, ll), Below(l, b), Same(ll[b], l, Len(ll[b]))
    PROVE  LET l2 == append(l, <<e>>)
               ll2 == [ll EXCEPT ![b] = l2]
           IN  LogsGrow(ll, ll2) /\ WellFormed(l2, ll2) /\ Below(l2, b)
  <1> DEFINE l2 == append(l, <<e>>)
             ll2 == [ll EXCEPT ![b] = l2]
  <1>1. /\ l2 \in Seq(Entry) /\ Len(l2) = Len(l) + 1 /\ l2[Len(l) + 1] = e
        /\ \A j \in 1..Len(l) : l2[j] = l[j]
    BY SMTT(30), AppendOne
  <1> HIDE DEF l2
  <1>2. Len(l) \in Nat /\ Len(l) >= 1 /\ ll[b] \in Seq(Entry)
    BY DEF Logs
  <1>3. LogsGrow(ll, ll2)
    <2> SUFFICES ASSUME NEW c \in Ballot PROVE Same(ll[c], ll2[c], Len(ll[c]))
      BY DEF LogsGrow
    <2>1. ll[c] \in Seq(Entry) /\ ll2[c] = IF c = b THEN l2 ELSE ll[c]
      BY DEF Logs
    <2>2. CASE c = b
      BY <1>1, <2>1, <2>2 DEF Same
    <2>3. CASE c # b
      BY <2>1, <2>3 DEF Same
    <2> QED BY <2>2, <2>3
  <1>4. Below(l2, b)
    BY <1>1, <1>2, BallotNat DEF Below
  <1>5. WellFormed(l2, ll2)
    <2> SUFFICES ASSUME NEW i \in 1..Len(l2)
                 PROVE  /\ l2[i].ballot = 0 <=> i = 1
                        /\ i = 1 => l2[i].payload = "Membership"
                        /\ \A j \in 1..i : l2[j].ballot <= l2[i].ballot
                        /\ l2[i].ballot # 0 => Same(l2, ll2[l2[i].ballot], i)
      BY DEF WellFormed
    <2>1. CASE i <= Len(l)
      <3>1. i \in 1..Len(l) /\ \A j \in 1..i : l2[j] = l[j]
        BY <1>1, <1>2, <2>1
      <3>2. /\ l2[i].ballot = 0 <=> i = 1
            /\ i = 1 => l2[i].payload = "Membership"
            /\ \A j \in 1..i : l2[j].ballot <= l2[i].ballot
        BY <3>1 DEF WellFormed
      <3>3. ASSUME l2[i].ballot # 0 PROVE Same(l2, ll2[l2[i].ballot], i)
        <4> DEFINE c == l2[i].ballot
        <4>1. c \in Ballot
          BY <1>1, <3>3, EntryBallot
        <4>2. Same(l, ll[c], i)
          BY <3>1, <3>3 DEF WellFormed
        <4> HIDE DEF c
        <4>3. ll[c] \in Seq(Entry) /\ ll2[c] = IF c = b THEN l2 ELSE ll[c]
          BY <4>1 DEF Logs
        <4>4. Same(l2, ll2[c], i)
          BY <1>1, <3>1, <4>2, <4>3 DEF Same
        <4> QED BY <4>4 DEF c
      <3> QED BY <3>2, <3>3
    <2>2. CASE i = Len(l2)
      <3>1. l2[i].ballot = b /\ i # 1 /\ b # 0
        BY <1>1, <1>2, <2>2, BallotNat
      <3>2. \A j \in 1..i : l2[j].ballot <= l2[i].ballot
        BY <1>1, <1>4, <2>2, <3>1 DEF Below
      <3>3. ll2[b] = l2
        BY DEF Logs
      <3> HIDE DEF ll2
      <3>4. Same(l2, ll2[b], i)
        BY <1>1, <2>2, <3>3 DEF Same
      <3> QED BY <3>1, <3>2, <3>4
    <2> QED BY <1>1, <1>2, <2>1, <2>2
  <1> QED BY <1>3, <1>4, <1>5 DEF l2

-----------------------------------------------------------------------------
(* The steps, by what they do to the invariant *)

\* Campaign and GrantVote.
VoteStep(r, b) ==
    /\ b > vote[r] /\ log[Owner[b]] # <<>>
    /\ vote' = [vote EXCEPT ![r] = b]
    /\ leader' = [leader EXCEPT ![r] = FALSE]
    /\ granted' = [granted EXCEPT ![b] = granted[b] \cup {r}]
    /\ Owner[b] = r \/ Owner[b] \in granted[b]
    /\ Owner[b] = r => candidateLog'[b] = get_log_state(log[r])
    /\ AtLeast(candidateLog'[b], get_log_state(log[r]))
    /\ \A c \in Ballot : c # b \/ Owner[b] # r \/ granted[b] # {} =>
           candidateLog'[c] = candidateLog[c]
    /\ UNCHANGED <<log, committed, leaderLog, leaderCommit, matched, chosen>>

\* BecomeLeader and ClientWrite.
LeadStep(r, e) ==
    LET b == vote[r]
        l == append(log[r], <<e>>)
    IN
    /\ b \in Ballot /\ Owner[b] = r
    /\ e \in Entry /\ e.ballot = b
    /\ log[r] # <<>> /\ Len(log[r]) < MaxLog
    /\ \/ Started(b) /\ log[r] = leaderLog[b]
       \/ ~Started(b) /\ \E Q \in Majority : Q \subseteq granted[b]
    /\ leaderCommit[b] <= committed[r]
    /\ log' = [log EXCEPT ![r] = l]
    /\ leader' = [leader EXCEPT ![r] = TRUE]
    /\ leaderLog' = [leaderLog EXCEPT ![b] = l]
    /\ leaderCommit' = [leaderCommit EXCEPT ![b] = committed[r]]
    /\ matched' = [matched EXCEPT ![b][r] = Len(log[r]) + 1]
    /\ UNCHANGED <<vote, committed, candidateLog, granted, chosen>>

\* AppendEntries that leaves log l.
AppendStep(r, b, last, commit, l) ==
    /\ Started(b) /\ r # Owner[b] /\ b >= vote[r]
    /\ l \in Seq(Entry) /\ Same(l, leaderLog[b], last)
    /\ \/ l = log[r]
       \/ Len(l) = last /\ ~Same(log[r], leaderLog[b], last)
    /\ vote' = [vote EXCEPT ![r] = b]
    /\ leader' = [leader EXCEPT ![r] = FALSE]
    /\ log' = [log EXCEPT ![r] = l]
    /\ committed' = [committed EXCEPT ![r] =
                         Larger(committed[r], KnownCommitted(commit, last))]
    /\ matched' = [matched EXCEPT ![b][r] = Larger(matched[b][r], last)]
    /\ UNCHANGED <<candidateLog, granted, leaderLog, leaderCommit, chosen>>

LEMMA VoteForm ==
    ASSUME Types, Shape, NEW r \in Replica, NEW b \in Ballot,
           Campaign(r, b) \/ GrantVote(r, b)
    PROVE  VoteStep(r, b)
  <1>0. /\ candidateLog \in [Ballot -> [ballot : 0..MaxBallot, index : Nat]]
        /\ granted \in [Ballot -> SUBSET Replica] /\ log \in [Replica -> Seq(Entry)]
    BY DEF Types
  <1>1. CASE Campaign(r, b)
    <2>1. /\ candidateLog' = [candidateLog EXCEPT ![b] = get_log_state(log[r])]
          /\ granted' = [granted EXCEPT ![b] = {r}]
          /\ granted[b] = {} /\ Owner[b] = r /\ log[r] # <<>>
          /\ b > vote[r]
          /\ vote' = [vote EXCEPT ![r] = b]
          /\ leader' = [leader EXCEPT ![r] = FALSE]
          /\ UNCHANGED <<log, committed, leaderLog, leaderCommit, matched, chosen>>
      BY <1>1 DEF Campaign, save_vote
    <2>2. candidateLog'[b] = get_log_state(log[r])
      BY <1>0, <2>1
    <2>3. get_log_state(log[r]) \in [ballot : 0..MaxBallot, index : Nat]
      BY <1>0, LogState
    <2>4. AtLeast(get_log_state(log[r]), get_log_state(log[r]))
      BY <2>3, BoundAssumption DEF AtLeast
    <2>5. \A c \in Ballot : c # b => candidateLog'[c] = candidateLog[c]
      BY <1>0, <2>1
    <2>6. granted' = [granted EXCEPT ![b] = granted[b] \cup {r}]
      BY <1>0, <2>1
    <2> QED BY <2>1, <2>2, <2>4, <2>5, <2>6 DEF VoteStep
  <1>2. CASE GrantVote(r, b)
    <2>1. granted[b] # {} /\ Owner[b] \in granted[b] /\ log[Owner[b]] # <<>>
      BY <1>2 DEF GrantVote, Shape, VotesOK
    <2>2. /\ granted' = [granted EXCEPT ![b] = granted[b] \cup {r}]
          /\ Owner[b] # r /\ b > vote[r]
          /\ candidateLog' = candidateLog
          /\ AtLeast(candidateLog[b], get_log_state(log[r]))
          /\ vote' = [vote EXCEPT ![r] = b]
          /\ leader' = [leader EXCEPT ![r] = FALSE]
          /\ UNCHANGED <<log, committed, leaderLog, leaderCommit, matched, chosen>>
      BY <1>2 DEF GrantVote, save_vote
    <2> QED BY <2>1, <2>2 DEF VoteStep
  <1> QED BY <1>1, <1>2

LEMMA BecomeLeaderForm ==
    ASSUME IInv, NEW r \in Replica, BecomeLeader(r)
    PROVE  LeadStep(r, [ballot |-> vote[r], payload |-> "Blank"])
  <1> DEFINE b == vote[r]
             e == [ballot |-> b, payload |-> "Blank"]
             l == append(log[r], <<e>>)
  <1>0. /\ vote \in [Replica -> 0..MaxBallot] /\ log \in [Replica -> Seq(Entry)]
        /\ committed \in [Replica -> Nat] /\ leaderCommit \in [Ballot -> Nat]
        /\ matched \in [Ballot -> [Replica -> Nat]]
        /\ leaderLog \in [Ballot -> Seq(Entry)]
    BY DEF IInv, Types
  <1>1. b \in Ballot /\ b \in 0..MaxBallot
    BY <1>0, BoundAssumption DEF BecomeLeader, Ballot
  <1>2. e \in Entry /\ e.ballot = b
    BY <1>1, EntryType
  <1> HIDE DEF b, e
  <1>3. l \in Seq(Entry) /\ Len(l) = Len(log[r]) + 1
    BY <1>0, <1>2, AppendOne
  <1> HIDE DEF l
  <1>4. /\ Owner[b] = r /\ ~Started(b) /\ Len(log[r]) < MaxLog
        /\ \E Q \in Majority : Q \subseteq granted[b]
        /\ log' = [log EXCEPT ![r] = l]
        /\ leader' = [leader EXCEPT ![r] = TRUE]
        /\ leaderLog' = [leaderLog EXCEPT ![b] = log'[r]]
        /\ leaderCommit' = [leaderCommit EXCEPT ![b] = committed[r]]
        /\ matched' = [matched EXCEPT ![b][r] = Len(log'[r])]
        /\ UNCHANGED <<vote, committed, candidateLog, granted, chosen>>
    BY DEF BecomeLeader, Started, b, e, l
  <1>5. log'[r] = l
    BY <1>0, <1>4
  <1>6. log[r] # <<>>
    <2>1. granted[b] # {}
      BY <1>4, MajorityAssumption
    <2> QED BY <1>1, <1>4, <2>1 DEF IInv, Shape, VotesOK
  <1>7. leaderCommit[b] <= committed[r]
    <2>1. Backed(leaderLog, matched, leaderLog[b], leaderCommit[b], b)
      BY <1>1 DEF IInv, CommitOK
    <2>2. leaderLog[b] = <<>>
      BY <1>4 DEF Started
    <2>3. leaderCommit[b] = 0
      BY <1>0, <1>1, <2>1, <2>2 DEF Backed, Same
    <2> QED BY <1>0, <2>3
  <1> QED BY Zenon, <1>1, <1>2, <1>3, <1>4, <1>5, <1>6, <1>7 DEF LeadStep, b, e, l

LEMMA ClientWriteForm ==
    ASSUME Types, Shape, NEW r \in Replica, NEW v \in Value, ClientWrite(r, v)
    PROVE  LeadStep(r, [ballot |-> vote[r], payload |-> v])
  <1> DEFINE b == vote[r]
             e == [ballot |-> b, payload |-> v]
             l == append(log[r], <<e>>)
  <1>0. /\ vote \in [Replica -> 0..MaxBallot] /\ log \in [Replica -> Seq(Entry)]
        /\ committed \in [Replica -> Nat] /\ leaderCommit \in [Ballot -> Nat]
        /\ matched \in [Ballot -> [Replica -> Nat]]
        /\ leaderLog \in [Ballot -> Seq(Entry)] /\ leader \in [Replica -> BOOLEAN]
    BY Zenon DEF Types
  <1>1. /\ b \in Ballot /\ Owner[b] = r /\ Started(b)
        /\ log[r] = leaderLog[b] /\ committed[r] = leaderCommit[b]
    BY Zenon DEF ClientWrite, Shape, LeadersOK
  <1>2. e \in Entry /\ e.ballot = b
    BY Zenon, <1>1, BallotNat, EntryType
  <1> HIDE DEF b, e
  <1>3. l \in Seq(Entry) /\ Len(l) = Len(log[r]) + 1
    BY Zenon, <1>0, <1>2, AppendOne
  <1> HIDE DEF l
  <1>4. /\ Len(log[r]) < MaxLog
        /\ log' = [log EXCEPT ![r] = l]
        /\ leaderLog' = [leaderLog EXCEPT ![b] = log'[r]]
        /\ matched' = [matched EXCEPT ![b][r] = Len(log'[r])]
        /\ leader[r] /\ leader' = leader /\ leaderCommit' = leaderCommit
        /\ UNCHANGED <<vote, committed, candidateLog, granted, chosen>>
    BY Zenon DEF ClientWrite, b, e, l
  <1>5. log'[r] = l
    BY <1>0, <1>4
  <1>6. leader' = [leader EXCEPT ![r] = TRUE]
    BY <1>0, <1>4, Zenon
  <1>7. /\ leaderCommit' = [leaderCommit EXCEPT ![b] = committed[r]]
        /\ leaderCommit[b] <= committed[r]
    BY <1>0, <1>1, <1>4
  <1>8. log[r] # <<>>
    BY <1>1 DEF Started
  <1> QED BY Zenon, <1>1, <1>2, <1>3, <1>4, <1>5, <1>6, <1>7, <1>8
             DEF LeadStep, b, e, l

LEMMA AppendForm ==
    ASSUME Types, Shape, NEW r \in Replica, NEW b \in Ballot,
           NEW last \in 0..Len(leaderLog[b]), NEW commit \in 0..leaderCommit[b],
           NEW prev \in 0..last, AppendEntries(r, b, prev, last, commit)
    PROVE  \E l \in Seq(Entry) : AppendStep(r, b, last, commit, l)
  <1>0. /\ log \in [Replica -> Seq(Entry)] /\ leaderLog \in Logs
        /\ log[r] \in Seq(Entry) /\ leaderLog[b] \in Seq(Entry)
    BY SMTT(30) DEF Types, Logs
  <1>1. prev <= Len(log[r]) /\ \A j \in 1..prev : log[r][j] = leaderLog[b][j]
    <2>1. CASE prev = 0
      BY <1>0, <2>1
    <2>2. CASE prev > 0
      <3>1. /\ prev \in 1..Len(log[r]) /\ prev <= Len(leaderLog[b])
            /\ log[r][prev] = leaderLog[b][prev]
        BY <1>0, <2>2 DEF AppendEntries
      <3>2. WellFormed(log[r], leaderLog) /\ WellFormed(leaderLog[b], leaderLog)
        BY DEF Shape, LogsOK
      <3>3. Same(log[r], leaderLog[b], prev)
        BY SMTT(30), <1>0, <3>1, <3>2, WellFormedMatch
      <3> QED BY <3>3 DEF Same
    <2> QED BY <2>1, <2>2
  <1> DEFINE same == \A i \in prev + 1..last :
                         i <= Len(log[r]) /\ log[r][i] = leaderLog[b][i]
             sent == append(truncate(log[r], prev + 1),
                            SubSeq(leaderLog[b], prev + 1, last))
             l == IF same THEN log[r] ELSE sent
  <1>2. sent \in Seq(Entry) /\ Len(sent) = last
           /\ \A j \in 1..last : sent[j] = leaderLog[b][j]
    BY <1>0, <1>1, Splice
  <1> HIDE DEF sent
  <1>3. same <=> Same(log[r], leaderLog[b], last)
    <2>1. ASSUME same PROVE Same(log[r], leaderLog[b], last)
      <3>1. last <= Len(log[r])
        BY <1>0, <1>1, <2>1
      <3>2. ASSUME NEW j \in 1..last PROVE log[r][j] = leaderLog[b][j]
        BY <1>1, <2>1
      <3> QED BY <1>0, <3>1, <3>2 DEF Same
    <2>2. ASSUME Same(log[r], leaderLog[b], last) PROVE same
      BY <1>0, <2>2 DEF Same
    <2> QED BY <2>1, <2>2
  <1>4. /\ Started(b) /\ r # Owner[b] /\ b >= vote[r]
        /\ vote' = [vote EXCEPT ![r] = b]
        /\ leader' = [leader EXCEPT ![r] = FALSE]
        /\ log' = IF same THEN log ELSE [log EXCEPT ![r] = sent]
        /\ committed' = [committed EXCEPT ![r] =
                             Larger(committed[r], KnownCommitted(commit, last))]
        /\ matched' = [matched EXCEPT ![b][r] = Larger(matched[b][r], last)]
        /\ UNCHANGED <<candidateLog, granted, leaderLog, leaderCommit, chosen>>
    BY DEF AppendEntries, Started, save_vote, save_committed, sent
  <1> HIDE DEF same
  <1>5. log' = [log EXCEPT ![r] = l] /\ l \in Seq(Entry)
    BY Zenon, <1>0, <1>2, <1>4
  <1>6. Same(l, leaderLog[b], last)
    BY <1>0, <1>2, <1>3 DEF Same
  <1>7. l = log[r] \/ (Len(l) = last /\ ~Same(log[r], leaderLog[b], last))
    BY <1>2, <1>3
  <1> HIDE DEF l
  <1>8. AppendStep(r, b, last, commit, l)
    BY Zenon, <1>4, <1>5, <1>6, <1>7 DEF AppendStep
  <1> QED BY <1>5, <1>8

\* What the leader knows when it commits.
LEMMA CommitForm ==
    ASSUME Types, Shape, NEW r \in Replica, NEW i \in 1..MaxLog, Commit(r, i)
    PROVE  /\ vote[r] \in Ballot /\ log[r] = leaderLog[vote[r]]
           /\ committed[r] = leaderCommit[vote[r]] /\ i > committed[r]
           /\ Quorate(leaderLog, matched, vote[r], i)
  <1>1. /\ vote[r] \in Ballot /\ log[r] = leaderLog[vote[r]]
        /\ committed[r] = leaderCommit[vote[r]]
    BY DEF Commit, Shape, LeadersOK
  <1>2. log[r] \in Seq(Entry) /\ committed[r] \in Nat
    BY DEF Types
  <1>3. i > committed[r] /\ i \in 1..Len(log[r]) /\ log[r][i].ballot = vote[r]
    BY <1>2 DEF Commit
  <1>4. \E Q \in Majority : \A q \in Q : matched[vote[r]][q] >= i
    BY DEF Commit
  <1> QED BY <1>1, <1>3, <1>4 DEF Quorate, OwnEntry

-----------------------------------------------------------------------------
(* What no step undoes *)

VoteMap == [Replica -> Nat]
MatchMap == [Ballot -> [Replica -> Nat]]

\* Votes rise, leaders' logs grow at the end, and a replica that has left a
\* ballot confirms nothing more to its leader.
Grows(vt, vt2, ll, ll2, mt, mt2) ==
    /\ \A r \in Replica : vt2[r] >= vt[r]
    /\ LogsGrow(ll, ll2)
    /\ \A b \in Ballot, r \in Replica :
        mt2[b][r] >= mt[b][r] /\ (vt[r] > b => mt2[b][r] = mt[b][r])

Growing ==
    /\ Grows(vote, vote', leaderLog, leaderLog', matched, matched')
    /\ \A b \in Ballot : leaderCommit'[b] >= leaderCommit[b]

LEMMA TypeFacts ==
    ASSUME Types
    PROVE  /\ vote \in VoteMap /\ matched \in MatchMap /\ leaderLog \in Logs
           /\ \A r \in Replica : vote[r] # 0 => vote[r] \in Ballot
           /\ \A r \in Replica : vote[r] \in Nat /\ log[r] \in Seq(Entry)
                                   /\ committed[r] \in Nat
           /\ \A b \in Ballot : leaderLog[b] \in Seq(Entry)
                                   /\ leaderCommit[b] \in Nat
           /\ \A b \in Ballot, r \in Replica : matched[b][r] \in Nat
  BY SMTT(30), BoundAssumption DEF Types, VoteMap, MatchMap, Logs, Ballot

LEMMA LogsStay ==
    ASSUME NEW ll \in Logs
    PROVE  LogsGrow(ll, ll)
  BY DEF LogsGrow, Same, Logs

LEMMA VoteGrowing ==
    ASSUME Types, NEW r \in Replica, NEW b \in Ballot, VoteStep(r, b)
    PROVE  Growing
  <1>1. \A s \in Replica : vote'[s] >= vote[s]
    BY TypeFacts, BallotNat DEF VoteStep, VoteMap
  <1>2. leaderLog' = leaderLog /\ matched' = matched /\ leaderCommit' = leaderCommit
    BY DEF VoteStep
  <1>3. LogsGrow(leaderLog, leaderLog')
    BY <1>2, TypeFacts, LogsStay
  <1>4. \A c \in Ballot, s \in Replica :
           /\ matched'[c][s] >= matched[c][s]
           /\ vote[s] > c => matched'[c][s] = matched[c][s]
    BY <1>2, TypeFacts
  <1>5. \A c \in Ballot : leaderCommit'[c] >= leaderCommit[c]
    BY <1>2, TypeFacts
  <1> QED BY <1>1, <1>3, <1>4, <1>5 DEF Growing, Grows

LEMMA LeadGrowing ==
    ASSUME Types, Shape, NEW r \in Replica, NEW e, LeadStep(r, e)
    PROVE  /\ Growing
           /\ WellFormed(log'[r], leaderLog') /\ Below(log'[r], vote[r])
           /\ log'[r] = append(log[r], <<e>>) /\ leaderLog'[vote[r]] = log'[r]
           /\ log'[r] \in Seq(Entry) /\ Len(log'[r]) = Len(log[r]) + 1
           /\ Same(log[r], log'[r], Len(log[r]))
           /\ log'[r][Len(log'[r])].ballot = vote[r]
           /\ \A c \in Ballot : c # vote[r] => leaderLog'[c] = leaderLog[c]
  <1> DEFINE b == vote[r]
             l == append(log[r], <<e>>)
  <1>1. /\ b \in Ballot /\ e \in Entry /\ e.ballot = b /\ log[r] # <<>>
        /\ Started(b) => log[r] = leaderLog[b]
        /\ leaderCommit[b] <= committed[r]
        /\ log' = [log EXCEPT ![r] = l]
        /\ leaderLog' = [leaderLog EXCEPT ![b] = l]
        /\ leaderCommit' = [leaderCommit EXCEPT ![b] = committed[r]]
        /\ matched' = [matched EXCEPT ![b][r] = Len(log[r]) + 1]
        /\ vote' = vote
    BY Zenon DEF LeadStep
  <1>2. /\ log[r] \in Seq(Entry) /\ leaderLog \in Logs
        /\ leaderLog[b] \in Seq(Entry)
    BY <1>1, TypeFacts
  <1>3. /\ l \in Seq(Entry) /\ Len(l) = Len(log[r]) + 1 /\ l[Len(log[r]) + 1] = e
        /\ \A j \in 1..Len(log[r]) : l[j] = log[r][j]
    <2>1. e \in Entry
      BY <1>1
    <2> QED BY Zenon, <1>2, <2>1, AppendOne
  <1>4. Same(leaderLog[b], log[r], Len(leaderLog[b]))
    <2>1. CASE Started(b)
      BY <1>1, <1>2, <2>1 DEF Same
    <2>2. CASE ~Started(b)
      BY <1>2, <2>2 DEF Same, Started
    <2> QED BY <2>1, <2>2
  <1>5. WellFormed(log[r], leaderLog) /\ Below(log[r], b)
    BY DEF Shape, LogsOK
  <1>6. LogsGrow(leaderLog, leaderLog') /\ WellFormed(l, leaderLog') /\ Below(l, b)
    BY Zenon, <1>1, <1>2, <1>4, <1>5, WellFormedAppend
  <1> HIDE DEF l
  <1>7. log'[r] = l /\ leaderLog'[b] = l
    BY <1>1, <1>2 DEF Types, Logs
  <1>8. \A s \in Replica : vote'[s] >= vote[s]
    BY <1>1, TypeFacts
  <1>9. \A c \in Ballot : leaderCommit'[c] >= leaderCommit[c]
    BY SMTT(30), <1>1 DEF Types
  <1>10. ASSUME NEW c \in Ballot, NEW s \in Replica
         PROVE  /\ matched'[c][s] >= matched[c][s]
                /\ vote[s] > c => matched'[c][s] = matched[c][s]
    <2>1. matched'[c][s] = IF c = b /\ s = r THEN Len(log[r]) + 1 ELSE matched[c][s]
      BY Zenon, <1>1 DEF Types
    <2>2. matched[b][r] <= Len(leaderLog[b]) /\ Len(leaderLog[b]) <= Len(log[r])
      BY <1>1, <1>4 DEF Shape, MatchesOK, Same
    <2>3. matched[c][s] \in Nat /\ matched[b][r] \in Nat /\ Len(leaderLog[b]) \in Nat
            /\ Len(log[r]) \in Nat /\ vote[r] \in Nat
      BY <1>1, <1>2, TypeFacts
    <2> QED BY SMTT(30), <2>1, <2>2, <2>3
  <1>11. Growing
    BY Zenon, <1>6, <1>8, <1>9, <1>10 DEF Growing, Grows
  <1>12. Same(log[r], l, Len(log[r])) /\ l[Len(l)].ballot = b
    BY <1>1, <1>2, <1>3 DEF Same
  <1>13. \A c \in Ballot : c # b => leaderLog'[c] = leaderLog[c]
    BY <1>1, <1>2 DEF Logs
  <1> QED BY Zenon, <1>3, <1>6, <1>7, <1>11, <1>12, <1>13 DEF l

LEMMA AppendGrowing ==
    ASSUME Types, NEW r \in Replica, NEW b \in Ballot, NEW last \in Nat,
           NEW commit, NEW l, AppendStep(r, b, last, commit, l)
    PROVE  Growing
  <1>0. vote' = [vote EXCEPT ![r] = b] /\ b >= vote[r]
    BY DEF AppendStep
  <1>1. \A s \in Replica : vote'[s] >= vote[s]
    BY <1>0, TypeFacts DEF VoteMap
  <1>2. /\ leaderLog' = leaderLog /\ leaderCommit' = leaderCommit
        /\ matched' = [matched EXCEPT ![b][r] = Larger(matched[b][r], last)]
        /\ b >= vote[r]
    BY DEF AppendStep
  <1>3. LogsGrow(leaderLog, leaderLog')
    BY <1>2, TypeFacts, LogsStay
  <1>4. ASSUME NEW c \in Ballot, NEW s \in Replica
        PROVE  /\ matched'[c][s] >= matched[c][s]
               /\ vote[s] > c => matched'[c][s] = matched[c][s]
    <2>1. matched'[c][s] = IF c = b /\ s = r THEN Larger(matched[b][r], last)
                                             ELSE matched[c][s]
      BY Zenon, <1>2 DEF Types
    <2>2. /\ matched[c][s] \in Nat /\ matched[b][r] \in Nat /\ vote[r] \in Nat
          /\ b \in Nat
      BY TypeFacts, BallotNat
    <2> QED BY <1>2, <2>1, <2>2 DEF Larger
  <1>5. \A c \in Ballot : leaderCommit'[c] >= leaderCommit[c]
    BY <1>2, TypeFacts
  <1> QED BY <1>1, <1>3, <1>4, <1>5 DEF Growing, Grows

LEMMA InitializeGrowing ==
    ASSUME Types, NEW r \in Replica, Initialize(r) \/ UNCHANGED vars
    PROVE  Growing
  <1>1. /\ vote' = vote /\ leaderLog' = leaderLog /\ matched' = matched
        /\ leaderCommit' = leaderCommit
    BY Zenon DEF Initialize, vars, ballotVars, replicaVars
  <1>2. LogsGrow(leaderLog, leaderLog')
    BY Zenon, <1>1, TypeFacts, LogsStay
  <1>3. \A s \in Replica : vote'[s] >= vote[s]
    BY <1>1, TypeFacts
  <1>4. \A c \in Ballot, s \in Replica :
           /\ matched'[c][s] >= matched[c][s]
           /\ vote[s] > c => matched'[c][s] = matched[c][s]
    BY <1>1, TypeFacts
  <1>5. \A c \in Ballot : leaderCommit'[c] >= leaderCommit[c]
    BY <1>1, TypeFacts
  <1> QED BY Zenon, <1>2, <1>3, <1>4, <1>5 DEF Growing, Grows

LEMMA CommitGrowing ==
    ASSUME Types, Shape, NEW r \in Replica, NEW i \in 1..MaxLog, Commit(r, i)
    PROVE  Growing
  <1>1. /\ vote' = vote /\ leaderLog' = leaderLog /\ matched' = matched
        /\ leaderCommit' = [leaderCommit EXCEPT ![vote[r]] = i]
    BY DEF Commit
  <1>2. LogsGrow(leaderLog, leaderLog')
    BY <1>1, TypeFacts, LogsStay
  <1>3. \A s \in Replica : vote'[s] >= vote[s]
    BY <1>1, TypeFacts
  <1>4. \A c \in Ballot, s \in Replica :
           /\ matched'[c][s] >= matched[c][s]
           /\ vote[s] > c => matched'[c][s] = matched[c][s]
    BY <1>1, TypeFacts
  <1>5. ASSUME NEW c \in Ballot PROVE leaderCommit'[c] >= leaderCommit[c]
    <2>1. leaderCommit'[c] = IF c = vote[r] THEN i ELSE leaderCommit[c]
      BY <1>1 DEF Types
    <2>2. i > leaderCommit[vote[r]] /\ vote[r] \in Ballot
      BY CommitForm
    <2>3. leaderCommit[c] \in Nat
      BY TypeFacts
    <2> QED BY <2>1, <2>2, <2>3
  <1> QED BY <1>2, <1>3, <1>4, <1>5 DEF Growing, Grows

LEMMA OwnEntryGrows ==
    ASSUME NEW ll \in Logs, NEW ll2 \in Logs, LogsGrow(ll, ll2),
           NEW b \in Ballot, NEW i \in Nat
    PROVE  /\ OwnEntry(ll, b, i) => OwnEntry(ll2, b, i)
           /\ OwnEntry(ll2, b, i) /\ i <= Len(ll[b]) => OwnEntry(ll, b, i)
  <1>1. ll[b] \in Seq(Entry) /\ ll2[b] \in Seq(Entry)
    BY DEF Logs
  <1>2. Same(ll[b], ll2[b], Len(ll[b]))
    BY DEF LogsGrow
  <1> QED BY <1>1, <1>2 DEF OwnEntry, Same

LEMMA SameGrows ==
    ASSUME NEW ll \in Logs, NEW ll2 \in Logs, LogsGrow(ll, ll2),
           NEW b \in Ballot, NEW i \in Nat, NEW l \in Seq(Entry),
           Same(l, ll[b], i)
    PROVE  Same(l, ll2[b], i)
  <1>1. ll[b] \in Seq(Entry) /\ ll2[b] \in Seq(Entry)
    BY DEF Logs
  <1>2. Same(ll[b], ll2[b], Len(ll[b]))
    BY DEF LogsGrow
  <1> QED BY <1>1, <1>2 DEF Same

LEMMA BothGrow ==
    ASSUME NEW ll \in Logs, NEW ll2 \in Logs, LogsGrow(ll, ll2),
           NEW b \in Ballot, NEW c \in Ballot, NEW i \in Nat, Same(ll[c], ll[b], i)
    PROVE  Same(ll2[c], ll2[b], i)
  <1>1. ll[c] \in Seq(Entry) /\ ll2[b] \in Seq(Entry)
    BY DEF Logs
  <1>2. Same(ll[c], ll2[b], i)
    BY Zenon, <1>1, SameGrows
  <1>3. Same(ll2[b], ll[c], i)
    BY Zenon, <1>2 DEF Same
  <1>4. Same(ll2[b], ll2[c], i)
    BY Zenon, <1>1, <1>3, SameGrows
  <1> QED BY Zenon, <1>4 DEF Same

LEMMA BlockedGrows ==
    ASSUME NEW vt \in VoteMap, NEW vt2 \in VoteMap, NEW ll, NEW ll2,
           NEW mt \in MatchMap, NEW mt2 \in MatchMap,
           Grows(vt, vt2, ll, ll2, mt, mt2),
           NEW b \in Ballot, NEW i \in Nat, Blocked(vt, mt, b, i)
    PROVE  Blocked(vt2, mt2, b, i)
  <1>1. PICK Q \in Majority : \A q \in Q : vt[q] > b /\ mt[b][q] < i
    BY Zenon DEF Blocked
  <1>2. ASSUME NEW q \in Q PROVE vt2[q] > b /\ mt2[b][q] < i
    <2>1. q \in Replica
      BY Zenon, MajorityAssumption
    <2>2. vt2[q] >= vt[q] /\ mt2[b][q] = mt[b][q]
      BY Zenon, <1>1, <2>1 DEF Grows
    <2>3. vt[q] \in Nat /\ vt2[q] \in Nat /\ b \in Nat
      BY <2>1, BallotNat DEF VoteMap
    <2> QED BY <1>1, <2>2, <2>3
  <1> QED BY Zenon, <1>2 DEF Blocked

LEMMA QuorateGrows ==
    ASSUME NEW vt, NEW vt2, NEW ll \in Logs, NEW ll2 \in Logs,
           NEW mt \in MatchMap, NEW mt2 \in MatchMap,
           Grows(vt, vt2, ll, ll2, mt, mt2),
           NEW b \in Ballot, NEW i \in Nat, Quorate(ll, mt, b, i)
    PROVE  Quorate(ll2, mt2, b, i)
  <1>1. PICK Q \in Majority : \A q \in Q : mt[b][q] >= i
    BY DEF Quorate
  <1>2. ASSUME NEW q \in Q PROVE mt2[b][q] >= i
    <2>1. q \in Replica
      BY MajorityAssumption
    <2>2. mt2[b][q] >= mt[b][q] /\ mt[b][q] \in Nat /\ mt2[b][q] \in Nat
      BY <2>1 DEF Grows, MatchMap
    <2> QED BY <1>1, <2>2
  <1>3. OwnEntry(ll2, b, i)
    BY OwnEntryGrows DEF Grows, Quorate
  <1> QED BY <1>2, <1>3 DEF Quorate

LEMMA BackedGrows ==
    ASSUME NEW vt, NEW vt2, NEW ll \in Logs, NEW ll2 \in Logs,
           NEW mt \in MatchMap, NEW mt2 \in MatchMap,
           Grows(vt, vt2, ll, ll2, mt, mt2),
           NEW l \in Seq(Entry), NEW l2 \in Seq(Entry), NEW n \in Nat,
           NEW b \in Nat, NEW b2 \in Nat, b <= b2,
           Backed(ll, mt, l, n, b), Same(l, l2, n)
    PROVE  Backed(ll2, mt2, l2, n, b2)
  <1>1. CASE n = 0
    BY <1>1 DEF Backed
  <1>2. CASE n # 0
    <2>1. PICK c \in Ballot, i \in Nat :
              c <= b /\ Quorate(ll, mt, c, i) /\ n <= i /\ Same(l, ll[c], n)
      BY <1>2 DEF Backed
    <2>2. Quorate(ll2, mt2, c, i)
      BY SMTT(30), <2>1, QuorateGrows
    <2>3. Same(l, ll2[c], n)
      BY SMTT(30), <2>1, SameGrows DEF Grows
    <2>4. Same(l2, ll2[c], n)
      BY <2>3 DEF Same
    <2>5. c <= b2
      BY <2>1, BallotNat
    <2> QED BY <2>1, <2>2, <2>4, <2>5 DEF Backed
  <1> QED BY <1>1, <1>2

\* A quorum that has an entry meets every quorum that left without it.
LEMMA NotBlocked ==
    ASSUME NEW vt, NEW ll, NEW mt \in MatchMap, NEW b \in Ballot, NEW i \in Nat,
           Quorate(ll, mt, b, i)
    PROVE  ~Blocked(vt, mt, b, i)
  <1> SUFFICES ASSUME Blocked(vt, mt, b, i) PROVE FALSE
    OBVIOUS
  <1>1. PICK Q1 \in Majority : \A q \in Q1 : mt[b][q] >= i
    BY DEF Quorate
  <1>2. PICK Q2 \in Majority : \A q \in Q2 : mt[b][q] < i
    BY DEF Blocked
  <1>3. PICK q \in Replica : q \in Q1 /\ q \in Q2
    BY MajorityAssumption
  <1>4. mt[b][q] \in Nat
    BY DEF MatchMap
  <1> QED BY <1>1, <1>2, <1>3, <1>4

LEMMA TypeFactsNext ==
    ASSUME Types'
    PROVE  /\ vote' \in VoteMap /\ matched' \in MatchMap /\ leaderLog' \in Logs
           /\ \A r \in Replica : vote'[r] \in Nat /\ log'[r] \in Seq(Entry)
                                   /\ committed'[r] \in Nat
           /\ \A b \in Ballot : leaderLog'[b] \in Seq(Entry)
                                   /\ leaderCommit'[b] \in Nat
           /\ \A b \in Ballot, r \in Replica : matched'[b][r] \in Nat
  BY SMTT(30), BoundAssumption DEF Types, VoteMap, MatchMap, Logs, Ballot

-----------------------------------------------------------------------------
(* Every step is of one of five forms *)

Step ==
    \E r \in Replica :
        \/ Initialize(r)
        \/ \E b \in Ballot : VoteStep(r, b)
        \/ \E e \in Entry : LeadStep(r, e)
        \/ \E b \in Ballot :
             \E last \in 0..Len(leaderLog[b]), commit \in 0..leaderCommit[b],
                l \in Seq(Entry) : AppendStep(r, b, last, commit, l)
        \/ \E i \in 1..MaxLog : Commit(r, i)

LEMMA NextIsStep ==
    ASSUME IInv, Next
    PROVE  Step /\ Growing
  <1> USE DEF IInv
  <1>1. ASSUME NEW r \in Replica, Initialize(r) PROVE Step /\ Growing
    BY <1>1, InitializeGrowing DEF Step
  <1>2. ASSUME NEW r \in Replica, NEW b \in Ballot, Campaign(r, b) \/ GrantVote(r, b)
        PROVE  Step /\ Growing
    <2>1. VoteStep(r, b)
      BY Zenon, <1>2, VoteForm
    <2> QED BY <2>1, VoteGrowing DEF Step
  <1>3. ASSUME NEW r \in Replica, NEW e, LeadStep(r, e) PROVE Step /\ Growing
    <2>1. e \in Entry
      BY Zenon, <1>3 DEF LeadStep
    <2> QED BY Zenon, <1>3, <2>1, LeadGrowing DEF Step
  <1>4. ASSUME NEW r \in Replica, BecomeLeader(r) PROVE Step /\ Growing
    BY Zenon, <1>3, <1>4, BecomeLeaderForm
  <1>5. ASSUME NEW r \in Replica, NEW v \in Value, ClientWrite(r, v)
        PROVE  Step /\ Growing
    BY Zenon, <1>3, <1>5, ClientWriteForm
  <1>6. ASSUME NEW r \in Replica, NEW b \in Ballot,
               NEW last \in 0..Len(leaderLog[b]), NEW commit \in 0..leaderCommit[b],
               NEW prev \in 0..last, AppendEntries(r, b, prev, last, commit)
        PROVE  Step /\ Growing
    <2>1. PICK l \in Seq(Entry) : AppendStep(r, b, last, commit, l)
      BY <1>6, AppendForm
    <2>2. last \in Nat
      OBVIOUS
    <2>3. Growing
      BY <2>1, <2>2, AppendGrowing
    <2> QED BY <2>1, <2>3 DEF Step
  <1>7. ASSUME NEW r \in Replica, NEW i \in 1..MaxLog, Commit(r, i)
        PROVE  Step /\ Growing
    BY <1>7, CommitGrowing DEF Step
  <1> QED BY <1>1, <1>2, <1>4, <1>5, <1>6, <1>7 DEF Next, Replicate

-----------------------------------------------------------------------------
(* Each part of the invariant is preserved *)

LEMMA LogsStep ==
    ASSUME IInv, Types', Step, Growing
    PROVE  LogsOK'
  <1>0. Types /\ Shape /\ LogsOK
    BY DEF IInv, Shape
  <1> DEFINE LogOK(s) == WellFormed(log'[s], leaderLog') /\ Below(log'[s], vote'[s])
             LeaderLogOK(c) == /\ WellFormed(leaderLog'[c], leaderLog')
                               /\ Below(leaderLog'[c], c)
                               /\ Len(leaderLog'[c]) <= MaxLog
                               /\ OwnLast(leaderLog', c)
  <1>a. ASSUME NEW s \in Replica, log'[s] = log[s] PROVE LogOK(s)
    <2>1. WellFormed(log[s], leaderLog) /\ Below(log[s], vote[s])
      BY Zenon, <1>0 DEF LogsOK
    <2>2. WellFormed(log'[s], leaderLog')
      BY Zenon, <1>0, <1>a, <2>1, TypeFacts, TypeFactsNext, WellFormedGrows
         DEF Growing, Grows
    <2>3. /\ vote'[s] >= vote[s] /\ vote[s] \in Nat /\ vote'[s] \in Nat
          /\ log[s] \in Seq(Entry)
      BY Zenon, <1>0, TypeFacts, TypeFactsNext DEF Growing, Grows
    <2>4. Below(log[s], vote'[s])
      BY <2>1, <2>3, EntryBallot DEF Below
    <2> QED BY Zenon, <1>a, <2>2, <2>4
  <1>b. ASSUME NEW c \in Ballot, leaderLog'[c] = leaderLog[c] PROVE LeaderLogOK(c)
    <2>1. WellFormed(leaderLog'[c], leaderLog')
      BY Zenon, <1>0, <1>b, TypeFacts, TypeFactsNext, WellFormedGrows
         DEF Growing, Grows, LogsOK
    <2> QED BY Zenon, <1>0, <1>b, <2>1 DEF LogsOK, OwnLast
  <1> SUFFICES (\A s \in Replica : LogOK(s)) /\ (\A c \in Ballot : LeaderLogOK(c))
    BY Zenon DEF LogsOK
  <1> HIDE DEF LogOK, LeaderLogOK
  <1>1. ASSUME NEW r \in Replica, Initialize(r)
        PROVE  (\A s \in Replica : LogOK(s)) /\ (\A c \in Ballot : LeaderLogOK(c))
    <2> DEFINE e == [ballot |-> 0, payload |-> "Membership"]
    <2>1. /\ log' = [log EXCEPT ![r] = append(@, <<e>>)] /\ log[r] = <<>>
          /\ leaderLog' = leaderLog
      BY Zenon, <1>1 DEF Initialize, ballotVars
    <2>2. e \in Entry
      BY BoundAssumption, EntryType
    <2>3. \A s \in Replica : s # r => log'[s] = log[s]
      BY <1>0, <2>1 DEF Types
    <2>4. log'[r] = append(log[r], <<e>>) /\ log[r] \in Seq(Entry)
      BY <1>0, <2>1 DEF Types
    <2>5. e.ballot = 0 /\ e.payload = "Membership"
      OBVIOUS
    <2> HIDE DEF e
    <2>6. Len(log'[r]) = 1 /\ log'[r][1] = e
      <3>1. log[r] = <<>> /\ Len(log[r]) = 0
        BY <2>1
      <3>2. Len(log'[r]) = Len(log[r]) + 1 /\ log'[r][Len(log[r]) + 1] = e
        BY <2>2, <2>4, AppendOne
      <3> QED BY <3>1, <3>2
    <2>7. vote'[r] \in Nat
      BY TypeFactsNext
    <2>8. LogOK(r)
      BY <2>5, <2>6, <2>7 DEF LogOK, WellFormed, Below
    <2> QED BY Zenon, <1>a, <1>b, <2>1, <2>3, <2>8
  <1>2. ASSUME NEW r \in Replica, NEW b \in Ballot, VoteStep(r, b)
        PROVE  (\A s \in Replica : LogOK(s)) /\ (\A c \in Ballot : LeaderLogOK(c))
    BY Zenon, <1>a, <1>b, <1>2 DEF VoteStep
  <1>3. ASSUME NEW r \in Replica, NEW e \in Entry, LeadStep(r, e)
        PROVE  (\A s \in Replica : LogOK(s)) /\ (\A c \in Ballot : LeaderLogOK(c))
    <2>1. /\ WellFormed(log'[r], leaderLog') /\ Below(log'[r], vote[r])
          /\ leaderLog'[vote[r]] = log'[r] /\ Len(log'[r]) = Len(log[r]) + 1
          /\ log'[r][Len(log'[r])].ballot = vote[r]
          /\ \A c \in Ballot : c # vote[r] => leaderLog'[c] = leaderLog[c]
      BY Zenon, <1>0, <1>3, LeadGrowing
    <2>2. /\ vote' = vote /\ log' = [log EXCEPT ![r] = append(log[r], <<e>>)]
          /\ Len(log[r]) < MaxLog
      BY Zenon, <1>3 DEF LeadStep
    <2>3. \A s \in Replica : s # r => log'[s] = log[s]
      BY Zenon, <1>0, <2>2 DEF Types
    <2>4. Len(log[r]) \in Nat
      BY SMTT(30), <1>0, TypeFacts
    <2>5. LogOK(r) /\ LeaderLogOK(vote[r])
      BY <2>1, <2>2, <2>4, BoundAssumption DEF LogOK, LeaderLogOK, OwnLast
    <2> QED BY Zenon, <1>a, <1>b, <2>1, <2>3, <2>5
  <1>4. ASSUME NEW r \in Replica, NEW b \in Ballot, NEW last \in 0..Len(leaderLog[b]),
               NEW commit, NEW l \in Seq(Entry), AppendStep(r, b, last, commit, l)
        PROVE  (\A s \in Replica : LogOK(s)) /\ (\A c \in Ballot : LeaderLogOK(c))
    <2>1. /\ log' = [log EXCEPT ![r] = l] /\ leaderLog' = leaderLog
          /\ vote' = [vote EXCEPT ![r] = b]
          /\ l = log[r] \/ (Len(l) = last /\ Same(l, leaderLog[b], last))
      BY <1>4 DEF AppendStep
    <2>2. \A s \in Replica : log'[s] = IF s = r THEN l ELSE log[s]
      BY <1>0, <2>1 DEF Types
    <2>3. CASE l = log[r]
      BY <1>a, <1>b, <2>1, <2>2, <2>3
    <2>4. CASE Len(l) = last /\ Same(l, leaderLog[b], last)
      <3>1. WellFormed(leaderLog[b], leaderLog) /\ Below(leaderLog[b], b)
        BY <1>0 DEF LogsOK
      <3>2. WellFormed(l, leaderLog)
        BY <1>0, <2>4, <3>1, TypeFacts, WellFormedPrefix
      <3>3. Below(l, b)
        BY <2>4, <3>1 DEF Below, Same
      <3>4. vote'[r] = b
        BY Zenon, <1>0, <2>1 DEF Types
      <3>5. LogOK(r)
        BY Zenon, <2>1, <2>2, <3>2, <3>3, <3>4 DEF LogOK
      <3> QED BY SMTT(30), <1>a, <1>b, <2>1, <2>2, <3>5
    <2> QED BY Zenon, <2>1, <2>3, <2>4
  <1>5. ASSUME NEW r \in Replica, NEW i \in 1..MaxLog, Commit(r, i)
        PROVE  (\A s \in Replica : LogOK(s)) /\ (\A c \in Ballot : LeaderLogOK(c))
    BY Zenon, <1>a, <1>b, <1>5 DEF Commit
  <1> QED BY <1>1, <1>2, <1>3, <1>4, <1>5 DEF Step

LEMMA VotesStep ==
    ASSUME IInv, Types', Step, Growing
    PROVE  VotesOK'
  <1>0. /\ Types /\ Shape /\ VotesOK
        /\ vote \in VoteMap /\ vote' \in VoteMap /\ leaderLog \in Logs
        /\ granted \in [Ballot -> SUBSET Replica]
        /\ \A s \in Replica : vote'[s] >= vote[s]
    BY Zenon, TypeFacts, TypeFactsNext DEF IInv, Shape, Growing, Grows, Types
  <1> DEFINE VoteOK(c) ==
        /\ \A s \in granted'[c] : vote'[s] >= c
        /\ granted'[c] # {} => Owner[c] \in granted'[c] /\ log'[Owner[c]] # <<>>
        /\ leaderLog'[c] # <<>> => \E Q \in Majority : Q \subseteq granted'[c]
      GrantKept(c) == \A s \in granted[c] : vote'[s] >= c
      LogKept == \A s \in Replica : log[s] # <<>> => log'[s] # <<>>
  <1>a. ASSUME NEW c \in Ballot PROVE GrantKept(c)
    <2> SUFFICES ASSUME NEW s \in granted[c] PROVE vote'[s] >= c
      BY Zenon
    <2>1. s \in Replica /\ c \in Nat
      BY Zenon, <1>0, BallotNat
    <2>2. vote[s] >= c /\ vote'[s] >= vote[s] /\ vote[s] \in Nat /\ vote'[s] \in Nat
      BY Zenon, <1>0, <2>1 DEF VotesOK, VoteMap
    <2> QED BY <2>1, <2>2
  <1>b. ASSUME NEW c \in Ballot, granted'[c] = granted[c], LogKept,
               leaderLog'[c] # <<>> => Started(c)
        PROVE  VoteOK(c)
    <2>1. granted[c] # {} => Owner[c] \in granted[c] /\ log[Owner[c]] # <<>>
      BY Zenon, <1>0 DEF VotesOK
    <2>2. granted'[c] # {} => Owner[c] \in granted'[c] /\ log'[Owner[c]] # <<>>
      BY Zenon, <1>b, <2>1, OwnerAssumption
    <2> QED BY Zenon, <1>0, <1>a, <1>b, <2>2 DEF VotesOK
  <1> HIDE DEF LogKept
  <1> SUFFICES \A c \in Ballot : VoteOK(c)
    BY DEF VotesOK, Started
  <1>1. ASSUME NEW r \in Replica, Initialize(r), NEW c \in Ballot PROVE VoteOK(c)
    <2> DEFINE e == [ballot |-> 0, payload |-> "Membership"]
    <2>1. /\ log' = [log EXCEPT ![r] = append(log[r], <<e>>)]
          /\ leaderLog' = leaderLog /\ granted' = granted
      BY <1>1 DEF Initialize, ballotVars
    <2>2. append(log[r], <<e>>) # <<>>
      <3>1. e \in Entry
        BY BoundAssumption, EntryType
      <3>2. log[r] \in Seq(Entry)
        BY Zenon, <1>0, TypeFacts
      <3> QED BY <3>1, <3>2, AppendOne
    <2>3. LogKept
      BY Zenon, <1>0, <2>1, <2>2 DEF LogKept, Types
    <2> QED BY <1>b, <2>1, <2>3 DEF Started
  <1>2. ASSUME NEW r \in Replica, NEW b \in Ballot, VoteStep(r, b), NEW c \in Ballot
        PROVE  VoteOK(c)
    <2>1. /\ log' = log /\ leaderLog' = leaderLog
          /\ granted' = [granted EXCEPT ![b] = granted[b] \cup {r}]
          /\ vote' = [vote EXCEPT ![r] = b]
          /\ Owner[b] = r \/ Owner[b] \in granted[b]
          /\ log[Owner[b]] # <<>>
      BY Zenon, <1>2 DEF VoteStep
    <2>2. CASE c # b
      BY Zenon, <1>0, <1>b, <2>1, <2>2 DEF LogKept, Started
    <2>3. CASE c = b
      <3>1. granted'[c] = granted[c] \cup {r} /\ vote'[r] = c
        BY Zenon, <1>0, <2>1, <2>3 DEF VoteMap
      <3>2. \A s \in granted'[c] : vote'[s] >= c
        BY <1>a, <3>1, BallotNat
      <3>3. leaderLog'[c] # <<>> => \E Q \in Majority : Q \subseteq granted[c]
        BY Zenon, <1>0, <2>1 DEF VotesOK, Started
      <3> QED BY Zenon, <2>1, <2>3, <3>1, <3>2, <3>3
    <2> QED BY Zenon, <2>2, <2>3
  <1>3. ASSUME NEW r \in Replica, NEW e \in Entry, LeadStep(r, e), NEW c \in Ballot
        PROVE  VoteOK(c)
    <2>1. /\ granted' = granted /\ vote[r] \in Ballot
          /\ log' = [log EXCEPT ![r] = append(log[r], <<e>>)]
          /\ ~Started(vote[r]) => \E Q \in Majority : Q \subseteq granted[vote[r]]
      BY Zenon, <1>3 DEF LeadStep
    <2>2. append(log[r], <<e>>) # <<>>
      BY Zenon, <1>0, TypeFacts, AppendOne
    <2>3. LogKept
      BY Zenon, <1>0, <2>1, <2>2 DEF LogKept, Types
    <2>4. CASE c # vote[r] \/ Started(c)
      BY ZenonT(60), <1>0, <1>3, <1>b, <2>1, <2>3, <2>4, LeadGrowing DEF Started
    <2>5. CASE c = vote[r] /\ ~Started(c)
      <3>1. granted'[c] # {} => Owner[c] \in granted'[c] /\ log'[Owner[c]] # <<>>
        BY Zenon, <1>0, <2>1, <2>3, OwnerAssumption DEF VotesOK, LogKept
      <3> QED BY Zenon, <1>a, <2>1, <2>5, <3>1
    <2> QED BY Zenon, <2>4, <2>5
  <1>4. ASSUME NEW r \in Replica, NEW b \in Ballot, NEW last \in 0..Len(leaderLog[b]),
               NEW commit, NEW l \in Seq(Entry), AppendStep(r, b, last, commit, l),
               NEW c \in Ballot
        PROVE  VoteOK(c)
    <2>1. /\ log' = [log EXCEPT ![r] = l] /\ leaderLog' = leaderLog
          /\ granted' = granted
          /\ l = log[r] \/ (Len(l) = last /\ ~Same(log[r], leaderLog[b], last))
      BY <1>4 DEF AppendStep
    <2>2. l = log[r] \/ l # <<>>
      <3>1. /\ log[r] \in Seq(Entry) /\ leaderLog[b] \in Seq(Entry)
        BY Zenon, <1>0, TypeFacts
      <3>2. last = 0 => Same(log[r], leaderLog[b], last)
        BY <3>1 DEF Same
      <3> QED BY Zenon, <2>1, <3>2
    <2>3. LogKept
      BY Zenon, <1>0, <2>1, <2>2 DEF LogKept, Types
    <2> QED BY <1>b, <2>1, <2>3 DEF Started
  <1>5. ASSUME NEW r \in Replica, NEW i \in 1..MaxLog, Commit(r, i), NEW c \in Ballot
        PROVE  VoteOK(c)
    BY Zenon, <1>b, <1>5 DEF Commit, LogKept, Started
  <1> QED BY Zenon, <1>1, <1>2, <1>3, <1>4, <1>5 DEF Step

LEMMA MatchesStep ==
    ASSUME IInv, Types', Step, Growing
    PROVE  MatchesOK'
  <1>0. Types /\ Shape /\ MatchesOK
    BY Zenon DEF IInv, Shape
  <1> SUFFICES ASSUME NEW c \in Ballot, NEW s \in Replica
               PROVE  /\ matched'[c][s] <= Len(leaderLog'[c])
                      /\ matched'[c][s] > 0 => vote'[s] >= c
    BY Zenon DEF MatchesOK
  <1>1. /\ matched[c][s] \in Nat /\ matched'[c][s] \in Nat
        /\ vote[s] \in Nat /\ vote'[s] \in Nat /\ c \in Nat
        /\ leaderLog[c] \in Seq(Entry) /\ leaderLog'[c] \in Seq(Entry)
    BY Zenon, <1>0, TypeFacts, TypeFactsNext, BallotNat
  <1>2. vote'[s] >= vote[s] /\ Len(leaderLog[c]) <= Len(leaderLog'[c])
    BY DEF Growing, Grows, LogsGrow, Same
  <1>3. matched[c][s] <= Len(leaderLog[c]) /\ (matched[c][s] > 0 => vote[s] >= c)
    BY <1>0 DEF MatchesOK
  <1>a. CASE matched'[c][s] = matched[c][s]
    BY <1>1, <1>2, <1>3, <1>a
  <1>4. ASSUME NEW r \in Replica, NEW e \in Entry, LeadStep(r, e)
        PROVE  /\ matched'[c][s] <= Len(leaderLog'[c])
               /\ matched'[c][s] > 0 => vote'[s] >= c
    <2>1. /\ matched' = [matched EXCEPT ![vote[r]][r] = Len(log[r]) + 1]
          /\ vote' = vote
      BY <1>4 DEF LeadStep
    <2>2. CASE c = vote[r] /\ s = r
      <3>1. matched'[c][s] = Len(log[r]) + 1
        BY Zenon, <1>0, <2>1, <2>2 DEF Types
      <3>2. leaderLog'[c] = log'[r] /\ Len(log'[r]) = Len(log[r]) + 1
        BY Zenon, <1>0, <1>4, <2>2, LeadGrowing
      <3> QED BY <1>1, <2>1, <2>2, <3>1, <3>2
    <2>3. CASE c # vote[r] \/ s # r
      <3>1. matched'[c][s] = matched[c][s]
        BY <1>0, <2>1, <2>3 DEF Types
      <3> QED BY Zenon, <1>a, <3>1
    <2> QED BY <2>2, <2>3
  <1>5. ASSUME NEW r \in Replica, NEW b \in Ballot, NEW last \in 0..Len(leaderLog[b]),
               NEW commit, NEW l \in Seq(Entry), AppendStep(r, b, last, commit, l)
        PROVE  /\ matched'[c][s] <= Len(leaderLog'[c])
               /\ matched'[c][s] > 0 => vote'[s] >= c
    <2>1. /\ matched' = [matched EXCEPT ![b][r] = Larger(matched[b][r], last)]
          /\ vote' = [vote EXCEPT ![r] = b] /\ leaderLog' = leaderLog
      BY <1>5 DEF AppendStep
    <2>2. CASE c = b /\ s = r
      <3>1. matched'[c][s] = Larger(matched[c][s], last) /\ vote'[s] = c
        BY <1>0, <2>1, <2>2 DEF Types
      <3> QED BY <1>1, <1>3, <2>1, <2>2, <3>1 DEF Larger
    <2>3. CASE c # b \/ s # r
      <3>1. matched'[c][s] = matched[c][s]
        BY ZenonT(60), <1>0, <2>1, <2>3 DEF Types
      <3> QED BY Zenon, <1>a, <3>1
    <2> QED BY <2>2, <2>3
  <1>6. ASSUME NEW r \in Replica,
               \/ Initialize(r) \/ \E b \in Ballot : VoteStep(r, b)
               \/ \E i \in 1..MaxLog : Commit(r, i)
        PROVE  matched'[c][s] = matched[c][s]
    BY Zenon, <1>6 DEF Initialize, VoteStep, Commit, ballotVars
  <1> QED BY Zenon, <1>a, <1>4, <1>5, <1>6 DEF Step

LEMMA CandidatesStep ==
    ASSUME IInv, Types', Step
    PROVE  CandidatesOK'
  <1>0. Types /\ Shape /\ CandidatesOK
    BY Zenon DEF IInv, Shape
  <1> SUFFICES ASSUME NEW c \in Ballot,
                      granted'[c] # {}, leaderLog'[c] = <<>>, vote'[Owner[c]] = c
               PROVE  candidateLog'[c] = get_log_state(log'[Owner[c]])
    BY Zenon DEF CandidatesOK, Started
  <1>1. Owner[c] \in Replica /\ c \in Nat /\ c > 0
    BY OwnerAssumption, BallotNat
  <1>a. ASSUME granted[c] # {}, leaderLog[c] = <<>>, vote[Owner[c]] = c
        PROVE  candidateLog[c] = get_log_state(log[Owner[c]])
    BY Zenon, <1>0, <1>a DEF CandidatesOK, Started
  <1>2. ASSUME NEW r \in Replica, Initialize(r)
        PROVE  candidateLog'[c] = get_log_state(log'[Owner[c]])
    <2>1. /\ vote[r] = 0 /\ vote' = vote /\ candidateLog' = candidateLog
          /\ granted' = granted /\ leaderLog' = leaderLog
          /\ log' = [log EXCEPT ![r] =
                         append(log[r], <<[ballot |-> 0, payload |-> "Membership"]>>)]
      BY Zenon, <1>2 DEF Initialize, ballotVars
    <2>2. Owner[c] # r
      BY <1>1, <2>1
    <2>3. log'[Owner[c]] = log[Owner[c]]
      BY Zenon, <1>0, <1>1, <2>1, <2>2 DEF Types
    <2> QED BY Zenon, <1>a, <2>1, <2>3
  <1>3. ASSUME NEW r \in Replica, NEW b \in Ballot, VoteStep(r, b)
        PROVE  candidateLog'[c] = get_log_state(log'[Owner[c]])
    <2>1. /\ vote' = [vote EXCEPT ![r] = b] /\ log' = log /\ leaderLog' = leaderLog
          /\ granted' = [granted EXCEPT ![b] = granted[b] \cup {r}]
          /\ Owner[b] = r \/ Owner[b] \in granted[b]
          /\ Owner[b] = r => candidateLog'[b] = get_log_state(log[r])
          /\ \A d \in Ballot : d # b \/ Owner[b] # r \/ granted[b] # {} =>
                 candidateLog'[d] = candidateLog[d]
      BY Zenon, <1>3 DEF VoteStep
    <2>2. CASE c = b /\ Owner[b] = r
      BY Zenon, <2>1, <2>2
    <2>3. CASE c = b /\ Owner[b] # r
      <3>1. vote[Owner[c]] = c /\ granted[c] # {} /\ candidateLog'[c] = candidateLog[c]
        BY Zenon, <1>0, <1>1, <2>1, <2>3 DEF Types
      <3> QED BY Zenon, <1>a, <2>1, <3>1
    <2>4. CASE c # b
      <3>1. /\ granted'[c] = granted[c] /\ candidateLog'[c] = candidateLog[c]
            /\ vote'[Owner[c]] = IF Owner[c] = r THEN b ELSE vote[Owner[c]]
        BY Zenon, <1>0, <1>1, <2>1, <2>4 DEF Types
      <3> QED BY Zenon, <1>a, <2>1, <2>4, <3>1
    <2> QED BY Zenon, <2>2, <2>3, <2>4
  <1>4. ASSUME NEW r \in Replica, NEW e \in Entry, LeadStep(r, e)
        PROVE  candidateLog'[c] = get_log_state(log'[Owner[c]])
    <2>1. /\ vote' = vote /\ granted' = granted /\ candidateLog' = candidateLog
          /\ log' = [log EXCEPT ![r] = append(log[r], <<e>>)]
      BY Zenon, <1>4 DEF LeadStep
    <2>2. /\ leaderLog'[vote[r]] = log'[r] /\ Len(log'[r]) = Len(log[r]) + 1
          /\ \A d \in Ballot : d # vote[r] => leaderLog'[d] = leaderLog[d]
      BY ZenonT(60), <1>0, <1>4, LeadGrowing
    <2>3. log'[r] # <<>>
      BY <1>0, <2>2, TypeFacts
    <2>4. c # vote[r]
      BY Zenon, <2>2, <2>3
    <2>5. leaderLog[c] = <<>> /\ Owner[c] # r
      BY Zenon, <2>1, <2>2, <2>4
    <2>6. log'[Owner[c]] = log[Owner[c]]
      BY Zenon, <1>0, <1>1, <2>1, <2>5 DEF Types
    <2> QED BY Zenon, <1>a, <2>1, <2>5, <2>6
  <1>5. ASSUME NEW r \in Replica, NEW b \in Ballot, NEW last \in 0..Len(leaderLog[b]),
               NEW commit, NEW l \in Seq(Entry), AppendStep(r, b, last, commit, l)
        PROVE  candidateLog'[c] = get_log_state(log'[Owner[c]])
    <2>1. /\ vote' = [vote EXCEPT ![r] = b] /\ log' = [log EXCEPT ![r] = l]
          /\ r # Owner[b] /\ granted' = granted /\ candidateLog' = candidateLog
          /\ leaderLog' = leaderLog
      BY Zenon, <1>5 DEF AppendStep
    <2>2. /\ vote'[Owner[c]] = IF Owner[c] = r THEN b ELSE vote[Owner[c]]
          /\ log'[Owner[c]] = IF Owner[c] = r THEN l ELSE log[Owner[c]]
      BY Zenon, <1>0, <1>1, <2>1 DEF Types
    <2> QED BY Zenon, <1>a, <2>1, <2>2
  <1>6. ASSUME NEW r \in Replica, NEW i \in 1..MaxLog, Commit(r, i)
        PROVE  candidateLog'[c] = get_log_state(log'[Owner[c]])
    BY Zenon, <1>a, <1>6 DEF Commit
  <1> QED BY Zenon, <1>2, <1>3, <1>4, <1>5, <1>6 DEF Step
=============================================================================
