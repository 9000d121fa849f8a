------------------------- MODULE NodeServiceProofs --------------------------
(***************************************************************************)
(* Proofs about NodeService, on top of those about RaftLog: answered       *)
(* writes are kept, no search is stale, and both together are LinearLog.   *)
(*                                                                         *)
(* The step that needs an argument is the start of a search. The replica   *)
(* believes it leads under ballot b. If everything committed is not below  *)
(* its read index, it was committed under a higher ballot, and the quorum  *)
(* that granted that ballot will never confirm b again (Deposed).          *)
(***************************************************************************)
EXTENDS NodeService, RaftLogProofs, WellFoundedInduction

\* A quorum that will not confirm the leadership the search relies on.
Deposed ==
    \E Q \in Majority : \A q \in Q :
        vote[q] > search.ballot /\ q \notin search.confirmed

SearchOK ==
    search # NoSearch =>
        /\ search \in [at : Replica, phase : {"confirm", "found"}, ballot : Ballot,
                       index : Nat, confirmed : SUBSET Replica, floor : Nat,
                       seen : Nat]
        /\ search.phase = "confirm" => search.floor <= search.index \/ Deposed
        /\ search.phase = "found" => /\ search.floor <= search.seen
                                     /\ search.seen <= Len(chosen)

NInv == IInv /\ acked \in Nat /\ acked <= Len(chosen) /\ SearchOK

-----------------------------------------------------------------------------
\* A set of naturals that is not empty has a least element.
LEMMA MinExists ==
    ASSUME NEW T \in SUBSET Nat, T # {}
    PROVE  \E t \in T : \A u \in T : t <= u
<1> DEFINE R == OpToRel(<, Nat)
<1>1. \A a, b \in Nat : a < b => <<a, b>> \in R
  BY DEF OpToRel
<1>2. IsWellFoundedOn(R, Nat)
  BY Zenon, NatLessThanWellFounded
<1> HIDE DEF R
<1>3. PICK t \in T : \A u \in T : ~(<<u, t>> \in R)
  BY Zenon, <1>2, WFMin
<1>4. ASSUME NEW u \in T PROVE t <= u
  <2>1. t \in Nat /\ u \in Nat
    OBVIOUS
  <2>2. ~(u < t)
    BY Zenon, <1>1, <1>3, <2>1
  <2> QED BY <2>1, <2>2
<1> QED BY <1>4

\* The read index is at least the committed index, and not below the first
\* entry of the leader's own ballot.
LEMMA ReadIndexFacts ==
    ASSUME IInv, NEW r \in Replica, leader[r]
    PROVE  /\ ReadIndex(r) \in Nat /\ ReadIndex(r) >= committed[r]
           /\ \E m \in 1..Len(log[r]) :
                  log[r][m].ballot = vote[r] /\ ReadIndex(r) >= m
  <1> DEFINE own == {i \in 1..Len(log[r]) : log[r][i].ballot = vote[r]}
             first == CHOOSE i \in own : \A j \in own : i <= j
  <1>1. /\ log[r] \in Seq(Entry) /\ committed[r] \in Nat
        /\ vote[r] \in Ballot /\ log[r] = leaderLog[vote[r]] /\ log[r] # <<>>
        /\ OwnLast(leaderLog, vote[r])
    BY TypeFacts DEF IInv, Shape, LeadersOK, LogsOK, Started
  <1>2. Len(log[r]) \in own
    BY <1>1 DEF OwnLast
  <1>3. own \in SUBSET Nat /\ own # {}
    BY <1>1, <1>2
  <1>4. \E i \in own : \A j \in own : i <= j
    BY Zenon, <1>3, MinExists
  <1>5. first \in own
    BY Zenon, <1>4
  <1>6. ReadIndex(r) = Larger(committed[r], first)
    BY SMTT(30) DEF ReadIndex
  <1>7. first \in 1..Len(log[r]) /\ log[r][first].ballot = vote[r]
    BY <1>5
  <1> HIDE DEF first, own
  <1>8. first \in Nat
    BY <1>1, <1>7
  <1>9. /\ ReadIndex(r) \in Nat /\ ReadIndex(r) >= committed[r]
        /\ ReadIndex(r) >= first
    BY <1>1, <1>6, <1>8 DEF Larger
  <1> QED BY <1>7, <1>9

\* A replica that believes it leads: all that is committed is within its read
\* index, or a quorum has left its ballot.
LEMMA ReadIndexCovers ==
    ASSUME IInv, NEW r \in Replica, leader[r]
    PROVE  \/ Len(chosen) <= ReadIndex(r)
           \/ \E Q \in Majority : \A q \in Q : vote[q] > vote[r]
  <1> DEFINE b == vote[r]
  <1>0. Types /\ Shape /\ SafeOK /\ CommitOK /\ chosen \in Seq(Entry)
    BY DEF IInv, Types
  <1>1. /\ b \in Ballot /\ log[r] = leaderLog[b] /\ Started(b) /\ b \in Nat
        /\ committed[r] = leaderCommit[b] /\ leaderLog[b] \in Seq(Entry)
        /\ WellFormed(leaderLog[b], leaderLog) /\ leaderCommit[b] \in Nat
    BY <1>0, TypeFacts, BallotNat DEF Shape, LeadersOK, LogsOK
  <1>2. ReadIndex(r) \in Nat /\ ReadIndex(r) >= leaderCommit[b]
    BY <1>1, ReadIndexFacts
  <1>3. PICK m \in 1..Len(leaderLog[b]) :
            leaderLog[b][m].ballot = b /\ ReadIndex(r) >= m
    BY <1>1, ReadIndexFacts
  <1>4. CASE chosen = <<>>
    BY <1>2, <1>4
  <1>5. CASE chosen # <<>>
    <2>1. PICK c \in Ballot : /\ Quorate(leaderLog, matched, c, Len(chosen))
                              /\ leaderCommit[c] >= Len(chosen)
                              /\ Same(chosen, leaderLog[c], Len(chosen))
      BY <1>0, <1>5 DEF CommitOK
    <2>2. /\ c \in Nat /\ Len(chosen) \in Nat /\ leaderCommit[c] \in Nat
          /\ leaderLog[c] \in Seq(Entry) /\ OwnEntry(leaderLog, c, Len(chosen))
      BY SMTT(30), <1>0, <2>1, TypeFacts, BallotNat DEF Quorate
    <2>3. CASE c = b
      BY SMTT(30), <1>1, <1>2, <2>1, <2>2, <2>3
    <2>4. CASE c > b
      <3>1. Started(c)
        BY <2>2 DEF OwnEntry, Started
      <3>2. PICK Q \in Majority : Q \subseteq granted[c]
        BY <1>0, <3>1 DEF Shape, VotesOK
      <3>3. ASSUME NEW q \in Q PROVE vote[q] > b
        <4>1. q \in Replica /\ vote[q] >= c
          BY SMTT(30), <1>0, <3>2, MajorityAssumption DEF Shape, VotesOK
        <4> QED BY SMTT(30), <1>0, <1>1, <2>2, <2>4, <4>1, TypeFacts
      <3> QED BY <3>3
    <2>5. CASE c < b
      <3>1. ~Blocked(vote, matched, c, Len(chosen))
        BY SMTT(30), <1>0, <2>1, <2>2, TypeFacts, NotBlocked
      <3>2. Same(leaderLog[b], leaderLog[c], Len(chosen))
        BY SMTT(30), <1>0, <1>1, <2>2, <2>5, <3>1 DEF SafeOK
      <3>3. /\ Len(chosen) \in 1..Len(leaderLog[b])
            /\ leaderLog[b][Len(chosen)].ballot = c
        BY SMTT(30), <1>1, <2>2, <3>2 DEF Same, OwnEntry
      <3>4. m > Len(chosen)
        <4> SUFFICES ASSUME m <= Len(chosen) PROVE FALSE
          BY SMTT(30), <1>1, <2>2
        <4>1. m \in 1..Len(chosen)
          BY SMTT(30), <1>1, <2>2
        <4>2. leaderLog[b][m].ballot <= leaderLog[b][Len(chosen)].ballot
          BY SMTT(30), <1>1, <3>3, <4>1 DEF WellFormed
        <4> QED BY SMTT(30), <1>1, <1>3, <2>2, <2>5, <3>3, <4>2
      <3> QED BY SMTT(30), <1>1, <1>2, <1>3, <2>2, <3>4
    <2> QED BY SMTT(30), <1>1, <2>2, <2>3, <2>4, <2>5
  <1> QED BY <1>4, <1>5

\* What Next leaves out of the calls changes nothing.
LEMMA RepeatChangesNothing ==
    ASSUME Types, NEW r \in Replica, NEW b \in Ballot, NEW prev, NEW last, NEW commit,
           KnownCommitted(commit, last) \in Nat, last \in Nat,
           IsRepeat(r, b, prev, last, commit), AppendEntries(r, b, prev, last, commit)
    PROVE  UNCHANGED vars
  <1>1. vote' = vote /\ leader' = leader
    BY DEF Types, IsRepeat, AppendEntries, save_vote
  <1>2. log' = log
    BY Zenon DEF IsRepeat, AppendEntries
  <1>3. committed' = committed
    <2>1. Larger(committed[r], KnownCommitted(commit, last)) = committed[r]
      BY DEF Types, IsRepeat, Larger
    <2> QED BY <2>1 DEF Types, AppendEntries, save_committed
  <1>4. matched' = matched
    <2>1. Larger(matched[b][r], last) = matched[b][r]
      BY SMTT(30) DEF Types, IsRepeat, Larger
    <2> QED BY <2>1 DEF Types, AppendEntries
  <1> QED BY ZenonT(60), <1>1, <1>2, <1>3, <1>4
      DEF AppendEntries, vars, replicaVars, ballotVars

\* A heartbeat is an AppendEntries, and the other steps of the handlers leave
\* the group alone.
LEMMA NodeStepIsRaftStep ==
    ASSUME NInv, [NodeNext]_<<vars, nodeVars>>
    PROVE  [Next]_vars
  <1>1. ASSUME NEW r \in Replica, NEW q \in Replica, ConfirmLeader(r, q) PROVE [Next]_vars
    <2> DEFINE b == search.ballot
    <2>1. b \in Ballot
      BY <1>1 DEF ConfirmLeader, Searching, NInv, SearchOK
    <2>2. 0 \in 0..Len(leaderLog[b]) /\ 0 \in 0..leaderCommit[b] /\ 0 \in 0..0
      BY <2>1, TypeFacts DEF NInv, IInv
    <2>3. AppendEntries(q, b, 0, 0, 0)
      BY SMTT(30), <1>1 DEF ConfirmLeader
    <2>4. q # Owner[b] /\ b >= vote[q]
      BY Zenon, <2>3 DEF AppendEntries
    <2>5. KnownCommitted(0, 0) \in Nat
      BY DEF KnownCommitted
    <2> HIDE DEF b
    <2>6. CASE IsRepeat(q, b, 0, 0, 0)
      BY SMTT(30), <2>1, <2>3, <2>5, <2>6, RepeatChangesNothing DEF NInv, IInv
    <2>7. CASE ~IsRepeat(q, b, 0, 0, 0)
      <3>1. Replicate(q, b)
        BY ZenonT(60), <2>2, <2>3, <2>4, <2>7 DEF Replicate
      <3> QED BY Zenon, <2>1, <3>1 DEF Next
    <2> QED BY <2>6, <2>7
  <1>2. ASSUME NEW r \in Replica,
               \/ \E i \in 1..MaxLog : AnswerWrite(r, i)
               \/ BeginSearch(r) \/ SearchStore(r) \/ AnswerSearch(r) \/ FailSearch(r)
        PROVE  UNCHANGED vars
    BY Zenon, <1>2 DEF AnswerWrite, BeginSearch, SearchStore, AnswerSearch, FailSearch
  <1> QED BY <1>1, <1>2 DEF NodeNext

LEMMA ChosenNeverShrinks ==
    ASSUME IInv, [Next]_vars
    PROVE  Len(chosen) <= Len(chosen')
  <1>1. CASE Next
    BY <1>1, ChosenGrows DEF Agreed!Prefix
  <1>2. CASE UNCHANGED vars
    <2>1. chosen \in Seq(Entry) /\ chosen' = chosen
      BY <1>2 DEF IInv, Types, vars
    <2> QED BY <2>1
  <1> QED BY <1>1, <1>2

LEMMA VotesNeverFall ==
    ASSUME IInv, [Next]_vars
    PROVE  \A q \in Replica : vote'[q] >= vote[q]
  <1>1. CASE Next
    BY <1>1, NextIsStep DEF Growing, Grows
  <1>2. CASE UNCHANGED vars
    <2>1. vote' = vote
      BY <1>2 DEF vars, replicaVars
    <2> QED BY <2>1, TypeFacts DEF IInv
  <1> QED BY <1>1, <1>2

\* A search that is not touched by a step stays sound.
LEMMA SearchStays ==
    ASSUME NInv, IInv', [Next]_vars, search' = search
    PROVE  SearchOK'
  <1> SUFFICES ASSUME search # NoSearch PROVE SearchOK'
    BY DEF SearchOK
  <1>1. search \in [at : Replica, phase : {"confirm", "found"}, ballot : Ballot,
                    index : Nat, confirmed : SUBSET Replica, floor : Nat, seen : Nat]
    BY DEF NInv, SearchOK
  <1>2. ASSUME search.phase = "confirm"
        PROVE  search.floor <= search.index \/ Deposed'
    <2>1. CASE Deposed
      <3>1. PICK Q \in Majority : \A q \in Q :
                vote[q] > search.ballot /\ q \notin search.confirmed
        BY <2>1 DEF Deposed
      <3>2. ASSUME NEW q \in Q PROVE vote'[q] > search.ballot
        <4>1. q \in Replica /\ search.ballot \in Nat
          BY SMTT(30), <1>1, MajorityAssumption, BallotNat
        <4>2. vote'[q] >= vote[q] /\ vote[q] \in Nat /\ vote'[q] \in Nat
          BY SMTT(30), <4>1, VotesNeverFall, TypeFacts, TypeFactsNext DEF NInv, IInv
        <4> QED BY SMTT(30), <3>1, <4>1, <4>2
      <3> QED BY <3>1, <3>2 DEF Deposed
    <2> QED BY <1>2, <2>1 DEF NInv, SearchOK
  <1>3. ASSUME search.phase = "found"
        PROVE  search.floor <= search.seen /\ search.seen <= Len(chosen')
    <2>1. search.floor <= search.seen /\ search.seen <= Len(chosen)
      BY <1>3 DEF NInv, SearchOK
    <2>2. /\ Len(chosen) <= Len(chosen') /\ chosen \in Seq(Entry)
          /\ chosen' \in Seq(Entry) /\ search.seen \in Nat
      BY ZenonT(60), <1>1, ChosenNeverShrinks DEF NInv, IInv, Types
    <2> QED BY <2>1, <2>2
  <1> QED BY SMTT(30), <1>1, <1>2, <1>3 DEF SearchOK

LEMMA NextNInv ==
    ASSUME NInv, [NodeNext]_<<vars, nodeVars>>
    PROVE  NInv'
  <1>0. IInv /\ [Next]_vars /\ IInv' /\ Len(chosen) <= Len(chosen')
    BY SMTT(30), NodeStepIsRaftStep, NextIInv, ChosenNeverShrinks DEF NInv
  <1>1. /\ acked \in Nat /\ acked <= Len(chosen)
        /\ chosen \in Seq(Entry) /\ chosen' \in Seq(Entry)
    BY <1>0 DEF NInv, IInv, Types
  <1>a. ASSUME acked' = acked, SearchOK' PROVE NInv'
    BY SMTT(30), <1>0, <1>1, <1>a DEF NInv
  <1>b. \A r \in Replica : committed[r] \in Nat /\ committed[r] <= Len(chosen)
    BY <1>0, KnownNow
  <1> DEFINE R == [at : Replica, phase : {"confirm", "found"}, ballot : Ballot,
                   index : Nat, confirmed : SUBSET Replica, floor : Nat, seen : Nat]
  <1>2. CASE Next /\ UNCHANGED nodeVars
    BY SMTT(30), <1>0, <1>a, <1>2, SearchStays DEF nodeVars
  <1>3. CASE UNCHANGED <<vars, nodeVars>>
    BY SMTT(30), <1>0, <1>a, <1>3, SearchStays DEF nodeVars
  <1>4. ASSUME NEW r \in Replica, NEW i \in 1..MaxLog, AnswerWrite(r, i) PROVE NInv'
    <2>1. i \in 0..committed[r] /\ acked' = i /\ search' = search
      BY <1>4 DEF AnswerWrite, Applied
    <2>2. acked' \in Nat /\ acked' <= Len(chosen')
      BY SMTT(30), <1>0, <1>1, <1>b, <2>1
    <2> QED BY SMTT(30), <1>0, <2>1, <2>2, SearchStays DEF NInv
  <1>5. ASSUME NEW r \in Replica, BeginSearch(r) PROVE NInv'
    <2>1. /\ leader[r] /\ acked' = acked /\ UNCHANGED vars
          /\ search' = [at |-> r, phase |-> "confirm", ballot |-> vote[r],
                        index |-> ReadIndex(r), confirmed |-> {r},
                        floor |-> acked, seen |-> 0]
      BY SMTT(30), <1>5 DEF BeginSearch
    <2>2. vote[r] \in Ballot /\ ReadIndex(r) \in Nat /\ vote' = vote /\ vote[r] \in Nat
      BY SMTT(30), <1>0, <2>1, ReadIndexFacts, BallotNat
         DEF IInv, Shape, LeadersOK, vars, replicaVars
    <2>3. search' \in R
      BY SMTT(30), <1>1, <2>1, <2>2
    <2>4. /\ search'.phase = "confirm" /\ search'.floor = acked
          /\ search'.index = ReadIndex(r) /\ search'.ballot = vote[r]
          /\ search'.confirmed = {r}
      BY <2>1
    <2>5. CASE Len(chosen) <= ReadIndex(r)
      <3>1. acked <= ReadIndex(r)
        BY SMTT(30), <1>1, <2>2, <2>5
      <3>2. SearchOK'
        BY SMTT(30), <2>3, <2>4, <3>1 DEF SearchOK
      <3> QED BY SMTT(30), <1>a, <2>1, <3>2
    <2>6. CASE \E Q \in Majority : \A q \in Q : vote[q] > vote[r]
      <3>1. PICK Q \in Majority : \A q \in Q : vote[q] > vote[r]
        BY <2>6
      <3>2. \A q \in Q : vote'[q] > search'.ballot /\ q \notin search'.confirmed
        BY SMTT(30), <2>2, <2>4, <3>1
      <3>3. Deposed'
        BY <3>2 DEF Deposed
      <3>4. SearchOK'
        BY SMTT(30), <2>3, <2>4, <3>3 DEF SearchOK
      <3> QED BY SMTT(30), <1>a, <2>1, <3>4
    <2> QED BY SMTT(30), <1>0, <2>1, <2>5, <2>6, ReadIndexCovers
  <1>6. ASSUME NEW r \in Replica, NEW q \in Replica, ConfirmLeader(r, q) PROVE NInv'
    <2>1. /\ search # NoSearch /\ search.phase = "confirm" /\ acked' = acked
          /\ search' = [search EXCEPT !.confirmed = @ \cup {q}]
          /\ search.ballot >= vote[q]
      BY <1>6 DEF ConfirmLeader, Searching, AppendEntries
    <2>2. search \in R
      BY <2>1 DEF NInv, SearchOK
    <2>3. /\ search' \in R /\ search'.phase = "confirm" /\ search'.ballot = search.ballot
          /\ search'.confirmed = search.confirmed \cup {q}
          /\ search'.floor = search.floor /\ search'.index = search.index
      BY <2>1, <2>2
    <2>4. CASE search.floor <= search.index
      <3>1. SearchOK'
        BY <2>3, <2>4 DEF SearchOK
      <3> QED BY SMTT(30), <1>a, <2>1, <3>1
    <2>5. CASE Deposed
      <3>1. PICK Q \in Majority : \A p \in Q :
                vote[p] > search.ballot /\ p \notin search.confirmed
        BY <2>5 DEF Deposed
      <3>2. ASSUME NEW p \in Q
            PROVE  vote'[p] > search'.ballot /\ p \notin search'.confirmed
        <4>1. p \in Replica /\ search.ballot \in Nat /\ vote[q] \in Nat
          BY SMTT(30), <1>0, <2>2, MajorityAssumption, BallotNat, TypeFacts DEF IInv
        <4>2. vote'[p] >= vote[p] /\ vote[p] \in Nat /\ vote'[p] \in Nat
          BY SMTT(30), <1>0, <4>1, VotesNeverFall, TypeFacts, TypeFactsNext DEF IInv
        <4>3. p # q
          BY SMTT(30), <2>1, <3>1, <4>1, <4>2
        <4>4. vote'[p] > search.ballot
          BY SMTT(30), <3>1, <4>1, <4>2
        <4> QED BY SMTT(30), <2>3, <3>1, <4>3, <4>4
      <3>3. SearchOK'
        BY SMTT(30), <2>3, <3>2 DEF SearchOK, Deposed
      <3> QED BY SMTT(30), <1>a, <2>1, <3>3
    <2> QED BY SMTT(30), <2>1, <2>4, <2>5 DEF NInv, SearchOK
  <1>7. ASSUME NEW r \in Replica, SearchStore(r) PROVE NInv'
    <2>1. PICK n \in 0..committed[r] :
            /\ n >= search.index
            /\ search' = [search EXCEPT !.phase = "found", !.confirmed = {}, !.seen = n]
      BY Zenon, <1>7 DEF SearchStore, Applied
    <2>2. /\ search # NoSearch /\ search.phase = "confirm" /\ acked' = acked
          /\ \E Q \in Majority : Q \subseteq search.confirmed
      BY <1>7 DEF SearchStore, Searching, Linearizable
    <2>3. search \in R /\ n \in Nat /\ n <= Len(chosen)
      BY SMTT(30), <1>1, <1>b, <2>2 DEF NInv, SearchOK
    <2>4. /\ search' \in R /\ search'.phase = "found"
          /\ search'.floor = search.floor /\ search'.seen = n
      BY ZenonT(60), <2>1, <2>3
    <2>5. ~Deposed
      BY <2>2, MajorityAssumption DEF Deposed
    <2>6. search.floor <= search.index
      BY <2>2, <2>5 DEF NInv, SearchOK
    <2>7. search'.floor <= search'.seen /\ search'.seen <= Len(chosen')
      BY SMTT(30), <1>0, <1>1, <2>1, <2>3, <2>4, <2>6
    <2>8. SearchOK'
      BY SMTT(30), <2>4, <2>7 DEF SearchOK
    <2> QED BY SMTT(30), <1>a, <2>2, <2>8
  <1>8. ASSUME NEW r \in Replica, AnswerSearch(r) PROVE NInv'
    <2>1. /\ search # NoSearch /\ search.phase = "found" /\ search' = NoSearch
          /\ acked' = Larger(acked, search.seen)
      BY <1>8 DEF AnswerSearch, Searching
    <2>2. search.seen \in Nat /\ search.seen <= Len(chosen)
      BY <2>1 DEF NInv, SearchOK
    <2>3. acked' \in Nat /\ acked' <= Len(chosen')
      BY SMTT(30), <1>0, <1>1, <2>1, <2>2 DEF Larger
    <2> QED BY SMTT(30), <1>0, <2>1, <2>3 DEF NInv, SearchOK
  <1>9. ASSUME NEW r \in Replica, FailSearch(r) PROVE NInv'
    BY <1>a, <1>9 DEF FailSearch, SearchOK
  <1> QED BY SMTT(30), <1>2, <1>3, <1>4, <1>5, <1>6, <1>7, <1>8, <1>9 DEF NodeNext

THEOREM NodeInvariance == NodeSpec => []NInv
  <1>1. ASSUME NodeInit PROVE NInv
    <2>1. IInv /\ acked = 0 /\ search = NoSearch /\ chosen = <<>>
      BY <1>1, InitIInv DEF NodeInit, Init
    <2> QED BY <2>1 DEF NInv, SearchOK
  <1> QED BY <1>1, NextNInv, PTL DEF NodeSpec

\* The handlers only use the Raft group: whatever it promises by itself, one
\* agreed log included, it keeps with clients and their heartbeats on top.
THEOREM NodeKeepsRaft == NodeSpec => Spec /\ AgreedLogKept
  <1>1. ASSUME NodeInit PROVE Init
    BY <1>1 DEF NodeInit
  <1>2. ASSUME NInv, [NodeNext]_<<vars, nodeVars>> PROVE [Next]_vars
    BY <1>2, NodeStepIsRaftStep
  <1>3. NodeSpec => Spec
    BY <1>1, <1>2, NodeInvariance, PTL DEF NodeSpec, Spec
  <1> QED BY <1>3, ImplementsAgreedLog, PTL

\* ReadsAreCurrent holds in every reachable state: ensure_linearizable keeps an
\* ex-leader from answering a search with data older than an answered write.
THEOREM SearchesAreCurrent == NodeSpec => []ReadsAreCurrent
  <1>1. ASSUME NInv PROVE ReadsAreCurrent
    <2> SUFFICES ASSUME NEW r \in Replica, search # NoSearch, search.phase = "found"
                 PROVE  search.seen >= search.floor
      BY DEF ReadsAreCurrent, Searching
    <2>1. search.floor <= search.seen /\ search.floor \in Nat /\ search.seen \in Nat
      BY SMTT(30), <1>1 DEF NInv, SearchOK
    <2> QED BY <2>1
  <1> QED BY <1>1, NodeInvariance, PTL

\* AckedIsKept holds in every reachable state: what insert or delete answered,
\* or a search has shown, is in the log of every later leader.
THEOREM AcknowledgedIsKept == NodeSpec => []AckedIsKept
  <1>1. ASSUME NInv PROVE AckedIsKept
    <2> SUFFICES ASSUME NEW r \in Replica, Leads(r)
                 PROVE  /\ acked <= Len(chosen)
                        /\ Agreed!Prefix(SubSeq(chosen, 1, acked), log[r])
      BY DEF AckedIsKept
    <2>1. IInv /\ acked \in Nat /\ acked <= Len(chosen) /\ chosen \in Seq(Entry)
      BY <1>1 DEF NInv, IInv, Types
    <2>2. Agreed!Prefix(chosen, log[r])
      BY <2>1, LeaderHasAll DEF CommittedNeverLost
    <2>3. /\ Len(SubSeq(chosen, 1, acked)) = acked
          /\ \A j \in 1..acked : SubSeq(chosen, 1, acked)[j] = chosen[j]
      BY SMTT(30), <2>1
    <2>4. Len(log[r]) \in Nat
      BY <2>1, TypeFacts DEF IInv
    <2> QED BY SMTT(30), <2>1, <2>2, <2>3, <2>4 DEF Agreed!Prefix
  <1> QED BY <1>1, NodeInvariance, PTL

\* What a step of the Raft group does to the agreed log, as LinearLog sees it.
LEMMA ChosenStep ==
    ASSUME IInv, IInv', [Next]_vars, chosen' # chosen
    PROVE  /\ Len(chosen') > Len(chosen)
           /\ \A i \in 1..Len(chosen) : chosen'[i] = chosen[i]
  <1>1. chosen \in Seq(Entry) /\ chosen' \in Seq(Entry)
    BY DEF IInv, Types
  <1>2. /\ Len(chosen) <= Len(chosen')
        /\ \A i \in 1..Len(chosen) : chosen[i] = chosen'[i]
    BY ChosenGrows DEF Agreed!Prefix, vars
  <1>3. Len(chosen) # Len(chosen')
    BY SMTT(30), <1>1, <1>2
  <1> QED BY SMTT(30), <1>1, <1>2, <1>3

\* Every step of the handlers is one of LinearLog, or none that clients see.
LEMMA LinearStep ==
    ASSUME NInv, NInv', [NodeNext]_<<vars, nodeVars>>
    PROVE  [Linear!LinearNext]_(Linear!linearVars)
  <1> DEFINE Goal == [Linear!LinearNext]_(Linear!linearVars)
             same == UNCHANGED <<chosen, acked>>
  <1>0. IInv /\ IInv' /\ [Next]_vars /\ acked \in Nat /\ chosen \in Seq(Entry)
    BY SMTT(30), NodeStepIsRaftStep DEF NInv, IInv, Types
  <1>1. ASSUME UNCHANGED nodeVars PROVE Goal
    <2>1. Found' = Found /\ acked' = acked /\ search' = search
      BY <1>1 DEF nodeVars, Found
    <2>2. CASE chosen' = chosen
      BY <2>1, <2>2 DEF Linear!linearVars
    <2>3. CASE chosen' # chosen
      BY SMTT(30), <1>0, <2>1, <2>3, ChosenStep DEF Linear!LinearNext, Linear!Write
    <2> QED BY <2>2, <2>3
  \* A search that ends without a result, or none.
  <1>2. ASSUME search' = NoSearch, ~Found, same PROVE Goal
    BY <1>2 DEF Found, Linear!LinearNext, Linear!FailRead
  <1>3. ASSUME NEW r \in Replica, NEW i \in 1..MaxLog, AnswerWrite(r, i) PROVE Goal
    <2>1. /\ i \in 0..committed[r] /\ i > acked /\ acked' = i /\ search' = search
          /\ chosen' = chosen
      BY <1>3 DEF AnswerWrite, Applied, vars
    <2>2. committed[r] \in Nat /\ committed[r] <= Len(chosen)
      BY <1>0, KnownNow
    <2>3. acked' \in acked + 1..Len(chosen)
      BY <1>0, <2>1, <2>2
    <2>4. Found' = Found
      BY <2>1 DEF Found
    <2> QED BY SMTT(30), <2>1, <2>3, <2>4 DEF Linear!LinearNext, Linear!AnswerWrite
  <1>4. ASSUME NEW r \in Replica, BeginSearch(r) PROVE Goal
    <2>1. /\ search = NoSearch /\ same /\ ~Found
          /\ search'.phase = "confirm" /\ search'.floor = acked
      BY <1>4 DEF BeginSearch, vars, Found
    <2>2. CASE search' = NoSearch
      BY <1>2, <2>1, <2>2
    <2>3. CASE search' # NoSearch
      <3>1. ~Found'
        BY <2>1 DEF Found
      <3> QED BY <2>1, <2>3, <3>1 DEF Linear!LinearNext, Linear!BeginRead
    <2> QED BY SMTT(30), <2>2, <2>3
  <1>5. ASSUME NEW r \in Replica, NEW q \in Replica, ConfirmLeader(r, q) PROVE Goal
    <2>1. /\ search # NoSearch /\ search.phase = "confirm" /\ acked' = acked
          /\ search' = [search EXCEPT !.confirmed = @ \cup {q}]
          /\ chosen' = chosen
      BY <1>5 DEF ConfirmLeader, Searching, AppendEntries
    <2>2. search'.phase = "confirm" /\ search'.floor = search.floor
      BY <2>1 DEF NInv, SearchOK
    <2>3. ~Found /\ ~Found'
      BY <2>1, <2>2 DEF Found
    <2>4. CASE search' = NoSearch
      BY SMTT(30), <1>2, <2>1, <2>3, <2>4
    <2>5. CASE search' # NoSearch
      BY SMTT(30), <2>1, <2>2, <2>3, <2>5 DEF Linear!linearVars
    <2> QED BY <2>4, <2>5
  <1>6. ASSUME NEW r \in Replica, SearchStore(r) PROVE Goal
    <2>1. /\ search # NoSearch /\ search.phase = "confirm" /\ same
          /\ \E n : search' = [search EXCEPT !.phase = "found", !.confirmed = {},
                                             !.seen = n]
      BY Zenon, <1>6 DEF SearchStore, Searching, vars
    <2>2. search'.phase = "found" /\ search'.floor = search.floor
      BY <2>1 DEF NInv, SearchOK
    <2>3. ~Found
      BY <2>1 DEF Found
    <2>4. CASE search' = NoSearch
      BY SMTT(30), <1>2, <2>1, <2>3, <2>4
    <2>5. CASE search' # NoSearch
      <3>1. Found' /\ search'.seen \in Nat /\ search'.floor \in Nat
              /\ search'.floor <= search'.seen /\ search'.seen <= Len(chosen')
        BY <2>2, <2>5 DEF NInv, SearchOK, Found
      <3>2. search'.seen \in search.floor..Len(chosen)
        BY SMTT(30), <1>0, <2>1, <2>2, <3>1
      <3> QED BY SMTT(30), <2>1, <2>2, <2>3, <2>5, <3>1, <3>2 DEF Linear!LinearNext, Linear!Read
    <2> QED BY <2>4, <2>5
  <1>7. ASSUME NEW r \in Replica, AnswerSearch(r) PROVE Goal
    <2>1. /\ Found /\ search' = NoSearch /\ chosen' = chosen
          /\ acked' = Larger(acked, search.seen)
      BY <1>7 DEF AnswerSearch, Searching, vars, Found
    <2>2. ~Found'
      BY <2>1 DEF Found
    <2> QED BY <2>1, <2>2 DEF Larger, Linear!LinearNext, Linear!AnswerRead
  <1>8. ASSUME NEW r \in Replica, FailSearch(r) PROVE Goal
    <2>1. search' = NoSearch /\ ~Found /\ same
      BY <1>8 DEF FailSearch, Searching, vars, Found
    <2> QED BY <1>2, <2>1
  <1> QED BY SMTT(30), <1>1, <1>3, <1>4, <1>5, <1>6, <1>7, <1>8 DEF NodeNext

\* ClientsSeeOneLog: for any group, quorum system and bounds, the handlers on top
\* of Raft implement a log that is written and read one operation at a time.
THEOREM ImplementsLinearLog == NodeSpec => ClientsSeeOneLog
  <1>1. ASSUME NodeInit PROVE Linear!LinearInit
    BY <1>1 DEF NodeInit, Init, Found, Linear!LinearInit
  <1>2. ASSUME NInv, NInv', [NodeNext]_<<vars, nodeVars>>
        PROVE  [Linear!LinearNext]_(Linear!linearVars)
    BY <1>2, LinearStep
  <1> QED BY <1>1, <1>2, NodeInvariance, PTL
         DEF NodeSpec, ClientsSeeOneLog, Linear!LinearSpec
=============================================================================
