---------------------------- MODULE RaftLogProofs ---------------------------
(***************************************************************************)
(* Proofs about RaftLog, for every set of replicas, every system of        *)
(* intersecting quorums and every bound: its invariants, that it           *)
(* implements AgreedLog, and what Raft guarantees to the replicas: state   *)
(* machine safety, leader completeness, and what no step removes from a    *)
(* log. RaftLogSteps has the inductive invariant, the forms of the steps,  *)
(* and the first parts of the induction.                                   *)
(***************************************************************************)
EXTENDS RaftLogSteps

-----------------------------------------------------------------------------
(* The other parts of the invariant *)

LEMMA LeadersStep ==
    ASSUME IInv, Types', Step
    PROVE  LeadersOK'
  <1>0. Types /\ Shape /\ LeadersOK
    BY DEF IInv, Shape
  <1> DEFINE LeaderOK(s) == leader'[s] =>
        /\ vote'[s] \in Ballot /\ Owner[vote'[s]] = s /\ leaderLog'[vote'[s]] # <<>>
        /\ log'[s] = leaderLog'[vote'[s]]
        /\ committed'[s] = leaderCommit'[vote'[s]]
  <1> SUFFICES ASSUME NEW s \in Replica PROVE LeaderOK(s)
    BY DEF LeadersOK, Started
  <1>a. leader[s] =>
        /\ vote[s] \in Ballot /\ Owner[vote[s]] = s /\ leaderLog[vote[s]] # <<>>
        /\ log[s] = leaderLog[vote[s]]
        /\ committed[s] = leaderCommit[vote[s]]
    BY <1>0 DEF LeadersOK, Started
  <1>1. ASSUME NEW r \in Replica, Initialize(r) PROVE LeaderOK(s)
    <2>1. /\ log[r] = <<>> /\ leaderLog' = leaderLog /\ leaderCommit' = leaderCommit
          /\ vote' = vote /\ leader' = leader /\ committed' = committed
          /\ log' = [log EXCEPT ![r] =
                         append(log[r], <<[ballot |-> 0, payload |-> "Membership"]>>)]
      BY <1>1 DEF Initialize, ballotVars
    <2>2. leader[s] => s # r
      BY <1>a, <2>1
    <2>3. s # r => log'[s] = log[s]
      BY <1>0, <2>1 DEF Types
    <2> QED BY <1>a, <2>1, <2>2, <2>3
  <1>2. ASSUME NEW r \in Replica, NEW b \in Ballot, VoteStep(r, b) PROVE LeaderOK(s)
    <2>1. /\ vote' = [vote EXCEPT ![r] = b] /\ leader' = [leader EXCEPT ![r] = FALSE]
          /\ UNCHANGED <<log, committed, leaderLog, leaderCommit>>
      BY <1>2 DEF VoteStep
    <2>2. CASE s = r
      <3>1. leader'[s] = FALSE
        BY <1>0, <2>1, <2>2 DEF Types
      <3> QED BY <3>1
    <2>3. CASE s # r
      <3>1. vote'[s] = vote[s] /\ leader'[s] = leader[s]
        BY <1>0, <2>1, <2>3 DEF Types
      <3> QED BY <1>a, <2>1, <3>1
    <2> QED BY <2>2, <2>3
  <1>3. ASSUME NEW r \in Replica, NEW e \in Entry, LeadStep(r, e) PROVE LeaderOK(s)
    <2>1. /\ vote' = vote /\ leader' = [leader EXCEPT ![r] = TRUE]
          /\ log' = [log EXCEPT ![r] = append(log[r], <<e>>)]
          /\ leaderCommit' = [leaderCommit EXCEPT ![vote[r]] = committed[r]]
          /\ committed' = committed /\ vote[r] \in Ballot /\ Owner[vote[r]] = r
      BY <1>3 DEF LeadStep
    <2>2. /\ leaderLog'[vote[r]] = log'[r] /\ Len(log'[r]) = Len(log[r]) + 1
          /\ \A d \in Ballot : d # vote[r] => leaderLog'[d] = leaderLog[d]
      BY Zenon, <1>0, <1>3, LeadGrowing
    <2>3. CASE s = r
      <3>1. log'[r] # <<>>
        BY <1>0, <2>2, TypeFacts
      <3>2. leaderCommit'[vote[r]] = committed[r]
        BY <1>0, <2>1 DEF Types
      <3> QED BY <2>1, <2>2, <2>3, <3>1, <3>2
    <2>4. CASE s # r
      <3>1. leader'[s] = leader[s] /\ log'[s] = log[s]
        BY <1>0, <2>1, <2>4 DEF Types
      <3>2. leader[s] => vote[s] # vote[r]
        BY <1>a, <2>1, <2>4
      <3>3. \A d \in Ballot : d # vote[r] => leaderCommit'[d] = leaderCommit[d]
        BY <1>0, <2>1 DEF Types
      <3> QED BY <1>a, <2>1, <2>2, <3>1, <3>2, <3>3
    <2> QED BY <2>3, <2>4
  <1>4. ASSUME NEW r \in Replica, NEW b \in Ballot, NEW last \in 0..Len(leaderLog[b]),
               NEW commit, NEW l \in Seq(Entry), AppendStep(r, b, last, commit, l)
        PROVE  LeaderOK(s)
    <2>1. /\ vote' = [vote EXCEPT ![r] = b] /\ leader' = [leader EXCEPT ![r] = FALSE]
          /\ log' = [log EXCEPT ![r] = l]
          /\ committed' = [committed EXCEPT ![r] =
                               Larger(committed[r], KnownCommitted(commit, last))]
          /\ UNCHANGED <<leaderLog, leaderCommit>>
      BY <1>4 DEF AppendStep
    <2>2. CASE s = r
      <3>1. leader'[s] = FALSE
        BY <1>0, <2>1, <2>2 DEF Types
      <3> QED BY <3>1
    <2>3. CASE s # r
      <3>1. vote'[s] = vote[s] /\ leader'[s] = leader[s]
        BY <1>0, <2>1, <2>3 DEF Types
      <3>2. log'[s] = log[s] /\ committed'[s] = committed[s]
        BY <1>0, <2>1, <2>3 DEF Types
      <3> QED BY <1>a, <2>1, <3>1, <3>2
    <2> QED BY <2>2, <2>3
  <1>5. ASSUME NEW r \in Replica, NEW i \in 1..MaxLog, Commit(r, i) PROVE LeaderOK(s)
    <2>1. /\ UNCHANGED <<vote, log, leader, leaderLog>> /\ leader[r]
          /\ committed' = [committed EXCEPT ![r] = i]
          /\ leaderCommit' = [leaderCommit EXCEPT ![vote[r]] = i]
      BY <1>5 DEF Commit, save_committed
    <2>2. /\ vote[r] \in Ballot /\ Owner[vote[r]] = r
      BY <1>0, <2>1 DEF LeadersOK
    <2>3. CASE s = r
      <3>1. committed'[s] = i /\ leaderCommit'[vote[r]] = i
        BY <1>0, <2>1, <2>2, <2>3 DEF Types
      <3> QED BY <1>a, <2>1, <2>3, <3>1
    <2>4. CASE s # r
      <3>1. leader[s] => vote[s] # vote[r]
        BY <1>a, <2>2, <2>4
      <3>2. /\ committed'[s] = committed[s]
            /\ \A d \in Ballot : d # vote[r] => leaderCommit'[d] = leaderCommit[d]
        BY <1>0, <2>1, <2>4 DEF Types
      <3> QED BY <1>a, <2>1, <3>1, <3>2
    <2> QED BY <2>3, <2>4
  <1> QED BY <1>1, <1>2, <1>3, <1>4, <1>5 DEF Step

LEMMA AcceptedStep ==
    ASSUME IInv, Types', Step, Growing
    PROVE  AcceptedOK'
  <1>0. Types /\ Shape /\ AcceptedOK /\ SafeOK
    BY DEF IInv
  <1> SUFFICES ASSUME NEW c \in Ballot, NEW s \in Replica, NEW k \in Nat,
                      OwnEntry(leaderLog', c, k), matched'[c][s] >= k,
                      ~Blocked(vote', matched', c, k)
               PROVE  Same(log'[s], leaderLog'[c], k)
    BY DEF AcceptedOK
  <1>1. /\ leaderLog \in Logs /\ leaderLog' \in Logs /\ matched[c][s] \in Nat
        /\ leaderLog[c] \in Seq(Entry) /\ leaderLog'[c] \in Seq(Entry)
        /\ log[s] \in Seq(Entry) /\ log'[s] \in Seq(Entry)
        /\ k >= 1 /\ k <= Len(leaderLog'[c]) /\ c \in Nat /\ c > 0
    BY <1>0, TypeFacts, TypeFactsNext, BallotNat DEF OwnEntry
  <1>2. LogsGrow(leaderLog, leaderLog')
    BY DEF Growing, Grows
  <1>3. ~Blocked(vote, matched, c, k)
    BY <1>0, TypeFacts, TypeFactsNext, BlockedGrows DEF Growing
  <1>4. matched[c][s] <= Len(leaderLog[c]) /\ (matched[c][s] > 0 => vote[s] >= c)
    BY <1>0 DEF Shape, MatchesOK
  <1>a. ASSUME matched[c][s] >= k
        PROVE  OwnEntry(leaderLog, c, k) /\ Same(log[s], leaderLog[c], k)
    <2>1. OwnEntry(leaderLog, c, k)
      BY <1>1, <1>2, <1>4, <1>a, OwnEntryGrows
    <2> QED BY <1>0, <1>3, <1>a, <2>1 DEF AcceptedOK
  <1>b. ASSUME matched'[c][s] = matched[c][s],
               log'[s] = log[s] \/ Same(log[s], log'[s], Len(log[s]))
        PROVE  Same(log'[s], leaderLog'[c], k)
    <2>1. Same(log[s], leaderLog'[c], k)
      BY <1>1, <1>2, <1>a, <1>b, SameGrows
    <2> QED BY <1>1, <1>b, <2>1 DEF Same
  <1>5. ASSUME NEW r \in Replica, Initialize(r)
        PROVE  Same(log'[s], leaderLog'[c], k)
    <2>1. /\ vote[r] = 0 /\ matched' = matched
          /\ log' = [log EXCEPT ![r] =
                         append(log[r], <<[ballot |-> 0, payload |-> "Membership"]>>)]
      BY <1>5 DEF Initialize, ballotVars
    <2>2. s # r
      BY <1>1, <1>4, <2>1
    <2>3. log'[s] = log[s]
      BY <1>0, <2>1, <2>2 DEF Types
    <2> QED BY <1>b, <2>1, <2>3
  <1>6. ASSUME NEW r \in Replica, NEW e \in Entry, LeadStep(r, e)
        PROVE  Same(log'[s], leaderLog'[c], k)
    <2>1. /\ matched' = [matched EXCEPT ![vote[r]][r] = Len(log[r]) + 1]
          /\ log' = [log EXCEPT ![r] = append(log[r], <<e>>)]
      BY <1>6 DEF LeadStep
    <2>2. /\ leaderLog'[vote[r]] = log'[r] /\ Same(log[r], log'[r], Len(log[r]))
      BY Zenon, <1>0, <1>6, LeadGrowing
    <2>3. CASE c = vote[r] /\ s = r
      BY <1>1, <2>2, <2>3 DEF Same
    <2>4. CASE c # vote[r] \/ s # r
      <3>1. matched'[c][s] = matched[c][s]
        BY <1>0, <2>1, <2>4 DEF Types
      <3>2. s # r => log'[s] = log[s]
        BY <1>0, <2>1 DEF Types
      <3> QED BY <1>b, <2>2, <3>1, <3>2
    <2> QED BY <2>3, <2>4
  <1>7. ASSUME NEW r \in Replica, NEW b \in Ballot, NEW last \in 0..Len(leaderLog[b]),
               NEW commit, NEW l \in Seq(Entry), AppendStep(r, b, last, commit, l)
        PROVE  Same(log'[s], leaderLog'[c], k)
    <2>1. /\ matched' = [matched EXCEPT ![b][r] = Larger(matched[b][r], last)]
          /\ log' = [log EXCEPT ![r] = l] /\ leaderLog' = leaderLog
          /\ Same(l, leaderLog[b], last) /\ Started(b) /\ b >= vote[r]
          /\ l = log[r] \/ (Len(l) = last /\ ~Same(log[r], leaderLog[b], last))
      BY <1>7 DEF AppendStep
    <2>2. CASE s # r
      <3>1. matched'[c][s] = matched[c][s] /\ log'[s] = log[s]
        BY <1>0, <2>1, <2>2 DEF Types
      <3> QED BY <1>b, <3>1
    <2>3. CASE s = r
      <3>0. log'[s] = l /\ leaderLog[b] \in Seq(Entry) /\ b \in Nat /\ vote[r] \in Nat
        BY <1>0, <2>1, <2>3, TypeFacts, BallotNat DEF Types
      <3>1. CASE c = b /\ k <= last
        BY <1>1, <2>1, <3>0, <3>1, SamePart
      <3>2. CASE c # b \/ k > last
        <4>1. matched[c][s] >= k
          <5>1. matched'[c][s] = IF c = b THEN Larger(matched[b][r], last)
                                 ELSE matched[c][s]
            BY <1>0, <2>1, <2>3 DEF Types
          <5> QED BY <1>1, <2>3, <3>2, <5>1 DEF Larger
        <4>2. OwnEntry(leaderLog, c, k) /\ Same(log[r], leaderLog[c], k)
          BY <1>a, <2>3, <4>1
        <4>3. Same(leaderLog[b], leaderLog[c], k)
          <5>1. CASE c = b
            BY <1>1, <2>1, <5>1 DEF Same
          <5>2. CASE c # b
            <6>1. c < b
              BY <1>1, <1>4, <2>1, <2>3, <3>0, <4>1, <5>2
            <6> QED BY <1>0, <1>3, <2>1, <4>2, <6>1 DEF SafeOK
          <5> QED BY <5>1, <5>2
        <4>4. CASE l = log[r]
          BY <2>1, <3>0, <4>2, <4>4
        <4>5. CASE Len(l) = last /\ ~Same(log[r], leaderLog[b], last)
          <5>1. Same(log[r], leaderLog[b], k)
            BY <4>2, <4>3 DEF Same
          <5>2. k <= last
            BY <1>1, <3>0, <4>5, <5>1 DEF Same
          <5>3. Same(l, leaderLog[b], k)
            BY <2>1, <5>2 DEF Same
          <5> QED BY <2>1, <3>0, <4>3, <5>3 DEF Same
        <4> QED BY <2>1, <4>4, <4>5
      <3>3. last \in Int /\ k \in Int
        OBVIOUS
      <3>4. (c = b /\ k <= last) \/ (c # b \/ k > last)
        BY <3>3
      <3> QED BY <3>1, <3>2, <3>4
    <2> QED BY <2>2, <2>3
  <1>8. ASSUME NEW r \in Replica,
               (\E b \in Ballot : VoteStep(r, b)) \/ \E i \in 1..MaxLog : Commit(r, i)
        PROVE  Same(log'[s], leaderLog'[c], k)
    <2>1. matched' = matched /\ log' = log
      BY <1>8 DEF VoteStep, Commit
    <2> QED BY <1>b, <2>1
  <1> QED BY <1>5, <1>6, <1>7, <1>8 DEF Step

\* The last log id of a log that has entry i of ballot b is at least (b, i).
LEMMA LastLogId ==
    ASSUME NEW l \in Seq(Entry), NEW ll, WellFormed(l, ll),
           NEW i \in 1..Len(l)
    PROVE  AtLeast(get_log_state(l), LogId(l[i].ballot, i))
  <1>1. l # <<>> /\ Len(l) \in Nat /\ i <= Len(l) /\ Len(l) \in 1..Len(l)
    OBVIOUS
  <1>2. l[i].ballot <= l[Len(l)].ballot
    BY <1>1 DEF WellFormed
  <1>3. l[i].ballot \in Nat /\ l[Len(l)].ballot \in Nat
    BY <1>1, EntryBallot
  <1>4. get_log_state(l) = LogId(l[Len(l)].ballot, Len(l))
    BY <1>1 DEF get_log_state
  <1> QED BY <1>1, <1>2, <1>3, <1>4 DEF AtLeast, LogId

LEMMA AtLeastTrans ==
    ASSUME NEW x, NEW y, NEW z,
           x.ballot \in Nat, x.index \in Nat, y.ballot \in Nat, y.index \in Nat,
           z.ballot \in Nat, z.index \in Nat, AtLeast(x, y), AtLeast(y, z)
    PROVE  AtLeast(x, z)
  BY SMTT(30) DEF AtLeast

LEMMA GrantedStep ==
    ASSUME IInv, Types', Step, Growing
    PROVE  GrantedOK'
  <1>0. Types /\ Shape /\ AcceptedOK /\ GrantedOK
    BY DEF IInv
  <1> SUFFICES ASSUME NEW b \in Ballot, NEW c \in Ballot, NEW s \in Replica,
                      NEW k \in Nat, b < c, s \in granted'[c],
                      OwnEntry(leaderLog', b, k), matched'[b][s] >= k,
                      ~Blocked(vote', matched', b, k)
               PROVE  AtLeast(candidateLog'[c], LogId(b, k))
    BY DEF GrantedOK
  <1>1. ~Blocked(vote, matched, b, k)
    BY SMTT(30), <1>0, TypeFacts, TypeFactsNext, BlockedGrows DEF Growing
  <1>2. ASSUME matched'[b][s] = matched[b][s] PROVE OwnEntry(leaderLog, b, k)
    <2>1. matched[b][s] <= Len(leaderLog[b])
      BY <1>0 DEF Shape, MatchesOK
    <2>2. k <= Len(leaderLog[b])
      BY <1>0, <1>2, <2>1, TypeFacts
    <2> QED BY <1>0, <2>2, TypeFacts, TypeFactsNext, OwnEntryGrows
            DEF Growing, Grows
  <1>3. CASE s \in granted[c] /\ candidateLog'[c] = candidateLog[c]
    <2>1. vote[s] >= c
      BY <1>0, <1>3 DEF Shape, VotesOK
    <2>2. vote[s] > b
      BY SMTT(30), <1>0, <2>1, TypeFacts, BallotNat
    <2>3. matched'[b][s] = matched[b][s]
      BY SMTT(30), <2>2 DEF Growing, Grows
    <2> QED BY <1>0, <1>1, <1>2, <1>3, <2>3 DEF GrantedOK
  <1>4. ASSUME NEW r \in Replica, NEW d \in Ballot, VoteStep(r, d)
        PROVE  AtLeast(candidateLog'[c], LogId(b, k))
    <2>1. /\ granted' = [granted EXCEPT ![d] = granted[d] \cup {r}]
          /\ AtLeast(candidateLog'[d], get_log_state(log[r]))
          /\ \A f \in Ballot : f # d \/ Owner[d] # r \/ granted[d] # {} =>
                 candidateLog'[f] = candidateLog[f]
          /\ matched' = matched
      BY <1>4 DEF VoteStep
    <2>2. granted'[c] = IF c = d THEN granted[d] \cup {r} ELSE granted[c]
      BY SMTT(30), <1>0, <2>1 DEF Types
    <2>3. CASE s \in granted[c]
      <3>1. candidateLog'[c] = candidateLog[c]
        BY <2>1, <2>3
      <3> QED BY <1>3, <2>3, <3>1
    <2>4. CASE s \notin granted[c]
      <3>1. c = d /\ s = r
        BY <2>2, <2>4
      <3>2. OwnEntry(leaderLog, b, k) /\ matched[b][s] >= k
        BY <1>2, <2>1
      <3>3. Same(log[r], leaderLog[b], k)
        BY <1>0, <1>1, <3>1, <3>2 DEF AcceptedOK
      <3>4. log[r] \in Seq(Entry) /\ leaderLog[b] \in Seq(Entry)
        BY <1>0, TypeFacts
      <3>5. k \in 1..Len(log[r]) /\ log[r][k].ballot = b
        BY <3>2, <3>3, <3>4 DEF Same, OwnEntry
      <3>6. WellFormed(log[r], leaderLog)
        BY <1>0 DEF Shape, LogsOK
      <3>7. AtLeast(get_log_state(log[r]), LogId(b, k))
        BY <3>4, <3>5, <3>6, LastLogId
      <3>8. /\ candidateLog'[c].ballot \in Nat /\ candidateLog'[c].index \in Nat
        <4>1. candidateLog'[c] \in [ballot : 0..MaxBallot, index : Nat]
          BY DEF Types
        <4> QED BY <4>1, BoundAssumption
      <3>9. get_log_state(log[r]).ballot \in Nat /\ get_log_state(log[r]).index \in Nat
        <4>1. get_log_state(log[r]) \in [ballot : 0..MaxBallot, index : Nat]
          BY <3>4, LogState
        <4> QED BY <4>1, BoundAssumption
      <3>10. LogId(b, k).ballot \in Nat /\ LogId(b, k).index \in Nat
        BY BallotNat DEF LogId
      <3>11. AtLeast(candidateLog'[c], get_log_state(log[r]))
        BY <2>1, <3>1
      <3> QED BY SMTT(30), <3>7, <3>8, <3>9, <3>10, <3>11, AtLeastTrans
    <2> QED BY <2>3, <2>4
  <1>5. ASSUME granted' = granted /\ candidateLog' = candidateLog
        PROVE  AtLeast(candidateLog'[c], LogId(b, k))
    BY SMTT(30), <1>3, <1>5
  <1>6. ASSUME NEW r \in Replica,
               \/ Initialize(r)
               \/ \E e \in Entry : LeadStep(r, e)
               \/ \E d \in Ballot :
                    \E last \in 0..Len(leaderLog[d]), commit \in 0..leaderCommit[d],
                       l \in Seq(Entry) : AppendStep(r, d, last, commit, l)
               \/ \E i \in 1..MaxLog : Commit(r, i)
        PROVE  granted' = granted /\ candidateLog' = candidateLog
    BY ZenonT(60), <1>6 DEF Initialize, LeadStep, AppendStep, Commit, ballotVars
  <1> QED BY <1>4, <1>5, <1>6 DEF Step

\* The case that matters: a candidate that was granted its ballot by a quorum
\* has every entry of a lower ballot that may still be committed.
LEMMA CandidateIsSafe ==
    ASSUME IInv, NEW r \in Replica, vote[r] \in Ballot, Owner[vote[r]] = r,
           ~Started(vote[r]), NEW Q \in Majority, Q \subseteq granted[vote[r]],
           NEW b \in Ballot, b < vote[r], NEW k \in Nat, OwnEntry(leaderLog, b, k),
           ~Blocked(vote, matched, b, k)
    PROVE  Same(log[r], leaderLog[b], k)
  <1> DEFINE d == vote[r]
             n == Len(log[r])
             t == log[r][n].ballot
  <1>0. Types /\ Shape /\ GrantedOK /\ SafeOK
    BY Zenon DEF IInv
  <1>1. /\ log[r] \in Seq(Entry) /\ leaderLog[b] \in Seq(Entry) /\ leaderLog \in Logs
        /\ b \in Nat /\ b > 0 /\ d \in Nat /\ n \in Nat
        /\ k \in 1..Len(leaderLog[b]) /\ leaderLog[b][k].ballot = b
    BY <1>0, TypeFacts, BallotNat DEF OwnEntry
  <1>2. PICK q \in Q : matched[b][q] >= k
    <2>1. ASSUME NEW q \in Q PROVE vote[q] > b /\ matched[b][q] \in Nat
      <3>1. q \in Replica
        BY MajorityAssumption
      <3>2. vote[q] >= d
        BY <1>0 DEF Shape, VotesOK
      <3> QED BY <1>0, <1>1, <3>1, <3>2, TypeFacts
    <2> QED BY <2>1 DEF Blocked
  <1>3. q \in Replica /\ q \in granted[d]
    BY MajorityAssumption
  <1>4. AtLeast(candidateLog[d], LogId(b, k))
    BY <1>0, <1>2, <1>3 DEF GrantedOK
  <1>5. candidateLog[d] = get_log_state(log[r])
    BY <1>0, <1>3 DEF Shape, CandidatesOK
  <1>6. log[r] # <<>>
    BY <1>1, <1>4, <1>5 DEF get_log_state, AtLeast, LogId
  <1>7. n \in 1..n /\ n >= 1
    BY SMTT(30), <1>1, <1>6
  <1>8. t > b \/ (t = b /\ n >= k)
    BY <1>4, <1>5, <1>6 DEF get_log_state, AtLeast, LogId
  <1>9. t \in Nat
    BY <1>1, <1>7, EntryBallot
  <1>10. t # 0
    BY <1>1, <1>8, <1>9
  <1>11. t \in Ballot
    BY Zenon, <1>1, <1>7, <1>10, EntryBallot
  <1>12. Same(log[r], leaderLog[t], n)
    BY Zenon, <1>0, <1>1, <1>7, <1>10 DEF Shape, LogsOK, WellFormed
  <1>13. leaderLog[t] \in Seq(Entry) /\ t <= d
    BY ZenonT(60), <1>0, <1>7, <1>11, TypeFacts DEF Shape, LogsOK, Below
  <1>14. Started(t) /\ t # d
    BY <1>7, <1>12, <1>13 DEF Same, Started
  <1> HIDE DEF t
  <1>15. CASE t = b /\ n >= k
    BY <1>1, <1>12, <1>15 DEF Same
  <1>16. CASE t > b
    <2>1. Same(leaderLog[t], leaderLog[b], k)
      BY SMTT(30), <1>0, <1>11, <1>14, <1>16 DEF SafeOK
    <2>2. n >= k
      <3> SUFFICES ASSUME n < k PROVE FALSE
        BY SMTT(30), <1>1
      <3>1. WellFormed(leaderLog[t], leaderLog)
        BY <1>0, <1>11 DEF Shape, LogsOK
      <3>2. k \in 1..Len(leaderLog[t]) /\ n \in 1..k
        BY <1>1, <1>7, <2>1 DEF Same
      <3>3. leaderLog[t][n].ballot <= leaderLog[t][k].ballot
        BY Zenon, <3>1, <3>2 DEF WellFormed
      <3>4. leaderLog[t][n] = log[r][n] /\ leaderLog[t][k] = leaderLog[b][k]
        BY SMTT(30), <1>1, <1>7, <1>12, <2>1, <3>2 DEF Same
      <3>5. leaderLog[t][n].ballot = t /\ leaderLog[t][k].ballot = b
        BY Zenon, <1>1, <3>4 DEF t
      <3> QED BY SMTT(30), <1>1, <1>9, <1>16, <3>3, <3>5
    <2> QED BY SMTT(30), <1>1, <1>12, <2>1, <2>2 DEF Same
  <1> QED BY Zenon, <1>8, <1>15, <1>16

LEMMA SafeStep ==
    ASSUME IInv, Types', Step, Growing
    PROVE  SafeOK'
  <1>0. Types /\ Shape /\ SafeOK /\ VotesOK /\ MatchesOK
    BY Zenon DEF IInv, Shape
  <1> SUFFICES ASSUME NEW b \in Ballot, NEW c \in Ballot, NEW k \in Nat,
                      b < c, leaderLog'[c] # <<>>, OwnEntry(leaderLog', b, k),
                      ~Blocked(vote', matched', b, k)
               PROVE  Same(leaderLog'[c], leaderLog'[b], k)
    BY Zenon DEF SafeOK, Started
  <1>1. /\ leaderLog \in Logs /\ leaderLog' \in Logs
        /\ leaderLog[b] \in Seq(Entry) /\ leaderLog'[b] \in Seq(Entry)
        /\ leaderLog[c] \in Seq(Entry) /\ leaderLog'[c] \in Seq(Entry)
        /\ b \in Nat /\ c \in Nat /\ k \in 1..Len(leaderLog'[b])
    BY Zenon, <1>0, TypeFacts, TypeFactsNext, BallotNat DEF OwnEntry
  <1>2. LogsGrow(leaderLog, leaderLog')
    BY Zenon DEF Growing, Grows
  <1>3. ~Blocked(vote, matched, b, k)
    BY Zenon, <1>0, TypeFacts, TypeFactsNext, BlockedGrows DEF Growing
  <1>a. ASSUME k <= Len(leaderLog[b]), Started(c)
        PROVE  Same(leaderLog'[c], leaderLog'[b], k)
    <2>1. OwnEntry(leaderLog, b, k)
      BY Zenon, <1>1, <1>2, <1>a, OwnEntryGrows
    <2>2. Same(leaderLog[c], leaderLog[b], k)
      BY Zenon, <1>0, <1>3, <1>a, <2>1 DEF SafeOK
    <2>3. k \in Nat
      BY SMTT(30), <1>1
    <2> QED BY Zenon, <1>1, <1>2, <2>2, <2>3, BothGrow
  <1>4. CASE leaderLog' = leaderLog
    BY <1>1, <1>a, <1>4 DEF Started
  <1>5. ASSUME NEW r \in Replica, NEW e \in Entry, LeadStep(r, e)
        PROVE  Same(leaderLog'[c], leaderLog'[b], k)
    <2> DEFINE d == vote[r]
    <2>1. /\ d \in Ballot /\ Owner[d] = r /\ vote' = vote
          /\ \/ Started(d) /\ log[r] = leaderLog[d]
             \/ ~Started(d) /\ \E Q \in Majority : Q \subseteq granted[d]
          /\ matched' = [matched EXCEPT ![d][r] = Len(log[r]) + 1]
      BY Zenon, <1>5 DEF LeadStep
    <2>2. /\ leaderLog'[d] = log'[r] /\ Same(log[r], log'[r], Len(log[r]))
          /\ Len(log'[r]) = Len(log[r]) + 1 /\ log'[r] \in Seq(Entry)
          /\ \A f \in Ballot : f # d => leaderLog'[f] = leaderLog[f]
      BY Zenon, <1>0, <1>5, LeadGrowing
    <2>3. log[r] \in Seq(Entry) /\ Len(log[r]) \in Nat /\ d \in Nat
            /\ leaderLog[d] \in Seq(Entry)
      BY SMTT(30), <1>0, <2>1, TypeFacts
    <2>4. CASE b = d
      <3>1. c # d
        BY SMTT(30), <1>1, <2>4
      <3>2. Started(c)
        BY <2>2, <3>1 DEF Started
      <3>3. CASE k <= Len(leaderLog[b])
        BY <1>a, <3>2, <3>3
      <3>4. CASE k > Len(leaderLog[b])
        <4>1. PICK Q \in Majority : Q \subseteq granted[c]
          BY <1>0, <3>2 DEF VotesOK
        <4>2. ASSUME NEW q \in Q PROVE vote'[q] > b /\ matched'[b][q] < k
          <5>1. q \in Replica /\ vote[q] >= c
            BY <1>0, <4>1, MajorityAssumption DEF VotesOK
          <5>2. vote[q] > b
            BY SMTT(30), <1>0, <1>1, <5>1, TypeFacts
          <5>3. q # r
            BY <1>0, <2>4, <5>1, <5>2, TypeFacts
          <5>4. matched'[b][q] = matched[b][q]
            BY ZenonT(60), <1>0, <2>1, <5>1, <5>3 DEF Types
          <5>5. matched[b][q] <= Len(leaderLog[b]) /\ matched[b][q] \in Nat
            BY Zenon, <1>0, <5>1, TypeFacts DEF MatchesOK
          <5> QED BY SMTT(30), <1>1, <2>1, <3>4, <5>2, <5>4, <5>5
        <4> QED BY <4>2 DEF Blocked
      <3> QED BY <1>1, <3>3, <3>4
    <2>5. CASE b # d
      <3>1. leaderLog'[b] = leaderLog[b]
        BY Zenon, <2>2, <2>5
      <3>2. k <= Len(leaderLog[b]) /\ OwnEntry(leaderLog, b, k)
        BY <1>1, <3>1 DEF OwnEntry
      <3>3. CASE Started(c)
        BY SMTT(30), <1>a, <3>2, <3>3
      <3>4. CASE ~Started(c)
        <4>1. c = d
          BY <2>2, <3>4 DEF Started
        <4>2. PICK Q \in Majority : Q \subseteq granted[d]
          BY <2>1, <3>4, <4>1
        <4>3. Same(log[r], leaderLog[b], k)
          BY ZenonT(60), <1>3, <2>1, <3>2, <3>4, <4>1, <4>2, CandidateIsSafe
        <4>4. Same(log[r], log'[r], Len(log[r])) /\ log'[r] \in Seq(Entry)
          BY Zenon, <2>2
        <4>5. Same(log'[r], leaderLog[b], k)
          BY SMTT(30), <2>3, <4>3, <4>4 DEF Same
        <4> QED BY SMTT(30), <2>2, <3>1, <4>1, <4>5
      <3> QED BY Zenon, <3>3, <3>4
    <2> QED BY <2>4, <2>5
  <1>6. ASSUME NEW r \in Replica,
               \/ Initialize(r) \/ \E d \in Ballot : VoteStep(r, d)
               \/ \E d \in Ballot :
                    \E last \in 0..Len(leaderLog[d]), commit \in 0..leaderCommit[d],
                       l \in Seq(Entry) : AppendStep(r, d, last, commit, l)
               \/ \E i \in 1..MaxLog : Commit(r, i)
        PROVE  leaderLog' = leaderLog
    BY ZenonT(60), <1>6 DEF Initialize, VoteStep, AppendStep, Commit, ballotVars
  <1> QED BY Zenon, <1>4, <1>5, <1>6 DEF Step

\* What was committed up to n, by whichever ballots, is the same.
LEMMA BackedSafe ==
    ASSUME Types, SafeOK, NEW b \in Ballot, Started(b), NEW l \in Seq(Entry),
           NEW n \in Nat, NEW a \in Nat, a <= b,
           Backed(leaderLog, matched, l, n, a)
    PROVE  Same(l, leaderLog[b], n)
  <1>0. leaderLog[b] \in Seq(Entry) /\ b \in Nat
    BY TypeFacts, BallotNat
  <1>1. CASE n = 0
    BY <1>0, <1>1 DEF Same
  <1>2. CASE n # 0
    <2>1. PICK c \in Ballot, i \in Nat :
              /\ c <= a /\ Quorate(leaderLog, matched, c, i)
              /\ n <= i /\ Same(l, leaderLog[c], n)
      BY Zenon, <1>2 DEF Backed
    <2>2. OwnEntry(leaderLog, c, i) /\ ~Blocked(vote, matched, c, i)
      BY Zenon, <2>1, TypeFacts, NotBlocked DEF Quorate
    <2>3. CASE c = b
      BY Zenon, <2>1, <2>3
    <2>4. CASE c # b
      <3>1. c < b
        BY <1>0, <2>1, <2>4, BallotNat
      <3>2. Same(leaderLog[b], leaderLog[c], i)
        BY <2>2, <3>1 DEF SafeOK
      <3> QED BY <1>0, <2>1, <3>2 DEF Same
    <2> QED BY <2>3, <2>4
  <1> QED BY Zenon, <1>1, <1>2

LEMMA CommitStep ==
    ASSUME IInv, Types', Step, Growing
    PROVE  CommitOK'
  <1>0. Types /\ Shape /\ SafeOK /\ CommitOK
    BY DEF IInv
  <1>1. /\ vote \in VoteMap /\ vote' \in VoteMap
        /\ leaderLog \in Logs /\ leaderLog' \in Logs
        /\ matched \in MatchMap /\ matched' \in MatchMap
        /\ Grows(vote, vote', leaderLog, leaderLog', matched, matched')
    BY <1>0, TypeFacts, TypeFactsNext DEF Growing
  <1>2. chosen \in Seq(Entry) /\ chosen' \in Seq(Entry)
    BY SMTT(30), <1>0 DEF Types
  <1> DEFINE ReplicaOK(s) ==
        /\ Backed(leaderLog', matched', log'[s], committed'[s], vote'[s])
        /\ committed'[s] <= Len(chosen')
      BallotOK(c) ==
        /\ Backed(leaderLog', matched', leaderLog'[c], leaderCommit'[c], c)
        /\ leaderCommit'[c] <= Len(chosen')
      ChosenOK ==
        chosen' = <<>> \/ \E c \in Ballot :
            /\ Quorate(leaderLog', matched', c, Len(chosen'))
            /\ leaderCommit'[c] >= Len(chosen')
            /\ Same(chosen', leaderLog'[c], Len(chosen'))
  <1>a. ASSUME NEW s \in Replica, committed'[s] = committed[s], chosen' = chosen,
               Same(log[s], log'[s], committed[s])
        PROVE  ReplicaOK(s)
    <2>1. /\ log[s] \in Seq(Entry) /\ log'[s] \in Seq(Entry) /\ committed[s] \in Nat
          /\ vote[s] \in Nat /\ vote'[s] \in Nat /\ vote[s] <= vote'[s]
      BY Zenon, <1>0, <1>1, TypeFacts, TypeFactsNext DEF Grows
    <2>2. /\ Backed(leaderLog, matched, log[s], committed[s], vote[s])
          /\ committed[s] <= Len(chosen)
      BY Zenon, <1>0 DEF CommitOK
    <2>3. Backed(leaderLog', matched', log'[s], committed[s], vote'[s])
      BY ZenonT(60), <1>1, <1>a, <2>1, <2>2, BackedGrows
    <2> QED BY <1>a, <2>2, <2>3
  <1>b. ASSUME NEW c \in Ballot, leaderCommit'[c] = leaderCommit[c], chosen' = chosen
        PROVE  BallotOK(c)
    <2>1. /\ leaderLog[c] \in Seq(Entry) /\ leaderLog'[c] \in Seq(Entry)
          /\ leaderCommit[c] \in Nat /\ c \in Nat
      BY Zenon, <1>0, TypeFacts, TypeFactsNext, BallotNat
    <2>2. /\ Backed(leaderLog, matched, leaderLog[c], leaderCommit[c], c)
          /\ leaderCommit[c] <= Len(chosen)
      BY ZenonT(60), <1>0 DEF CommitOK
    <2>3. leaderCommit[c] <= Len(leaderLog[c])
      BY <2>1, <2>2 DEF Backed, Same
    <2>4. Same(leaderLog[c], leaderLog'[c], leaderCommit[c])
      <3>1. Same(leaderLog[c], leaderLog'[c], Len(leaderLog[c]))
        BY Zenon, <1>1 DEF Grows, LogsGrow
      <3>2. Len(leaderLog[c]) \in Nat
        BY <2>1
      <3> QED BY Zenon, <2>1, <2>3, <3>1, <3>2, SamePart
    <2>5. Backed(leaderLog', matched', leaderLog'[c], leaderCommit[c], c)
      BY SMTT(30), <1>1, <2>1, <2>2, <2>4, BackedGrows
    <2> QED BY Zenon, <1>b, <2>2, <2>5
  <1>c. ASSUME chosen' = chosen PROVE ChosenOK
    <2>1. CASE chosen = <<>>
      BY <1>c, <2>1
    <2>2. CASE chosen # <<>>
      <3>1. PICK c \in Ballot :
                /\ Quorate(leaderLog, matched, c, Len(chosen))
                /\ leaderCommit[c] >= Len(chosen)
                /\ Same(chosen, leaderLog[c], Len(chosen))
        BY <1>0, <2>2 DEF CommitOK
      <3>2. Len(chosen) \in Nat
        BY <1>2
      <3>3. Quorate(leaderLog', matched', c, Len(chosen))
        BY Zenon, <1>1, <3>1, <3>2, QuorateGrows
      <3>4. Same(chosen, leaderLog'[c], Len(chosen))
        BY Zenon, <1>1, <1>2, <3>1, <3>2, SameGrows DEF Grows
      <3>5. leaderCommit'[c] >= leaderCommit[c] /\ leaderCommit[c] \in Nat
               /\ leaderCommit'[c] \in Nat
        BY Zenon, <1>0, TypeFacts, TypeFactsNext DEF Growing
      <3>6. leaderCommit'[c] >= Len(chosen)
        BY SMTT(30), <3>1, <3>2, <3>5
      <3> QED BY SMTT(30), <1>c, <3>3, <3>4, <3>6
    <2> QED BY <2>1, <2>2
  <1>d. \A s \in Replica : /\ log[s] \in Seq(Entry) /\ committed[s] \in Nat
                           /\ committed[s] <= Len(log[s])
    <2> SUFFICES ASSUME NEW s \in Replica PROVE committed[s] <= Len(log[s])
      BY Zenon, <1>0, TypeFacts
    <2>1. Backed(leaderLog, matched, log[s], committed[s], vote[s])
      BY Zenon, <1>0 DEF CommitOK
    <2> QED BY <1>0, <2>1, TypeFacts DEF Backed, Same
  <1> SUFFICES /\ \A s \in Replica : ReplicaOK(s)
               /\ \A c \in Ballot : BallotOK(c)
               /\ ChosenOK
    BY Zenon DEF CommitOK
  <1> HIDE DEF ReplicaOK, BallotOK, ChosenOK
  <1> DEFINE Goal == /\ \A s \in Replica : ReplicaOK(s)
                     /\ \A c \in Ballot : BallotOK(c)
                     /\ ChosenOK
  <1>3. ASSUME NEW r \in Replica, Initialize(r) PROVE Goal
    <2>1. /\ log[r] = <<>> /\ leaderCommit' = leaderCommit /\ committed' = committed
          /\ chosen' = chosen
          /\ log' = [log EXCEPT ![r] =
                         append(log[r], <<[ballot |-> 0, payload |-> "Membership"]>>)]
      BY Zenon, <1>3 DEF Initialize, ballotVars
    <2>2. ASSUME NEW s \in Replica PROVE Same(log[s], log'[s], committed[s])
      <3>1. CASE s = r
        <4>1. committed[s] = 0
          BY <1>d, <2>1, <3>1
        <4>2. log'[s] \in Seq(Entry)
          BY TypeFactsNext
        <4> QED BY <1>d, <4>1, <4>2 DEF Same
      <3>2. CASE s # r
        <4>1. log'[s] = log[s]
          BY <1>0, <2>1, <3>2 DEF Types
        <4> QED BY <1>d, <4>1 DEF Same
      <3> QED BY Zenon, <3>1, <3>2
    <2> QED BY Zenon, <1>a, <1>b, <1>c, <2>1, <2>2
  <1>4. ASSUME NEW r \in Replica, NEW b \in Ballot, VoteStep(r, b) PROVE Goal
    <2>1. /\ log' = log /\ leaderCommit' = leaderCommit /\ committed' = committed
          /\ chosen' = chosen
      BY <1>4 DEF VoteStep
    <2>2. \A s \in Replica : Same(log[s], log'[s], committed[s])
      BY <1>d, <2>1 DEF Same
    <2> QED BY SMTT(30), <1>a, <1>b, <1>c, <2>1, <2>2
  <1>5. ASSUME NEW r \in Replica, NEW e \in Entry, LeadStep(r, e) PROVE Goal
    <2>1. /\ log' = [log EXCEPT ![r] = append(log[r], <<e>>)] /\ vote' = vote
          /\ committed' = committed /\ chosen' = chosen /\ vote[r] \in Ballot
          /\ leaderCommit' = [leaderCommit EXCEPT ![vote[r]] = committed[r]]
      BY Zenon, <1>5 DEF LeadStep
    <2>2. Same(log[r], log'[r], Len(log[r])) /\ leaderLog'[vote[r]] = log'[r]
      BY Zenon, <1>0, <1>5, LeadGrowing
    <2>3. ASSUME NEW s \in Replica PROVE Same(log[s], log'[s], committed[s])
      <3>1. s # r => log'[s] = log[s]
        BY ZenonT(60), <1>0, <2>1 DEF Types
      <3> QED BY SMTT(30), <1>d, <2>2, <3>1 DEF Same
    <2>4. \A s \in Replica : ReplicaOK(s)
      BY <1>a, <2>1, <2>3
    <2>5. ASSUME NEW c \in Ballot PROVE BallotOK(c)
      <3>1. CASE c = vote[r]
        <4>1. leaderCommit'[c] = committed[r]
          BY ZenonT(60), <1>0, <2>1, <3>1 DEF Types
        <4> QED BY Zenon, <2>1, <2>2, <2>4, <3>1, <4>1 DEF ReplicaOK, BallotOK
      <3>2. CASE c # vote[r]
        <4>1. leaderCommit'[c] = leaderCommit[c]
          BY SMTT(30), <1>0, <2>1, <3>2 DEF Types
        <4> QED BY SMTT(30), <1>b, <2>1, <4>1
      <3> QED BY Zenon, <3>1, <3>2
    <2> QED BY <1>c, <2>1, <2>4, <2>5
  <1>6. ASSUME NEW r \in Replica, NEW b \in Ballot, NEW last \in 0..Len(leaderLog[b]),
               NEW commit \in 0..leaderCommit[b], NEW l \in Seq(Entry),
               AppendStep(r, b, last, commit, l)
        PROVE  Goal
    <2> DEFINE n == KnownCommitted(commit, last)
    <2>1. /\ log' = [log EXCEPT ![r] = l] /\ Started(b) /\ b >= vote[r]
          /\ Same(l, leaderLog[b], last)
          /\ l = log[r] \/ (Len(l) = last /\ ~Same(log[r], leaderLog[b], last))
          /\ vote' = [vote EXCEPT ![r] = b]
          /\ committed' = [committed EXCEPT ![r] = Larger(committed[r], n)]
          /\ leaderCommit' = leaderCommit /\ chosen' = chosen
      BY SMTT(30), <1>6 DEF AppendStep
    <2>2. /\ log'[r] = l /\ vote'[r] = b /\ committed'[r] = Larger(committed[r], n)
          /\ b \in Nat /\ vote[r] \in Nat /\ last \in Nat /\ leaderCommit[b] \in Nat
          /\ leaderLog[b] \in Seq(Entry)
      BY SMTT(30), <1>0, <2>1, TypeFacts, BallotNat DEF Types
    <2>3. n \in Nat /\ n <= last /\ n <= leaderCommit[b]
      BY <2>2 DEF KnownCommitted
    <2> HIDE DEF n
    <2>4. Same(log[r], leaderLog[b], committed[r])
      <3>1. Backed(leaderLog, matched, log[r], committed[r], vote[r])
        BY Zenon, <1>0 DEF CommitOK
      <3> QED BY Zenon, <1>0, <1>d, <2>1, <2>2, <3>1, BackedSafe
    <2>5. Same(log[r], l, committed[r])
      <3>1. CASE l = log[r]
        BY ZenonT(60), <1>d, <3>1 DEF Same
      <3>2. CASE Len(l) = last /\ ~Same(log[r], leaderLog[b], last)
        <4>1. last >= committed[r]
          BY <1>d, <2>2, <2>4, <3>2 DEF Same
        <4> QED BY SMTT(30), <1>d, <2>1, <2>2, <2>4, <4>1 DEF Same
      <3> QED BY Zenon, <2>1, <3>1, <3>2
    <2>6. CASE committed'[r] = committed[r]
      <3>1. ReplicaOK(r)
        BY Zenon, <1>a, <2>1, <2>2, <2>5, <2>6
      <3>2. ASSUME NEW s \in Replica, s # r PROVE ReplicaOK(s)
        <4>1. log'[s] = log[s] /\ committed'[s] = committed[s]
          BY ZenonT(60), <1>0, <2>1, <3>2 DEF Types
        <4> QED BY Zenon, <1>a, <1>d, <2>1, <4>1 DEF Same
      <3> QED BY Zenon, <1>b, <1>c, <2>1, <3>1, <3>2
    <2>7. CASE committed'[r] = n
      <3>1. Backed(leaderLog, matched, leaderLog[b], leaderCommit[b], b)
               /\ leaderCommit[b] <= Len(chosen)
        BY Zenon, <1>0 DEF CommitOK
      <3>2. Backed(leaderLog, matched, l, n, b)
        <4>1. CASE n = 0
          BY Zenon, <4>1 DEF Backed
        <4>2. CASE n # 0
          <5>1. PICK c \in Ballot, i \in Nat :
                   /\ c <= b /\ Quorate(leaderLog, matched, c, i)
                   /\ leaderCommit[b] <= i
                   /\ Same(leaderLog[b], leaderLog[c], leaderCommit[b])
            BY SMTT(30), <2>2, <2>3, <3>1, <4>2 DEF Backed
          <5>2. n <= i /\ Same(l, leaderLog[c], n)
            BY SMTT(30), <2>1, <2>2, <2>3, <5>1 DEF Same
          <5> QED BY ZenonT(60), <5>1, <5>2 DEF Backed
        <4> QED BY Zenon, <4>1, <4>2
      <3>3. Same(l, l, n)
        BY <2>1, <2>2, <2>3 DEF Same
      <3>4. Backed(leaderLog', matched', l, n, b)
        BY SMTT(30), <1>1, <2>2, <2>3, <3>2, <3>3, BackedGrows
      <3>5. n <= Len(chosen')
        BY <1>2, <2>1, <2>2, <2>3, <3>1
      <3>6. ReplicaOK(r)
        BY ZenonT(60), <2>2, <2>7, <3>4, <3>5 DEF ReplicaOK
      <3>7. ASSUME NEW s \in Replica, s # r PROVE ReplicaOK(s)
        <4>1. log'[s] = log[s] /\ committed'[s] = committed[s]
          BY <1>0, <2>1, <3>7 DEF Types
        <4> QED BY Zenon, <1>a, <1>d, <2>1, <4>1 DEF Same
      <3> QED BY Zenon, <1>b, <1>c, <2>1, <3>6, <3>7
    <2> QED BY ZenonT(60), <2>2, <2>6, <2>7 DEF Larger
  <1>7. ASSUME NEW r \in Replica, NEW i \in 1..MaxLog, Commit(r, i) PROVE Goal
    <2> DEFINE b == vote[r]
    <2>1. /\ UNCHANGED <<vote, log, leaderLog, matched>>
          /\ committed' = [committed EXCEPT ![r] = i]
          /\ leaderCommit' = [leaderCommit EXCEPT ![b] = i]
          /\ chosen' = IF i > Len(chosen) THEN SubSeq(log[r], 1, i) ELSE chosen
      BY Zenon, <1>7 DEF Commit, save_committed
    <2>2. /\ b \in Ballot /\ log[r] = leaderLog[b] /\ i > committed[r]
          /\ Quorate(leaderLog, matched, b, i) /\ committed[r] = leaderCommit[b]
      BY ZenonT(60), <1>0, <1>7, CommitForm
    <2>3. /\ i \in Nat /\ b \in Nat /\ i \in 1..Len(log[r])
          /\ leaderLog[b] \in Seq(Entry)
      BY SMTT(30), <1>0, <2>2, TypeFacts, BallotNat DEF Quorate, OwnEntry
    <2>4. Same(log[r], leaderLog[b], i)
      BY SMTT(30), <2>2, <2>3 DEF Same
    <2>5. Backed(leaderLog', matched', log'[r], i, b)
      BY <2>1, <2>2, <2>3, <2>4 DEF Backed
    <2>6. Len(chosen') >= i /\ Len(chosen') >= Len(chosen)
      <3>1. CASE i > Len(chosen)
        BY SMTT(30), <1>2, <1>d, <2>1, <2>3, <3>1
      <3>2. CASE ~(i > Len(chosen))
        BY <1>2, <2>1, <2>3, <3>2
      <3> QED BY ZenonT(60), <3>1, <3>2
    <2>7. ASSUME NEW s \in Replica PROVE ReplicaOK(s)
      <3>1. committed'[s] = IF s = r THEN i ELSE committed[s]
        BY SMTT(30), <1>0, <2>1 DEF Types
      <3>2. CASE s = r
        BY <2>1, <2>5, <2>6, <3>1, <3>2 DEF ReplicaOK
      <3>3. CASE s # r
        <4>1. /\ Backed(leaderLog, matched, log[s], committed[s], vote[s])
              /\ committed[s] <= Len(chosen)
          BY Zenon, <1>0 DEF CommitOK
        <4>2. committed[s] <= Len(chosen')
          BY <1>2, <1>d, <2>6, <4>1
        <4> QED BY Zenon, <2>1, <3>1, <3>3, <4>1, <4>2 DEF ReplicaOK
      <3> QED BY SMTT(30), <3>2, <3>3
    <2>8. ASSUME NEW c \in Ballot PROVE BallotOK(c)
      <3>1. leaderCommit'[c] = IF c = b THEN i ELSE leaderCommit[c]
        BY Zenon, <1>0, <2>1 DEF Types
      <3>2. CASE c = b
        BY Zenon, <2>1, <2>2, <2>5, <2>6, <3>1, <3>2 DEF BallotOK
      <3>3. CASE c # b
        <4>1. /\ Backed(leaderLog, matched, leaderLog[c], leaderCommit[c], c)
              /\ leaderCommit[c] <= Len(chosen) /\ leaderCommit[c] \in Nat
          BY ZenonT(60), <1>0, TypeFacts DEF CommitOK
        <4>2. leaderCommit[c] <= Len(chosen')
          BY <1>2, <2>6, <4>1
        <4> QED BY Zenon, <2>1, <3>1, <3>3, <4>1, <4>2 DEF BallotOK
      <3> QED BY Zenon, <3>2, <3>3
    <2>9. ChosenOK
      <3>1. CASE i > Len(chosen)
        <4>1. chosen' = SubSeq(log[r], 1, i)
          BY Zenon, <2>1, <3>1
        <4>2. Len(chosen') = i /\ \A j \in 1..i : chosen'[j] = log[r][j]
          BY SMTT(30), <1>d, <2>3, <4>1
        <4>3. Same(chosen', leaderLog'[b], i)
          BY <1>2, <2>1, <2>2, <2>3, <4>2 DEF Same
        <4>4. leaderCommit'[b] = i
          BY Zenon, <1>0, <2>1, <2>2 DEF Types
        <4>5. Quorate(leaderLog', matched', b, Len(chosen'))
          BY Zenon, <2>1, <2>2, <4>2
        <4>6. leaderCommit'[b] >= Len(chosen')
          BY <2>3, <4>2, <4>4
        <4> QED BY ZenonT(60), <2>2, <4>2, <4>3, <4>5, <4>6 DEF ChosenOK
      <3>2. CASE ~(i > Len(chosen))
        BY <1>c, <2>1, <3>2
      <3> QED BY Zenon, <3>1, <3>2
    <2> QED BY Zenon, <2>7, <2>8, <2>9
  <1> QED BY <1>3, <1>4, <1>5, <1>6, <1>7 DEF Step

-----------------------------------------------------------------------------
(* The theorems *)

LEMMA InitIInv ==
    ASSUME Init
    PROVE  IInv
  <1>1. Types
    <2>1. LogId(0, 0) \in [ballot : 0..MaxBallot, index : Nat]
      BY BoundAssumption DEF LogId
    <2> QED BY <2>1, BoundAssumption DEF Init, Types
  <1>2. /\ \A b \in Ballot : /\ leaderLog[b] = <<>> /\ granted[b] = {}
                             /\ leaderCommit[b] = 0
                             /\ \A r \in Replica : matched[b][r] = 0
        /\ \A r \in Replica : log[r] = <<>> /\ committed[r] = 0 /\ ~leader[r]
        /\ chosen = <<>>
    BY ZenonT(60) DEF Init
  <1>3. LogsOK
    BY SMTT(30), <1>2, BoundAssumption DEF LogsOK, WellFormed, Below, OwnLast
  <1>4. VotesOK /\ MatchesOK /\ CandidatesOK /\ LeadersOK
    <2>1. VotesOK
      BY ZenonT(60), <1>2 DEF VotesOK, Started
    <2>2. MatchesOK
      BY SMTT(30), <1>2 DEF MatchesOK
    <2>3. CandidatesOK
      BY Zenon, <1>2 DEF CandidatesOK, Started
    <2>4. LeadersOK
      BY Zenon, <1>2 DEF LeadersOK
    <2> QED BY <2>1, <2>2, <2>3, <2>4
  <1>5. AcceptedOK /\ GrantedOK /\ SafeOK
    <2>1. \A b \in Ballot, i \in Nat : ~OwnEntry(leaderLog, b, i)
      BY SMTT(30), <1>2 DEF OwnEntry
    <2> QED BY ZenonT(60), <2>1 DEF AcceptedOK, GrantedOK, SafeOK
  <1>6. CommitOK
    BY <1>2 DEF CommitOK, Backed
  <1> QED BY <1>1, <1>3, <1>4, <1>5, <1>6 DEF IInv, Shape

LEMMA NextIInv ==
    ASSUME IInv, [Next]_vars
    PROVE  IInv'
  <1>1. CASE Next
    <2>1. Types' /\ Step /\ Growing
      BY <1>1, TypesStep, NextIsStep DEF IInv
    <2>2. Shape'
      BY <2>1, LogsStep, VotesStep, MatchesStep, CandidatesStep, LeadersStep
         DEF Shape
    <2> QED BY Zenon, <2>1, <2>2, AcceptedStep, GrantedStep, SafeStep, CommitStep DEF IInv
  <1>2. CASE UNCHANGED vars
    <2>1. /\ vote' = vote /\ log' = log /\ committed' = committed
          /\ leader' = leader /\ candidateLog' = candidateLog
          /\ granted' = granted /\ leaderLog' = leaderLog
          /\ leaderCommit' = leaderCommit /\ matched' = matched /\ chosen' = chosen
      BY Zenon, <1>2 DEF vars, replicaVars, ballotVars
    <2>2. Types'
      BY Zenon, <2>1 DEF IInv, Types
    <2>3. Shape'
      BY Zenon, <2>1 DEF IInv, Shape, LogsOK, VotesOK, MatchesOK, CandidatesOK, LeadersOK,
                  Started
    <2>4. AcceptedOK' /\ GrantedOK' /\ SafeOK' /\ CommitOK'
      BY Zenon, <2>1 DEF IInv, AcceptedOK, GrantedOK, SafeOK, CommitOK, Started
    <2> QED BY <2>2, <2>3, <2>4 DEF IInv
  <1> QED BY Zenon, <1>1, <1>2

THEOREM Invariance == Spec => []IInv
  BY InitIInv, NextIInv, PTL DEF Spec

LEMMA IInvTypeOK ==
    ASSUME IInv
    PROVE  TypeOK
  <1>0. Types /\ Shape /\ CommitOK
    BY DEF IInv
  <1>1. \A r \in Replica : committed[r] \in 0..Len(log[r])
    <2> SUFFICES ASSUME NEW r \in Replica PROVE committed[r] \in 0..Len(log[r])
      BY Zenon
    <2>1. Backed(leaderLog, matched, log[r], committed[r], vote[r])
      BY ZenonT(60), <1>0 DEF CommitOK
    <2> QED BY <1>0, <2>1, TypeFacts DEF Backed, Same
  <1>2. \A b \in Ballot : leaderCommit[b] \in 0..Len(leaderLog[b])
    <2> SUFFICES ASSUME NEW b \in Ballot
                 PROVE  leaderCommit[b] \in 0..Len(leaderLog[b])
      BY Zenon
    <2>1. Backed(leaderLog, matched, leaderLog[b], leaderCommit[b], b)
      BY Zenon, <1>0 DEF CommitOK
    <2> QED BY <1>0, <2>1, TypeFacts DEF Backed, Same
  <1>3. matched \in [Ballot -> [Replica -> 0..MaxLog]]
    <2>1. ASSUME NEW b \in Ballot, NEW r \in Replica PROVE matched[b][r] \in 0..MaxLog
      <3>1. matched[b][r] <= Len(leaderLog[b]) /\ Len(leaderLog[b]) <= MaxLog
        BY SMTT(30), <1>0 DEF Shape, MatchesOK, LogsOK
      <3>2. matched[b][r] \in Nat /\ leaderLog[b] \in Seq(Entry)
        BY <1>0, TypeFacts
      <3> QED BY SMTT(30), <3>1, <3>2, BoundAssumption
    <2>2. matched \in [Ballot -> [Replica -> Nat]]
      BY <1>0 DEF Types
    <2> QED BY Zenon, <2>1, <2>2
  <1> QED BY Zenon, <1>0, <1>1, <1>2, <1>3 DEF TypeOK, Types

\* TypeOK holds in every reachable state: committed indexes stay within the
\* logs they belong to, and no replica confirms more than the leader has.
THEOREM TypesHold == Spec => []TypeOK
  BY Invariance, IInvTypeOK, PTL

\* LogMatching holds in every reachable state: whatever calls were lost, late
\* or repeated, two logs with the same entry agree on all that precedes it.
THEOREM LogsMatch == Spec => []LogMatching
  <1>1. ASSUME IInv PROVE LogMatching
    <2> SUFFICES ASSUME NEW r \in Replica, NEW s \in Replica, NEW i \in 1..Len(log[r]),
                        i <= Len(log[s]), log[r][i].ballot = log[s][i].ballot
                 PROVE  \A j \in 1..i : log[r][j] = log[s][j]
      BY SMTT(30) DEF LogMatching
    <2>1. WellFormed(log[r], leaderLog) /\ WellFormed(log[s], leaderLog)
      BY <1>1 DEF IInv, Shape, LogsOK
    <2>2. log[r] \in Seq(Entry) /\ log[s] \in Seq(Entry) /\ leaderLog \in Logs
      BY SMTT(30), <1>1, TypeFacts DEF IInv
    <2>3. Same(log[r], log[s], i)
      BY <2>1, <2>2, WellFormedMatch
    <2> QED BY <2>3 DEF Same
  <1> QED BY <1>1, Invariance, PTL

LEMMA LeaderHasAll ==
    ASSUME IInv
    PROVE  CommittedNeverLost
  <1> SUFFICES ASSUME NEW r \in Replica, Leads(r)
               PROVE  Agreed!Prefix(chosen, log[r])
    BY Zenon DEF CommittedNeverLost
  <1>0. Types /\ Shape /\ SafeOK /\ CommitOK /\ chosen \in Seq(Entry)
    BY Zenon DEF IInv, Types
  <1>1. vote[r] \in Ballot /\ log[r] = leaderLog[vote[r]] /\ Started(vote[r])
    BY Zenon, <1>0 DEF Leads, Shape, LeadersOK
  <1>2. Same(chosen, leaderLog[vote[r]], Len(chosen))
    <2>1. CASE chosen = <<>>
      BY <1>0, <1>1, <2>1, TypeFacts DEF Same
    <2>2. CASE chosen # <<>>
      <3>1. PICK c \in Ballot : /\ Quorate(leaderLog, matched, c, Len(chosen))
                                /\ Same(chosen, leaderLog[c], Len(chosen))
        BY Zenon, <1>0, <2>2 DEF CommitOK
      <3>2. Started(c)
        BY <3>1, TypeFacts DEF Quorate, OwnEntry, Started
      <3>3. c <= vote[r]
        BY Zenon, <3>2 DEF Leads, Started
      <3>4. Backed(leaderLog, matched, chosen, Len(chosen), vote[r])
        BY SMTT(30), <1>0, <3>1, <3>3 DEF Backed
      <3>5. vote[r] \in Nat /\ vote[r] <= vote[r] /\ Len(chosen) \in Nat
        BY <1>0, <1>1, BallotNat
      <3> QED BY Zenon, <1>0, <1>1, <3>4, <3>5, BackedSafe
    <2> QED BY Zenon, <2>1, <2>2
  <1> QED BY Zenon, <1>1, <1>2 DEF Agreed!Prefix, Same

\* CommittedNeverLost holds in every reachable state: the leader of the highest
\* ballot has every entry that was ever committed, as long as LogStore keeps
\* what it was given.
THEOREM NothingCommittedIsLost == Spec => []CommittedNeverLost
  BY Invariance, LeaderHasAll, PTL

\* Two prefixes that were committed agree, whichever ballots committed them.
LEMMA BackedAgree ==
    ASSUME Types, SafeOK,
           NEW l \in Seq(Entry), NEW m \in Seq(Entry), NEW n \in Nat, NEW k \in Nat,
           n <= k, NEW a \in Nat, NEW b \in Nat,
           Backed(leaderLog, matched, l, n, a), Backed(leaderLog, matched, m, k, b)
    PROVE  Same(l, m, n)
  <1>1. CASE n = 0
    BY SMTT(30), <1>1 DEF Same
  <1>2. CASE n # 0
    <2>1. PICK c \in Ballot, i \in Nat :
              /\ Quorate(leaderLog, matched, c, i) /\ n <= i
              /\ Same(l, leaderLog[c], n)
      BY Zenon, <1>2 DEF Backed
    <2>2. PICK d \in Ballot, j \in Nat :
              /\ Quorate(leaderLog, matched, d, j) /\ k <= j
              /\ Same(m, leaderLog[d], k)
      BY <1>2 DEF Backed
    <2>3. /\ OwnEntry(leaderLog, c, i) /\ OwnEntry(leaderLog, d, j)
          /\ ~Blocked(vote, matched, c, i) /\ ~Blocked(vote, matched, d, j)
      BY Zenon, <2>1, <2>2, TypeFacts, NotBlocked DEF Quorate
    <2>4. /\ leaderLog[c] \in Seq(Entry) /\ leaderLog[d] \in Seq(Entry)
          /\ c \in Nat /\ d \in Nat
      BY ZenonT(60), TypeFacts, BallotNat
    <2>5. Started(c) /\ Started(d)
      BY SMTT(30), <2>3, <2>4 DEF OwnEntry, Started
    <2>6. Same(leaderLog[c], leaderLog[d], n)
      <3>1. CASE c = d
        BY ZenonT(60), <2>1, <2>4, <3>1 DEF Same
      <3>2. CASE c < d
        <4>1. Same(leaderLog[d], leaderLog[c], i)
          BY Zenon, <2>3, <2>5, <3>2 DEF SafeOK
        <4> QED BY SMTT(30), <2>1, <2>4, <4>1 DEF Same
      <3>3. CASE d < c
        <4>1. Same(leaderLog[c], leaderLog[d], j)
          BY Zenon, <2>3, <2>5, <3>3 DEF SafeOK
        <4> QED BY SMTT(30), <2>2, <2>4, <4>1 DEF Same
      <3> QED BY <2>4, <3>1, <3>2, <3>3
    <2> QED BY SMTT(30), <2>1, <2>2, <2>4, <2>6 DEF Same
  <1> QED BY Zenon, <1>1, <1>2

\* Everything committed is a prefix of chosen.
LEMMA KnownIsChosen ==
    ASSUME IInv, NEW l \in Seq(Entry), NEW n \in Nat, n <= Len(chosen),
           NEW a \in Nat, Backed(leaderLog, matched, l, n, a)
    PROVE  Same(l, chosen, n)
  <1>0. Types /\ SafeOK /\ CommitOK /\ chosen \in Seq(Entry) /\ Len(chosen) \in Nat
    BY DEF IInv, Types
  <1>1. CASE chosen = <<>>
    BY <1>0, <1>1 DEF Same
  <1>2. CASE chosen # <<>>
    <2>1. PICK c \in Ballot : /\ Quorate(leaderLog, matched, c, Len(chosen))
                              /\ Same(chosen, leaderLog[c], Len(chosen))
      BY Zenon, <1>0, <1>2 DEF CommitOK
    <2>2. c \in Nat /\ c <= c
      BY BallotNat
    <2>3. Backed(leaderLog, matched, chosen, Len(chosen), c)
      BY <1>0, <2>1, <2>2 DEF Backed
    <2> QED BY Zenon, <1>0, <2>2, <2>3, BackedAgree
  <1> QED BY <1>1, <1>2

LEMMA KnownNow ==
    ASSUME IInv, NEW r \in Replica
    PROVE  /\ Same(log[r], chosen, committed[r]) /\ log[r] \in Seq(Entry)
           /\ committed[r] \in Nat /\ committed[r] <= Len(chosen)
  <1>1. /\ Backed(leaderLog, matched, log[r], committed[r], vote[r])
        /\ committed[r] <= Len(chosen)
    BY Zenon DEF IInv, CommitOK
  <1>2. log[r] \in Seq(Entry) /\ committed[r] \in Nat /\ vote[r] \in Nat
    BY Zenon, TypeFacts DEF IInv
  <1> QED BY Zenon, <1>1, <1>2, KnownIsChosen

KnownOK ==
    /\ chosen \in Seq(Entry)
    /\ \A r \in Replica :
        /\ log[r] \in Seq(Entry) /\ committed[r] \in Nat
        /\ Same(log[r], chosen, committed[r])

LEMMA ChosenGrows ==
    ASSUME IInv, Next
    PROVE  Agreed!Prefix(chosen, chosen')
  <1>0. Types /\ Shape /\ SafeOK /\ CommitOK /\ chosen \in Seq(Entry)
    BY DEF IInv, Types
  <1>1. CASE chosen' = chosen
    BY <1>0, <1>1 DEF Agreed!Prefix
  <1>2. ASSUME NEW r \in Replica, NEW i \in 1..MaxLog, Commit(r, i), chosen' # chosen
        PROVE  Agreed!Prefix(chosen, chosen')
    <2>1. chosen' = SubSeq(log[r], 1, i) /\ i > Len(chosen)
      BY SMTT(30), <1>2 DEF Commit
    <2>2. /\ vote[r] \in Ballot /\ log[r] = leaderLog[vote[r]]
          /\ Quorate(leaderLog, matched, vote[r], i)
      BY SMTT(30), <1>0, <1>2, CommitForm
    <2>3. /\ i \in Nat /\ vote[r] \in Nat /\ vote[r] <= vote[r] /\ i <= i
          /\ log[r] \in Seq(Entry) /\ i \in 1..Len(log[r]) /\ Len(chosen) \in Nat
      BY SMTT(30), <1>0, <2>2, TypeFacts, BallotNat DEF Quorate, OwnEntry
    <2>4. Same(log[r], leaderLog[vote[r]], i)
      BY <2>2, <2>3 DEF Same
    <2>5. Backed(leaderLog, matched, log[r], i, vote[r])
      BY Zenon, <2>2, <2>3, <2>4 DEF Backed
    <2>6. PICK a \in Nat : Backed(leaderLog, matched, chosen, Len(chosen), a)
      <3>1. CASE chosen = <<>>
        BY Zenon, <3>1 DEF Backed
      <3>2. CASE chosen # <<>>
        <4>1. PICK c \in Ballot : /\ Quorate(leaderLog, matched, c, Len(chosen))
                                  /\ Same(chosen, leaderLog[c], Len(chosen))
          BY Zenon, <1>0, <3>2 DEF CommitOK
        <4>2. c \in Nat /\ c <= c
          BY SMTT(30), BallotNat
        <4>3. Backed(leaderLog, matched, chosen, Len(chosen), c)
          BY SMTT(30), <2>3, <4>1, <4>2 DEF Backed
        <4> QED BY Zenon, <4>2, <4>3
      <3> QED BY Zenon, <3>1, <3>2
    <2>7. Same(chosen, log[r], Len(chosen))
      BY SMTT(30), <1>0, <2>1, <2>3, <2>5, <2>6, BackedAgree
    <2>8. Len(chosen') = i /\ \A j \in 1..i : chosen'[j] = log[r][j]
      BY <2>1, <2>3
    <2> QED BY SMTT(30), <2>1, <2>3, <2>7, <2>8 DEF Same, Agreed!Prefix
  <1>3. ASSUME NEW r \in Replica,
               \/ Initialize(r) \/ BecomeLeader(r)
               \/ \E b \in Ballot : Campaign(r, b) \/ GrantVote(r, b)
               \/ \E v \in Value : ClientWrite(r, v)
        PROVE  chosen' = chosen
    BY Zenon, <1>3 DEF Initialize, BecomeLeader, Campaign, GrantVote, ClientWrite
  <1>4. ASSUME NEW r \in Replica, NEW b, NEW prev, NEW last, NEW commit,
               AppendEntries(r, b, prev, last, commit)
        PROVE  chosen' = chosen
    BY Zenon, <1>4 DEF AppendEntries
  <1> QED BY ZenonT(60), <1>1, <1>2, <1>3, <1>4 DEF Next, Replicate

LEMMA CommittedGrows ==
    ASSUME IInv, Next, NEW s \in Replica
    PROVE  committed'[s] >= committed[s]
  <1>0. Types /\ Shape /\ committed \in [Replica -> Nat]
    BY DEF IInv, Types
  <1>1. CASE committed' = committed
    BY <1>0, <1>1
  <1>2. ASSUME NEW r \in Replica, NEW i \in 1..MaxLog, Commit(r, i)
        PROVE  committed'[s] >= committed[s]
    <2>1. committed' = [committed EXCEPT ![r] = i] /\ i > committed[r]
      BY Zenon, <1>0, <1>2, CommitForm DEF Commit, save_committed
    <2> QED BY <1>0, <2>1
  <1>3. ASSUME NEW r \in Replica, NEW n \in Nat,
               committed' = [committed EXCEPT ![r] = Larger(committed[r], n)]
        PROVE  committed'[s] >= committed[s]
    BY <1>0, <1>3 DEF Larger
  <1>4. ASSUME NEW r \in Replica, NEW b \in Ballot,
               NEW last \in 0..Len(leaderLog[b]), NEW commit \in 0..leaderCommit[b],
               NEW prev \in 0..last, AppendEntries(r, b, prev, last, commit)
        PROVE  committed'[s] >= committed[s]
    <2>1. KnownCommitted(commit, last) \in Nat
      BY DEF KnownCommitted
    <2>2. committed' = [committed EXCEPT ![r] =
                            Larger(committed[r], KnownCommitted(commit, last))]
      BY Zenon, <1>4 DEF AppendEntries, save_committed
    <2> QED BY Zenon, <1>3, <2>1, <2>2
  <1>5. ASSUME NEW r \in Replica, NEW b \in Ballot, Replicate(r, b)
        PROVE  committed'[s] >= committed[s]
    BY Zenon, <1>4, <1>5 DEF Replicate
  <1>6. \/ committed' = committed
        \/ \E r \in Replica, i \in 1..MaxLog : Commit(r, i)
        \/ \E r \in Replica, b \in Ballot : Replicate(r, b)
    BY ZenonT(60) DEF Next, Initialize, Campaign, GrantVote, BecomeLeader, ClientWrite
  <1> QED BY ZenonT(60), <1>1, <1>2, <1>5, <1>6

\* AgreedLogKept: the group implements AgreedLog. What is committed once stays
\* committed and in its place, on every replica, through elections, late and
\* repeated calls.
THEOREM ImplementsAgreedLog == Spec => AgreedLogKept
  <1>1. ASSUME Init PROVE Agreed!AgreedInit
    <2>1. ASSUME NEW r \in Replica PROVE Known(r) = <<>>
      BY SMTT(30), <1>1 DEF Init, Known
    <2> QED BY <1>1, <2>1 DEF Init, Agreed!AgreedInit
  <1>2. ASSUME IInv PROVE KnownOK
    BY <1>2, KnownNow DEF KnownOK, IInv, Types
  <1>3. ASSUME IInv, KnownOK, KnownOK', [Next]_vars
        PROVE  [Agreed!AgreedNext]_(Agreed!agreedVars)
    <2>1. CASE UNCHANGED vars
      BY <2>1 DEF vars, replicaVars, Agreed!agreedVars, Known
    <2>2. CASE Next
      <3>1. Agreed!Choose
        BY Zenon, <1>3, <2>2, ChosenGrows DEF Agreed!Choose
      <3>2. ASSUME NEW r \in Replica
            PROVE  Agreed!Prefix(Known(r), Known(r)') /\ Agreed!Prefix(Known(r)', chosen')
        <4>1. /\ log[r] \in Seq(Entry) /\ committed[r] \in Nat
              /\ Same(log[r], chosen, committed[r]) /\ chosen \in Seq(Entry)
          BY Zenon, <1>3 DEF KnownOK
        <4>2. /\ log'[r] \in Seq(Entry) /\ committed'[r] \in Nat
              /\ Same(log'[r], chosen', committed'[r]) /\ chosen' \in Seq(Entry)
          BY Zenon, <1>3 DEF KnownOK
        <4>3. /\ Len(Known(r)) = committed[r]
              /\ \A j \in 1..committed[r] : Known(r)[j] = chosen[j]
              /\ committed[r] <= Len(chosen)
          BY <4>1 DEF Known, Same
        <4>4. /\ Len(Known(r)') = committed'[r]
              /\ \A j \in 1..committed'[r] : Known(r)'[j] = chosen'[j]
              /\ committed'[r] <= Len(chosen')
          BY <4>2 DEF Known, Same
        <4>5. committed'[r] >= committed[r]
          BY Zenon, <1>3, <2>2, CommittedGrows
        <4>6. \A j \in 1..Len(chosen) : chosen[j] = chosen'[j]
          BY Zenon, <3>1 DEF Agreed!Choose, Agreed!Prefix
        <4>7. Agreed!Prefix(Known(r)', chosen')
          BY Zenon, <4>4 DEF Agreed!Prefix
        <4>8. Agreed!Prefix(Known(r), Known(r)')
          <5>1. Len(Known(r)) <= Len(Known(r)')
            BY Zenon, <4>3, <4>4, <4>5
          <5>2. ASSUME NEW j \in 1..Len(Known(r)) PROVE Known(r)[j] = Known(r)'[j]
            <6>1. j \in 1..committed[r] /\ j \in 1..committed'[r] /\ j \in 1..Len(chosen)
              <7>1. /\ Len(Known(r)) = committed[r] /\ committed[r] <= Len(chosen)
                    /\ committed[r] <= committed'[r]
                BY ZenonT(60), <4>3, <4>5
              <7>2. committed[r] \in Nat /\ committed'[r] \in Nat /\ Len(chosen) \in Nat
                BY <4>1, <4>2
              <7> QED BY <7>1, <7>2
            <6>2. Known(r)[j] = chosen[j] /\ chosen[j] = chosen'[j]
              BY Zenon, <4>3, <4>6, <6>1
            <6>3. Known(r)'[j] = chosen'[j]
              BY Zenon, <4>4, <6>1
            <6> QED BY ZenonT(60), <6>2, <6>3
          <5> QED BY Zenon, <5>1, <5>2 DEF Agreed!Prefix
        <4> QED BY Zenon, <4>7, <4>8
      <3>3. Agreed!Learn
        BY <3>2 DEF Agreed!Learn
      <3> QED BY <3>1, <3>3 DEF Agreed!AgreedNext
    <2> QED BY <1>3, <2>1, <2>2
  <1> QED BY <1>1, <1>2, <1>3, Invariance, PTL DEF Spec, AgreedLogKept, Agreed!AgreedSpec

-----------------------------------------------------------------------------
(* What the properties mean for a replica *)

\* State machine safety: two replicas never apply different entries at the same
\* index, whatever each of them knows to be committed.
THEOREM StateMachineSafety ==
    Spec => [](\A r, s \in Replica : \A j \in 1..committed[r] :
                   j <= committed[s] => log[r][j] = log[s][j])
  <1>1. ASSUME IInv, NEW r \in Replica, NEW s \in Replica,
               NEW j \in 1..committed[r], j <= committed[s]
        PROVE  log[r][j] = log[s][j]
    <2>1. Same(log[r], chosen, committed[r]) /\ committed[r] \in Nat
      BY Zenon, <1>1, KnownNow
    <2>2. Same(log[s], chosen, committed[s]) /\ committed[s] \in Nat
      BY ZenonT(60), <1>1, KnownNow
    <2>3. j \in 1..committed[s]
      BY <1>1, <2>1, <2>2
    <2> QED BY Zenon, <1>1, <2>1, <2>2, <2>3 DEF Same
  <1>2. IInv => \A r, s \in Replica : \A j \in 1..committed[r] :
                    j <= committed[s] => log[r][j] = log[s][j]
    BY Zenon, <1>1
  <1> QED BY <1>2, Invariance, PTL

\* LogStore::truncate and append never touch an entry that the replica knows to
\* be committed: what has been applied stays in the log it was applied from.
THEOREM CommittedIsNeverTruncated ==
    Spec => [][\A r \in Replica : Same(log[r], log'[r], committed[r])]_vars
  <1>0. ASSUME IInv PROVE KnownOK
    BY <1>0, KnownNow DEF KnownOK, IInv, Types
  <1>1. ASSUME IInv, KnownOK, KnownOK', Next, NEW r \in Replica
        PROVE  Same(log[r], log'[r], committed[r])
    <2>1. /\ Same(log[r], chosen, committed[r]) /\ committed[r] \in Nat
          /\ log[r] \in Seq(Entry)
      BY Zenon, <1>1 DEF KnownOK
    <2>2. /\ Same(log'[r], chosen', committed'[r]) /\ committed'[r] \in Nat
          /\ log'[r] \in Seq(Entry)
      BY Zenon, <1>1 DEF KnownOK
    <2>3. Agreed!Prefix(chosen, chosen') /\ committed'[r] >= committed[r]
      BY Zenon, <1>1, ChosenGrows, CommittedGrows
    <2>4. chosen \in Seq(Entry) /\ chosen' \in Seq(Entry)
      BY ZenonT(60), <1>1 DEF KnownOK
    <2>5. committed[r] <= Len(log[r]) /\ committed[r] <= Len(log'[r])
      BY <2>1, <2>2, <2>3 DEF Same
    <2>6. ASSUME NEW j \in 1..committed[r] PROVE log[r][j] = log'[r][j]
      <3>1. j \in 1..committed'[r] /\ j \in 1..Len(chosen)
        BY <2>1, <2>2, <2>3, <2>4 DEF Same
      <3>2. log[r][j] = chosen[j] /\ log'[r][j] = chosen'[j]
        BY Zenon, <2>1, <2>2, <3>1 DEF Same
      <3>3. chosen[j] = chosen'[j]
        BY Zenon, <2>3, <3>1 DEF Agreed!Prefix
      <3> QED BY ZenonT(60), <3>2, <3>3
    <2> QED BY Zenon, <2>5, <2>6 DEF Same
  <1>2. ASSUME IInv, KnownOK, KnownOK', [Next]_vars
        PROVE  [\A r \in Replica : Same(log[r], log'[r], committed[r])]_vars
    BY ZenonT(60), <1>1, <1>2
  <1> QED BY <1>0, <1>2, Invariance, PTL DEF Spec

\* Leader completeness: an entry that a quorum has confirmed to the leader of
\* its ballot is in the log of every later leader, in its place and with all
\* that precedes it, also of one that was deposed since.
THEOREM LeaderCompleteness ==
    Spec => [](\A b, c \in Ballot, i \in Nat :
                   b < c /\ Quorate(leaderLog, matched, b, i) /\ Started(c) =>
                       Same(leaderLog[c], leaderLog[b], i))
  <1>1. ASSUME IInv, NEW b \in Ballot, NEW c \in Ballot, NEW i \in Nat, b < c,
               Quorate(leaderLog, matched, b, i), Started(c)
        PROVE  Same(leaderLog[c], leaderLog[b], i)
    <2>1. matched \in MatchMap
      BY <1>1, TypeFacts DEF IInv
    <2>2. ~Blocked(vote, matched, b, i)
      BY Zenon, <1>1, <2>1, NotBlocked
    <2>3. OwnEntry(leaderLog, b, i)
      BY Zenon, <1>1 DEF Quorate
    <2> QED BY ZenonT(60), <1>1, <2>2, <2>3 DEF IInv, SafeOK
  <1>2. IInv => \A b, c \in Ballot, i \in Nat :
                    b < c /\ Quorate(leaderLog, matched, b, i) /\ Started(c) =>
                        Same(leaderLog[c], leaderLog[b], i)
    BY Zenon, <1>1
  <1> QED BY <1>2, Invariance, PTL

\* Leader append-only: a replica that stays the leader of its ballot only adds
\* to the end of its log, whatever late calls of other ballots reach it.
THEOREM LeaderAppendOnly ==
    Spec => [][\A r \in Replica :
                   leader[r] /\ leader'[r] /\ vote'[r] = vote[r] =>
                       Same(log[r], log'[r], Len(log[r]))]_vars
  <1>1. ASSUME IInv, IInv', Next, NEW r \in Replica, leader[r], leader'[r],
               vote'[r] = vote[r]
        PROVE  Same(log[r], log'[r], Len(log[r]))
    <2>1. vote[r] \in Ballot /\ log[r] = leaderLog[vote[r]]
      BY Zenon, <1>1 DEF IInv, Shape, LeadersOK
    <2>2. log'[r] = leaderLog'[vote[r]]
      BY Zenon, <1>1 DEF IInv, Shape, LeadersOK
    <2>3. LogsGrow(leaderLog, leaderLog')
      BY ZenonT(60), <1>1, NextIsStep DEF Growing, Grows
    <2> QED BY Zenon, <2>1, <2>2, <2>3 DEF LogsGrow
  <1>2. ASSUME IInv, IInv', UNCHANGED vars, NEW r \in Replica
        PROVE  Same(log[r], log'[r], Len(log[r]))
    <2>1. log' = log /\ log[r] \in Seq(Entry)
      BY Zenon, <1>2, TypeFacts DEF IInv, vars, replicaVars
    <2> QED BY <2>1 DEF Same
  <1>3. ASSUME IInv, IInv', [Next]_vars
        PROVE  [\A r \in Replica :
                    leader[r] /\ leader'[r] /\ vote'[r] = vote[r] =>
                        Same(log[r], log'[r], Len(log[r]))]_vars
    BY Zenon, <1>1, <1>2, <1>3
  <1> QED BY <1>3, Invariance, PTL DEF Spec
=============================================================================
