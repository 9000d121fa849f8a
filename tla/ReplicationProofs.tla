------------------------- MODULE ReplicationProofs --------------------------
(***************************************************************************)
(* Proofs about Replication for any number of followers, any batch size    *)
(* and any bounds: logs have no gap, what is taken for committed is with a *)
(* majority, replication implements AgreedLog, every answered call makes   *)
(* progress unless the follower's next entry was purged, and then the      *)
(* follower stays behind for good.                                         *)
(***************************************************************************)
EXTENDS Replication, FiniteSetTheorems, TLAPS

Message == [prev : Nat, entries : SUBSET Nat, commit : Nat]

PTypes ==
    /\ log \in [Replica -> SUBSET Nat]
    /\ last_purged \in [Replica -> Nat]
    /\ committed \in [Replica -> Nat]
    /\ sent \in [Follower -> Message]
    /\ matched \in [Follower -> Nat]

\* The entries of a log, or of a call, that follow p, up to n.
Run(l, p, n) == n \in Nat /\ p <= n /\ l = p + 1..n

\* A replica's log has no gap, and what it purged is committed.
StoreOK(r) ==
    /\ \E n \in Nat : Run(log[r], last_purged[r], n)
    /\ last_purged[r] <= committed[r] /\ committed[r] <= get_log_state(r)
    /\ committed[r] <= committed[Leader]

\* What a call carries comes from the leader's log.
CallOK(f) ==
    /\ \E n \in Nat : Run(sent[f].entries, sent[f].prev, n) /\ n <= get_log_state(Leader)
    /\ sent[f].commit <= committed[Leader]

MatchedOK(f) == matched[f] <= get_log_state(f) /\ matched[f] <= get_log_state(Leader)

Holders(i) == {s \in Replica : get_log_state(s) >= i}

IsMajority(S) == 2 * Cardinality(S) > Cardinality(Replica)

PInv ==
    /\ PTypes
    /\ \A r \in Replica : StoreOK(r)
    /\ \A f \in Follower : CallOK(f) /\ MatchedOK(f)
    /\ IsMajority(Holders(committed[Leader]))

-----------------------------------------------------------------------------
(* Runs of entries *)

LEMMA GreatestOfRun ==
    ASSUME NEW p \in Nat, NEW n \in Nat, p < n
    PROVE  Greatest(p + 1..n) = n
  <1> DEFINE S == p + 1..n
  <1>1. n \in S /\ \A j \in S : j <= n
    OBVIOUS
  <1>2. PICK m \in S : m = Greatest(S) /\ \A j \in S : j <= m
    BY <1>1 DEF Greatest
  <1>3. m \in Nat /\ m <= n /\ n <= m
    BY <1>1, <1>2
  <1> QED BY <1>2, <1>3

LEMMA RunEnd ==
    ASSUME NEW l, NEW p \in Nat, NEW n \in Nat, Run(l, p, n)
    PROVE  /\ (IF l = {} THEN p ELSE Greatest(l)) = n
           /\ l \in SUBSET Nat
  <1>1. l = p + 1..n /\ p <= n
    BY DEF Run
  <1>2. CASE p = n
    BY <1>1, <1>2
  <1>3. CASE p < n
    <2>0. n \in p + 1..n
      BY <1>3
    <2>1. l # {}
      BY <1>1, <2>0
    <2> QED BY <1>1, <1>3, <2>1, GreatestOfRun
  <1> QED BY <1>1, <1>2, <1>3

\* What append and purge make of a run.
LEMMA NextOfRun ==
    ASSUME NEW p \in Nat, NEW g \in Nat, p <= g
    PROVE  (p + 1..g) \cup {g + 1} = p + 1..g + 1
  OBVIOUS

LEMMA RestOfRun ==
    ASSUME NEW p \in Nat, NEW g \in Nat, NEW i \in Nat, p < i
    PROVE  {j \in p + 1..g : j > i} = i + 1..g
  OBVIOUS

LEMMA StoreRun ==
    ASSUME PTypes, NEW r \in Replica, StoreOK(r)
    PROVE  /\ get_log_state(r) \in Nat
           /\ Run(log[r], last_purged[r], get_log_state(r))
  <1>1. PICK n \in Nat : Run(log[r], last_purged[r], n)
    BY DEF StoreOK
  <1>2. last_purged[r] \in Nat
    BY DEF PTypes
  <1>3. get_log_state(r) = n
    BY SMTT(30), <1>1, <1>2, RunEnd DEF get_log_state
  <1> QED BY <1>1, <1>3

\* The same after a step that leaves a run in the log.
LEMMA StoreRunNext ==
    ASSUME PTypes', NEW r \in Replica, NEW n \in Nat, Run(log'[r], last_purged'[r], n)
    PROVE  get_log_state(r)' = n
  <1>1. last_purged'[r] \in Nat
    BY DEF PTypes
  <1> QED BY Zenon, <1>1, RunEnd DEF get_log_state

LEMMA LastOfRun ==
    ASSUME NEW m \in Message, NEW n \in Nat, Run(m.entries, m.prev, n)
    PROVE  LastOf(m) = n /\ m.prev \in Nat /\ m.prev <= n /\ m.entries = m.prev + 1..n
  <1>1. m.prev \in Nat
    BY DEF Message
  <1> QED BY <1>1, RunEnd DEF LastOf, Run

-----------------------------------------------------------------------------
(* Majorities *)

LEMMA ReplicasFinite ==
    /\ IsFiniteSet(Replica) /\ Cardinality(Replica) = Cardinality(Follower) + 1
    /\ Cardinality(Follower) \in Nat /\ Leader \in Replica /\ Follower \subseteq Replica
  BY ReplicaAssumption, FS_AddElement, FS_CardinalityType DEF Replica

LEMMA MajorityGrows ==
    ASSUME NEW S \in SUBSET Replica, NEW T \in SUBSET Replica, S \subseteq T,
           IsMajority(S)
    PROVE  IsMajority(T)
  <1>1. IsFiniteSet(T) /\ IsFiniteSet(S)
    BY ReplicasFinite, FS_Subset
  <1>2. /\ Cardinality(S) <= Cardinality(T)
        /\ Cardinality(S) \in Nat /\ Cardinality(T) \in Nat
    BY <1>1, FS_Subset, FS_CardinalityType
  <1>3. Cardinality(Replica) \in Nat
    BY ReplicasFinite, FS_CardinalityType
  <1> QED BY <1>2, <1>3 DEF IsMajority

\* Steps that shorten no log and commit nothing keep the majority.
LEMMA HoldersGrow ==
    ASSUME PInv, committed'[Leader] = committed[Leader],
           \A r \in Replica : /\ get_log_state(r) \in Nat /\ get_log_state(r)' \in Nat
                              /\ get_log_state(r) <= get_log_state(r)'
    PROVE  IsMajority(Holders(committed[Leader])')
  <1>1. committed[Leader] \in Nat
    BY ReplicasFinite DEF PInv, PTypes
  <1>2. Holders(committed[Leader]) \subseteq Holders(committed[Leader])'
    BY <1>1 DEF Holders
  <1>3. /\ Holders(committed[Leader]) \in SUBSET Replica
        /\ Holders(committed[Leader])' \in SUBSET Replica
    BY DEF Holders
  <1> QED BY <1>2, <1>3, MajorityGrows DEF PInv

-----------------------------------------------------------------------------
(* The steps *)

LEMMA PInitOK == Init => PInv
  <1> SUFFICES ASSUME Init PROVE PInv
    OBVIOUS
  <1>1. PTypes
    BY DEF Init, PTypes, Message, Nothing
  <1>2. ASSUME NEW r \in Replica PROVE Run(log[r], last_purged[r], 0)
    BY DEF Init, Run
  <1>3. ASSUME NEW r \in Replica PROVE get_log_state(r) = 0
    BY DEF Init, get_log_state
  <1>4. ASSUME NEW r \in Replica PROVE StoreOK(r)
    BY <1>2, <1>3, ReplicasFinite DEF Init, StoreOK
  <1>5. ASSUME NEW f \in Follower PROVE CallOK(f) /\ MatchedOK(f)
    <2>1. sent[f] = Nothing /\ matched[f] = 0 /\ committed[Leader] = 0
      BY ReplicasFinite DEF Init
    <2>2. Run(sent[f].entries, sent[f].prev, 0) /\ sent[f].commit = 0
      BY <2>1 DEF Nothing, Run
    <2> QED BY <1>3, <2>1, <2>2, ReplicasFinite DEF CallOK, MatchedOK
  <1>6. Holders(committed[Leader]) = Replica
    BY <1>3, ReplicasFinite DEF Holders, Init
  <1>7. IsMajority(Replica)
    BY ReplicasFinite DEF IsMajority
  <1> QED BY <1>1, <1>4, <1>5, <1>6, <1>7 DEF PInv

\* What a step leaves in the store of r: a run that is not shorter.
RunAfter(r) ==
    /\ \E n \in Nat : /\ Run(log'[r], last_purged'[r], n)
                      /\ get_log_state(r) <= n /\ committed'[r] <= n
    /\ last_purged'[r] <= committed'[r] /\ committed'[r] <= committed'[Leader]

LEMMA RunsGrow ==
    ASSUME PInv, PTypes', NEW r \in Replica, RunAfter(r)
    PROVE  /\ StoreOK(r)' /\ get_log_state(r)' \in Nat /\ get_log_state(r) \in Nat
           /\ get_log_state(r) <= get_log_state(r)'
  <1>1. PICK n \in Nat : /\ Run(log'[r], last_purged'[r], n)
                         /\ get_log_state(r) <= n /\ committed'[r] <= n
    BY DEF RunAfter
  <1>2. get_log_state(r)' = n
    BY <1>1, StoreRunNext
  <1>3. get_log_state(r) \in Nat
    BY StoreRun DEF PInv
  <1> QED BY <1>1, <1>2, <1>3 DEF StoreOK, RunAfter

\* Nothing that a step leaves alone is disturbed when the logs only grow.
LEMMA CallKept ==
    ASSUME PInv, PTypes', \A r \in Replica : RunAfter(r), NEW f \in Follower,
           committed[Leader] <= committed'[Leader], sent'[f] = sent[f]
    PROVE  CallOK(f)'
  <1>1. PICK n \in Nat : Run(sent[f].entries, sent[f].prev, n) /\ n <= get_log_state(Leader)
    BY DEF PInv, CallOK
  <1>2. n <= get_log_state(Leader)'
    BY <1>1, RunsGrow, ReplicasFinite
  <1>3. sent'[f].commit <= committed'[Leader]
    <2>1. /\ sent[f].commit \in Nat /\ committed[Leader] \in Nat
          /\ committed'[Leader] \in Nat
      BY ReplicasFinite DEF PInv, PTypes, Message
    <2> QED BY <2>1 DEF PInv, CallOK
  <1> QED BY <1>1, <1>2, <1>3 DEF CallOK

LEMMA MatchedKept ==
    ASSUME PInv, PTypes', \A r \in Replica : RunAfter(r), NEW f \in Follower,
           matched'[f] = matched[f]
    PROVE  MatchedOK(f)'
  <1>1. matched[f] \in Nat /\ MatchedOK(f) /\ f \in Replica /\ Leader \in Replica
    BY ReplicasFinite DEF PInv, PTypes
  <1>2. /\ get_log_state(f) \in Nat /\ get_log_state(f)' \in Nat
        /\ get_log_state(f) <= get_log_state(f)'
        /\ get_log_state(Leader) \in Nat /\ get_log_state(Leader)' \in Nat
        /\ get_log_state(Leader) <= get_log_state(Leader)'
    BY <1>1, RunsGrow
  <1> QED BY <1>1, <1>2 DEF MatchedOK

LEMMA GrowKeeps ==
    ASSUME PInv, PTypes', committed'[Leader] = committed[Leader],
           \A r \in Replica : RunAfter(r),
           \A f \in Follower : CallOK(f)' /\ MatchedOK(f)'
    PROVE  PInv'
  <1>1. \A r \in Replica : /\ StoreOK(r)' /\ get_log_state(r)' \in Nat
                           /\ get_log_state(r) \in Nat
                           /\ get_log_state(r) <= get_log_state(r)'
    BY RunsGrow
  <1>2. IsMajority(Holders(committed[Leader])')
    BY <1>1, HoldersGrow
  <1> QED BY <1>1, <1>2 DEF PInv

\* What the invariant says of one replica.
LEMMA StoreFacts ==
    ASSUME PInv, NEW r \in Replica
    PROVE  /\ get_log_state(r) \in Nat /\ last_purged[r] \in Nat
           /\ committed[r] \in Nat /\ committed[Leader] \in Nat
           /\ Run(log[r], last_purged[r], get_log_state(r))
           /\ log[r] = last_purged[r] + 1..get_log_state(r)
           /\ last_purged[r] <= committed[r] /\ committed[r] <= get_log_state(r)
           /\ committed[r] <= committed[Leader]
  <1>1. PTypes /\ StoreOK(r)
    BY DEF PInv
  <1>2. get_log_state(r) \in Nat /\ Run(log[r], last_purged[r], get_log_state(r))
    BY <1>1, StoreRun
  <1>3. /\ last_purged[r] \in Nat /\ committed[r] \in Nat /\ committed[Leader] \in Nat
    BY <1>1, ReplicasFinite DEF PTypes
  <1> QED BY <1>1, <1>2, <1>3 DEF StoreOK, Run

LEMMA SameStore ==
    ASSUME PInv, NEW r \in Replica, log'[r] = log[r], last_purged'[r] = last_purged[r],
           committed'[r] = committed[r], committed'[Leader] = committed[Leader]
    PROVE  RunAfter(r)
  BY StoreFacts DEF RunAfter

LEMMA SameStores ==
    ASSUME PInv, PTypes', UNCHANGED storeVars,
           \A f \in Follower : sent'[f] = sent[f] \/ CallOK(f)',
           UNCHANGED matched
    PROVE  PInv'
  <1>1. \A r \in Replica : RunAfter(r)
    BY SameStore DEF storeVars
  <1>2. committed'[Leader] = committed[Leader] /\ committed[Leader] \in Nat
    BY ReplicasFinite DEF storeVars, PInv, PTypes
  <1>3. \A f \in Follower : CallOK(f)' /\ MatchedOK(f)'
    BY <1>1, <1>2, CallKept, MatchedKept
  <1> QED BY <1>1, <1>2, <1>3, GrowKeeps

-----------------------------------------------------------------------------
(* The actions *)

LEMMA ClientWriteKeeps == PInv /\ ClientWrite => PInv'
  <1> SUFFICES ASSUME PInv, ClientWrite PROVE PInv'
    OBVIOUS
  <1> DEFINE g == get_log_state(Leader)
  <1>1. /\ log' = [log EXCEPT ![Leader] = log[Leader] \cup {g + 1}]
        /\ last_purged' = last_purged /\ committed' = committed
        /\ sent' = sent /\ matched' = matched
    BY DEF ClientWrite, append, callVars
  <1>2. /\ g \in Nat /\ last_purged[Leader] \in Nat /\ committed[Leader] \in Nat
        /\ last_purged[Leader] <= committed[Leader] /\ committed[Leader] <= g
        /\ log[Leader] = last_purged[Leader] + 1..g
    BY StoreFacts, ReplicasFinite
  <1> HIDE DEF g
  <1>3. PTypes'
    <2>1. log[Leader] \cup {g + 1} \in SUBSET Nat
      BY <1>2
    <2> QED BY Zenon, <1>1, <2>1 DEF PInv, PTypes
  <1>4. RunAfter(Leader)
    <2>1. log'[Leader] = log[Leader] \cup {g + 1}
      BY <1>1, ReplicasFinite DEF PInv, PTypes
    <2>2. Run(log'[Leader], last_purged'[Leader], g + 1)
      <3>1. last_purged[Leader] <= g /\ last_purged[Leader] <= g + 1 /\ g + 1 \in Nat
        BY <1>2
      <3> QED BY Zenon, <1>1, <1>2, <2>1, <3>1, NextOfRun DEF Run
    <2>3. g <= g + 1 /\ committed'[Leader] <= g + 1 /\ g + 1 \in Nat
      BY <1>1, <1>2
    <2> QED BY <1>1, <1>2, <2>2, <2>3 DEF RunAfter, g
  <1>5. ASSUME NEW r \in Replica, r # Leader PROVE RunAfter(r)
    <2>1. log'[r] = log[r]
      BY <1>1, <1>5 DEF PInv, PTypes
    <2> QED BY <1>1, <2>1, SameStore
  <1>6. \A r \in Replica : RunAfter(r)
    BY <1>4, <1>5
  <1>7. \A f \in Follower : CallOK(f)' /\ MatchedOK(f)'
    BY <1>1, <1>2, <1>3, <1>6, CallKept, MatchedKept
  <1> QED BY <1>1, <1>3, <1>6, <1>7, GrowKeeps

\* The followers that have confirmed an entry have it.
LEMMA CommitKeeps == ASSUME NEW i \in 1..MaxIndex PROVE PInv /\ Commit(i) => PInv'
  <1> SUFFICES ASSUME PInv, Commit(i) PROVE PInv'
    OBVIOUS
  <1> DEFINE F == {f \in Follower : matched[f] >= i}
  <1>1. /\ committed' = [committed EXCEPT ![Leader] = i]
        /\ log' = log /\ last_purged' = last_purged
        /\ sent' = sent /\ matched' = matched
        /\ committed[Leader] < i /\ i <= get_log_state(Leader)
        /\ 2 * (Cardinality(F) + 1) > Cardinality(Follower) + 1
    BY DEF Commit, save_committed, callVars
  <1>2. i \in Nat
    BY BoundAssumption
  <1>3. PTypes'
    BY Zenon, <1>1, <1>2 DEF PInv, PTypes
  <1>4. committed'[Leader] = i
    BY <1>1, ReplicasFinite DEF PInv, PTypes
  <1>5. ASSUME NEW r \in Replica PROVE RunAfter(r)
    <2>1. /\ get_log_state(r) \in Nat /\ last_purged[r] \in Nat
          /\ committed[r] \in Nat /\ committed[Leader] \in Nat
          /\ Run(log[r], last_purged[r], get_log_state(r))
          /\ last_purged[r] <= committed[r] /\ committed[r] <= get_log_state(r)
          /\ committed[r] <= committed[Leader]
      BY StoreFacts
    <2>2. committed'[r] = IF r = Leader THEN i ELSE committed[r]
      BY <1>1 DEF PInv, PTypes
    <2>3. /\ committed'[r] <= get_log_state(r) /\ last_purged'[r] <= committed'[r]
          /\ committed'[r] <= committed'[Leader]
      BY <1>1, <1>2, <1>4, <2>1, <2>2
    <2> QED BY <1>1, <2>1, <2>3 DEF RunAfter
  <1>6. ASSUME NEW f \in Follower PROVE CallOK(f)' /\ MatchedOK(f)'
    <2>1. committed[Leader] \in Nat /\ committed[Leader] <= committed'[Leader]
      BY <1>1, <1>2, <1>4, StoreFacts, ReplicasFinite
    <2> QED BY SMTT(30), <1>1, <1>3, <1>5, <2>1, CallKept, MatchedKept
  <1>7. F \cup {Leader} \in SUBSET Replica
    BY ReplicasFinite
  <1>8. F \cup {Leader} \subseteq Holders(i)'
    <2>1. ASSUME NEW r \in F \cup {Leader} PROVE r \in Replica /\ get_log_state(r) >= i
      <3>1. CASE r = Leader
        BY <1>1, <1>2, <3>1, StoreFacts, ReplicasFinite
      <3>2. CASE r \in F
        <4>1. r \in Follower /\ r \in Replica /\ matched[r] \in Nat /\ matched[r] >= i
          BY SMTT(30), <3>2, ReplicasFinite DEF PInv, PTypes
        <4>2. matched[r] <= get_log_state(r) /\ get_log_state(r) \in Nat
          BY <4>1, StoreFacts DEF PInv, MatchedOK
        <4> QED BY <1>2, <4>1, <4>2
      <3> QED BY <3>1, <3>2
    <2>2. \A r \in Replica : get_log_state(r)' = get_log_state(r)
      BY <1>1 DEF get_log_state
    <2> QED BY <2>1, <2>2 DEF Holders
  <1>9. IsMajority(F \cup {Leader})
    <2>1. IsFiniteSet(F) /\ Leader \notin F
      BY ReplicaAssumption, FS_Subset
    <2>2. Cardinality(F \cup {Leader}) = Cardinality(F) + 1
      BY Zenon, <2>1, FS_AddElement
    <2> QED BY <1>1, <2>2, ReplicasFinite DEF IsMajority
  <1>10. IsMajority(Holders(i)')
    <2>1. Holders(i)' \in SUBSET Replica
      BY DEF Holders
    <2> QED BY <1>7, <1>8, <1>9, <2>1, MajorityGrows
  <1>11. IsMajority(Holders(committed[Leader]))'
    BY <1>4, <1>10 DEF Holders, IsMajority
  <1>12. \A r \in Replica : StoreOK(r)'
    BY <1>3, <1>5, RunsGrow
  <1> QED BY <1>3, <1>6, <1>11, <1>12 DEF PInv

LEMMA PurgeKeeps ==
    ASSUME NEW r \in Replica, NEW i \in 1..MaxIndex PROVE PInv /\ Purge(r, i) => PInv'
  <1> SUFFICES ASSUME PInv, Purge(r, i) PROVE PInv'
    OBVIOUS
  <1>1. /\ log' = [log EXCEPT ![r] = {j \in log[r] : j > i}]
        /\ last_purged' = [last_purged EXCEPT ![r] = i]
        /\ committed' = committed /\ sent' = sent /\ matched' = matched
        /\ last_purged[r] < i /\ i <= committed[r]
    BY DEF Purge, purge, callVars
  <1>2. i \in Nat
    BY BoundAssumption
  <1>3. PTypes'
    BY <1>1, <1>2 DEF PInv, PTypes
  <1>4. RunAfter(r)
    <2>1. log'[r] = {j \in log[r] : j > i} /\ last_purged'[r] = i
      BY <1>1 DEF PInv, PTypes
    <2> DEFINE g == get_log_state(r)
    <2>2. /\ g \in Nat /\ last_purged[r] \in Nat /\ committed[r] \in Nat
          /\ committed[r] <= g /\ log[r] = last_purged[r] + 1..g
          /\ committed[r] <= committed[Leader]
      BY StoreFacts
    <2> HIDE DEF g
    <2>3. log'[r] = i + 1..g
      <3>1. {j \in last_purged[r] + 1..g : j > i} = i + 1..g
        BY <1>1, <1>2, <2>2, RestOfRun
      <3>2. log'[r] = {j \in last_purged[r] + 1..g : j > i}
        BY <2>1, <2>2
      <3> QED BY <3>1, <3>2
    <2>4. Run(log'[r], last_purged'[r], g) /\ g <= g /\ committed'[r] <= g
      BY <1>1, <1>2, <2>1, <2>2, <2>3 DEF Run
    <2> QED BY Zenon, <1>1, <2>1, <2>2, <2>4 DEF RunAfter, g
  <1>5. ASSUME NEW s \in Replica, s # r PROVE RunAfter(s)
    <2>1. log'[s] = log[s] /\ last_purged'[s] = last_purged[s]
      BY <1>1, <1>5 DEF PInv, PTypes
    <2> QED BY <1>1, <2>1, SameStore
  <1>6. \A s \in Replica : RunAfter(s)
    BY <1>4, <1>5
  <1>7. committed[Leader] <= committed'[Leader] /\ committed'[Leader] = committed[Leader]
    BY <1>1, StoreFacts, ReplicasFinite
  <1>8. \A f \in Follower : CallOK(f)' /\ MatchedOK(f)'
    BY <1>1, <1>3, <1>6, <1>7, CallKept, MatchedKept
  <1> QED BY <1>3, <1>6, <1>7, <1>8, GrowKeeps

LEMMA NothingOK ==
    ASSUME PInv, NEW f \in Follower, sent'[f] = Nothing, get_log_state(Leader)' \in Nat,
           committed'[Leader] \in Nat
    PROVE  CallOK(f)'
  <1>1. Run(sent'[f].entries, sent'[f].prev, 0) /\ sent'[f].commit = 0
    BY DEF Nothing, Run
  <1> QED BY <1>1 DEF CallOK

\* A section of the leader's log is a run.
LEMMA SectionOfRun ==
    ASSUME NEW p \in Nat, NEW g \in Nat, NEW q \in Nat, p <= q, q <= g, NEW k \in Nat
    PROVE  \E n \in Nat : /\ Run({i \in p + 1..g : q + 1 <= i /\ i <= q + k}, q, n)
                          /\ n <= g
  <1>1. CASE q + k <= g
    <2>1. {i \in p + 1..g : q + 1 <= i /\ i <= q + k} = q + 1..q + k
      BY <1>1
    <2> QED BY <1>1, <2>1 DEF Run
  <1>2. CASE g < q + k
    <2>1. {i \in p + 1..g : q + 1 <= i /\ i <= q + k} = q + 1..g
      BY <1>2
    <2> QED BY <1>2, <2>1 DEF Run
  <1> QED BY <1>1, <1>2

LEMMA StartKeeps == ASSUME NEW f \in Follower PROVE PInv /\ Start(f) => PInv'
  <1> SUFFICES ASSUME PInv, Start(f) PROVE PInv'
    OBVIOUS
  <1> DEFINE p == last_purged[Leader]
             g == get_log_state(Leader)
             q == Larger(matched[f], p)
             E == {i \in p + 1..g : q + 1 <= i /\ i <= q + max_payload_entries}
  <1>1. /\ sent' = [sent EXCEPT ![f] = Payload(f)]
        /\ UNCHANGED storeVars /\ UNCHANGED matched
    BY DEF Start
  <1>2. /\ g \in Nat /\ p \in Nat /\ committed[Leader] \in Nat
        /\ p <= g /\ log[Leader] = p + 1..g
    <2>1. /\ g \in Nat /\ p \in Nat /\ committed[Leader] \in Nat
          /\ p <= committed[Leader] /\ committed[Leader] <= g /\ log[Leader] = p + 1..g
      BY StoreFacts, ReplicasFinite
    <2> QED BY <2>1
  <1>3. matched[f] \in Nat /\ matched[f] <= g
    BY DEF PInv, PTypes, MatchedOK
  <1>4. Payload(f) = [prev |-> q, entries |-> E, commit |-> committed[Leader]]
    BY <1>2 DEF Payload, try_get_log_entries
  <1> HIDE DEF g, p
  <1>5. q \in Nat /\ p <= q /\ q <= g
    BY <1>2, <1>3 DEF Larger
  <1> HIDE DEF q
  <1>6. PICK n \in Nat : Run(E, q, n) /\ n <= g
    BY ZenonT(60), <1>2, <1>5, BoundAssumption, SectionOfRun
  <1>7. E \in SUBSET Nat
    BY <1>2
  <1> HIDE DEF E
  <1>8. Payload(f) \in Message
    BY <1>2, <1>4, <1>5, <1>7 DEF Message
  <1>9. PTypes'
    BY <1>1, <1>8 DEF PInv, PTypes, storeVars
  <1>10. sent'[f] = [prev |-> q, entries |-> E, commit |-> committed[Leader]]
    BY <1>1, <1>4 DEF PInv, PTypes
  <1>11. CallOK(f)'
    <2>1. /\ sent'[f].entries = E /\ sent'[f].prev = q
          /\ sent'[f].commit = committed[Leader] /\ committed' = committed
      BY <1>1, <1>10 DEF storeVars
    <2>2. get_log_state(Leader)' = g
      BY <1>1 DEF storeVars, get_log_state, g
    <2>3. sent'[f].commit <= committed'[Leader]
      BY <1>2, <2>1
    <2> QED BY <1>6, <2>1, <2>2, <2>3 DEF CallOK
  <1>12. \A h \in Follower : sent'[h] = sent[h] \/ CallOK(h)'
    BY <1>1, <1>11 DEF PInv, PTypes
  <1> QED BY <1>1, <1>9, <1>12, SameStores

\* A step that ends a call and leaves the stores alone.
LEMMA EndKeeps ==
    ASSUME PInv, NEW f \in Follower, End(f), UNCHANGED storeVars, UNCHANGED matched
    PROVE  PInv'
  <1>1. sent' = [sent EXCEPT ![f] = Nothing]
    BY DEF End
  <1>2. Nothing \in Message
    BY DEF Nothing, Message
  <1>3. PTypes'
    BY <1>1, <1>2 DEF PInv, PTypes, storeVars
  <1>4. sent'[f] = Nothing
    BY <1>1 DEF PInv, PTypes
  <1>5. get_log_state(Leader)' \in Nat /\ committed'[Leader] \in Nat
    <2>1. get_log_state(Leader)' = get_log_state(Leader)
      BY DEF storeVars, get_log_state
    <2> QED BY <2>1, StoreFacts, ReplicasFinite DEF storeVars
  <1>6. \A h \in Follower : sent'[h] = sent[h] \/ CallOK(h)'
    BY SMTT(30), <1>1, <1>4, <1>5, NothingOK DEF PInv, PTypes
  <1> QED BY <1>3, <1>6, SameStores

\* What the peer does with a call, whether or not its answer arrives.
LEMMA HandleKeeps ==
    ASSUME PInv, NEW f \in Follower, Handle(f), UNCHANGED last_purged
    PROVE  /\ log' \in [Replica -> SUBSET Nat] /\ committed' \in [Replica -> Nat]
           /\ committed'[Leader] = committed[Leader]
           /\ \A r \in Replica : RunAfter(r)
           /\ LastOf(sent[f]) \in Nat
           /\ LastOf(sent[f]) <= get_log_state(Leader)
           /\ Accepts(f, sent[f]) =>
                  Run(log'[f], last_purged'[f], Larger(get_log_state(f), LastOf(sent[f])))
  <1> DEFINE m == sent[f]
             g == get_log_state(f)
             p == last_purged[f]
             N == {j \in m.entries : j > g}
             c == Larger(committed[f], CommitOf(m))
  <1>1. PICK n \in Nat : Run(m.entries, m.prev, n) /\ n <= get_log_state(Leader)
    BY DEF PInv, CallOK
  <1>2. m \in Message /\ m.commit \in Nat /\ m.commit <= committed[Leader]
    BY DEF PInv, PTypes, Message, CallOK
  <1>3. LastOf(m) = n /\ m.prev \in Nat /\ m.prev <= n /\ m.entries = m.prev + 1..n
    BY <1>1, <1>2, LastOfRun
  <1>4. f \in Replica /\ f # Leader /\ Leader \in Replica
    BY ReplicasFinite, ReplicaAssumption
  <1>5. /\ g \in Nat /\ p \in Nat /\ committed[f] \in Nat /\ committed[Leader] \in Nat
        /\ log[f] = p + 1..g /\ p <= committed[f] /\ committed[f] <= g
        /\ committed[f] <= committed[Leader]
    BY SMTT(30), <1>4, StoreFacts
  <1>6. CASE ~Accepts(f, m)
    <2>1. log' = log /\ committed' = committed
      BY <1>6 DEF Handle
    <2>2. \A r \in Replica : RunAfter(r)
      BY SMTT(30), <2>1, SameStore
    <2> QED BY SMTT(30), <1>1, <1>3, <1>6, <2>1, <2>2 DEF PInv, PTypes
  <1>7. CASE Accepts(f, m)
    <2>1. /\ log' = [log EXCEPT ![f] = log[f] \cup N]
          /\ committed' = [committed EXCEPT ![f] = c]
      BY <1>7 DEF Handle, append, save_committed
    <2>2. m.prev <= g
      BY <1>7 DEF Accepts, get_current_snapshot
    <2>3. N = {j \in m.prev + 1..n : j > g}
      BY <1>3
    <2> HIDE DEF g, p
    <2>4. (p + 1..g) \cup {j \in m.prev + 1..n : j > g} = p + 1..Larger(g, n)
      <3> DEFINE q == m.prev
      <3>1. p <= g /\ p \in Nat /\ g \in Nat
        BY <1>5
      <3>2. q \in Nat /\ q <= g /\ q <= n
        BY <1>3, <2>2
      <3> HIDE DEF q
      <3>3. (p + 1..g) \cup {j \in q + 1..n : j > g} = p + 1..Larger(g, n)
        BY <3>1, <3>2 DEF Larger
      <3> QED BY <3>3 DEF q
    <2>5. log[f] \cup N = p + 1..Larger(g, n)
      BY <1>5, <2>3, <2>4
    <2>6. c = Larger(committed[f], IF m.commit < n THEN m.commit ELSE n)
      BY <1>3 DEF CommitOf
    <2> HIDE DEF N, c
    <2>7. /\ Larger(g, n) \in Nat /\ g <= Larger(g, n) /\ p <= Larger(g, n)
          /\ c \in Nat /\ c <= Larger(g, n) /\ c <= committed[Leader] /\ p <= c
      BY <1>2, <1>5, <2>6 DEF Larger
    <2>8. /\ log' \in [Replica -> SUBSET Nat] /\ committed' \in [Replica -> Nat]
          /\ log'[f] = p + 1..Larger(g, n) /\ committed'[f] = c
          /\ committed'[Leader] = committed[Leader]
          /\ \A r \in Replica : r # f => log'[r] = log[r] /\ committed'[r] = committed[r]
      <3>1. log[f] \cup N \in SUBSET Nat
        BY <1>5, <2>5, <2>7
      <3>2. log \in [Replica -> SUBSET Nat] /\ committed \in [Replica -> Nat]
        BY DEF PInv, PTypes
      <3> QED BY SMTT(30), <1>4, <2>1, <2>5, <2>7, <3>1, <3>2
    <2>9. Run(log'[f], last_purged'[f], Larger(g, n))
      BY SMTT(30), <2>7, <2>8 DEF Run, p
    <2>10. RunAfter(f)
      BY <2>7, <2>8, <2>9 DEF RunAfter, g, p
    <2>11. ASSUME NEW r \in Replica, r # f PROVE RunAfter(r)
      BY SMTT(30), <2>8, <2>11, SameStore
    <2> QED BY SMTT(30), <1>1, <1>3, <2>8, <2>9, <2>10, <2>11 DEF g
  <1> QED BY SMTT(30), <1>6, <1>7

\* The end of a call that the peer has handled.
LEMMA HandledKeeps ==
    ASSUME PInv, NEW f \in Follower, End(f), Handle(f), UNCHANGED last_purged,
           \/ UNCHANGED matched
           \/ Accepts(f, sent[f]) /\ Confirm(f)
    PROVE  PInv'
  <1> DEFINE n == LastOf(sent[f])
  <1>1. /\ log' \in [Replica -> SUBSET Nat] /\ committed' \in [Replica -> Nat]
        /\ committed'[Leader] = committed[Leader]
        /\ \A r \in Replica : RunAfter(r)
        /\ n \in Nat /\ n <= get_log_state(Leader)
        /\ Accepts(f, sent[f]) =>
               Run(log'[f], last_purged'[f], Larger(get_log_state(f), n))
    BY HandleKeeps
  <1>2. sent' = [sent EXCEPT ![f] = Nothing]
    BY DEF End
  <1>3. \/ matched' = matched
        \/ /\ Accepts(f, sent[f])
           /\ matched' = [matched EXCEPT ![f] = Larger(matched[f], n)]
    BY DEF Confirm
  <1> HIDE DEF n
  <1>4. matched[f] \in Nat /\ Larger(matched[f], n) \in Nat
    BY <1>1 DEF PInv, PTypes, Larger
  <1>5. PTypes'
    <2>1. Nothing \in Message
      BY DEF Nothing, Message
    <2>2. matched' \in [Follower -> Nat]
      BY <1>3, <1>4 DEF PInv, PTypes
    <2> QED BY ZenonT(60), <1>1, <1>2, <2>1, <2>2 DEF PInv, PTypes
  <1>6. \A r \in Replica : /\ get_log_state(r) \in Nat /\ get_log_state(r)' \in Nat
                           /\ get_log_state(r) <= get_log_state(r)'
    BY <1>1, <1>5, RunsGrow
  <1>7. committed[Leader] \in Nat /\ Leader \in Replica /\ f \in Replica
    BY ReplicasFinite DEF PInv, PTypes
  <1>8. ASSUME NEW h \in Follower PROVE CallOK(h)'
    <2>1. CASE h = f
      <3>1. sent'[f] = Nothing
        BY SMTT(30), <1>2 DEF PInv, PTypes
      <3> QED BY SMTT(30), <1>1, <1>6, <1>7, <2>1, <3>1, NothingOK
    <2>2. CASE h # f
      <3>1. sent'[h] = sent[h]
        BY SMTT(30), <1>2, <2>2 DEF PInv, PTypes
      <3>2. committed[Leader] <= committed'[Leader]
        BY SMTT(30), <1>1, <1>7
      <3> QED BY SMTT(30), <1>1, <1>5, <3>1, <3>2, CallKept
    <2> QED BY SMTT(30), <2>1, <2>2
  <1>9. ASSUME NEW h \in Follower PROVE MatchedOK(h)'
    <2>1. CASE matched'[h] = matched[h]
      BY SMTT(30), <1>1, <1>5, <2>1, MatchedKept
    <2>2. CASE matched'[h] # matched[h]
      <3>1. /\ h = f /\ Accepts(f, sent[f]) /\ matched'[f] = Larger(matched[f], n)
        BY SMTT(30), <1>3, <2>2 DEF PInv, PTypes
      <3>2. get_log_state(f)' = Larger(get_log_state(f), n)
        <4>1. Larger(get_log_state(f), n) \in Nat
          BY SMTT(30), <1>1, <1>6, <1>7 DEF Larger
        <4> QED BY SMTT(30), <1>1, <1>5, <1>7, <3>1, <4>1, StoreRunNext
      <3>3. matched[f] <= get_log_state(f) /\ matched[f] <= get_log_state(Leader)
        BY SMTT(30) DEF PInv, MatchedOK
      <3>4. matched'[f] <= get_log_state(f)'
        BY SMTT(30), <1>1, <1>4, <1>6, <1>7, <3>1, <3>2, <3>3 DEF Larger
      <3>5. matched'[f] <= get_log_state(Leader)'
        <4>1. Larger(matched[f], n) <= get_log_state(Leader)
          BY <1>1, <3>3 DEF Larger
        <4> QED BY SMTT(30), <1>4, <1>6, <1>7, <3>1, <4>1
      <3> QED BY SMTT(30), <3>1, <3>4, <3>5 DEF MatchedOK
    <2> QED BY SMTT(30), <2>1, <2>2
  <1> QED BY SMTT(30), <1>1, <1>5, <1>8, <1>9, GrowKeeps

LEMMA PNextOK == PInv /\ [Next]_vars => PInv'
  <1> SUFFICES ASSUME PInv, [Next]_vars PROVE PInv'
    OBVIOUS
  <1>1. ASSUME UNCHANGED storeVars, UNCHANGED sent, UNCHANGED matched PROVE PInv'
    <2>1. PTypes'
      BY <1>1 DEF PInv, PTypes, storeVars
    <2> QED BY <1>1, <2>1, SameStores
  <1>2. CASE ClientWrite
    BY <1>2, ClientWriteKeeps
  <1>3. CASE \E i \in 1..MaxIndex : Commit(i)
    BY <1>3, CommitKeeps
  <1>4. CASE \E r \in Replica, i \in 1..MaxIndex : Purge(r, i)
    BY <1>4, PurgeKeeps
  <1>5. ASSUME NEW f \in Follower, Start(f) PROVE PInv'
    BY <1>5, StartKeeps
  <1>6. ASSUME NEW f \in Follower,
               Lock(f) \/ Lookup(f) \/ Connect(f) \/ Insert(f) \/ Cut(f) \/ Heal(f)
        PROVE  PInv'
    <2>1. UNCHANGED storeVars /\ UNCHANGED sent /\ UNCHANGED matched
      BY <1>6 DEF Lock, Lookup, Connect, Insert, Cut, Heal, callVars
    <2> QED BY SMTT(30), <1>1, <2>1
  <1>7. ASSUME NEW f \in Follower, Answered(f) PROVE PInv'
    <2>1. End(f) /\ Handle(f) /\ UNCHANGED last_purged
      BY <1>7 DEF Answered
    <2>2. \/ UNCHANGED matched
          \/ Accepts(f, sent[f]) /\ Confirm(f)
      BY <1>7 DEF Answered
    <2> QED BY SMTT(30), <2>1, <2>2, HandledKeeps
  <1>8. ASSUME NEW f \in Follower, Unreachable(f) PROVE PInv'
    BY <1>8, EndKeeps DEF Unreachable, Error
  <1>9. ASSUME NEW f \in Follower, Lost(f) PROVE PInv'
    <2>1. End(f) /\ UNCHANGED last_purged /\ UNCHANGED matched
      BY <1>9 DEF Lost, Error
    <2>2. CASE UNCHANGED <<log, committed>>
      BY <2>1, <2>2, EndKeeps DEF storeVars
    <2>3. CASE Handle(f)
      BY <2>1, <2>3, HandledKeeps
    <2> QED BY <1>9, <2>2, <2>3 DEF Lost
  <1>10. CASE UNCHANGED vars
    BY <1>1, <1>10 DEF vars, callVars
  <1> QED BY SMTT(30), <1>2, <1>3, <1>4, <1>5, <1>6, <1>7, <1>8, <1>9, <1>10 DEF Next

-----------------------------------------------------------------------------
(* The theorems *)

\* The inductive invariant holds: stores are runs, what is in flight or matched
\* is in the leader's log, and a majority holds what the leader committed.
THEOREM ReplicationInvariance == Spec => []PInv
  BY PInitOK, PNextOK, PTL DEF Spec

\* append, purge and get_log_state of LogStore keep the log without a gap, for
\* any number of followers, any batch size and any faults.
THEOREM NoGap == Spec => []LogHasNoGap
  <1>1. PInv => LogHasNoGap
    BY StoreFacts DEF LogHasNoGap
  <1> QED BY <1>1, ReplicationInvariance, PTL

\* What any replica takes for committed is with a majority of any group: a call
\* that failed, handled or not, confirms nothing.
THEOREM MajorityHolds == Spec => []CommittedOnMajority
  <1>1. PInv => CommittedOnMajority
    <2> SUFFICES ASSUME PInv, NEW r \in Replica PROVE IsMajority(Holders(committed[r]))
      BY DEF CommittedOnMajority, IsMajority, Holders
    <2>1. committed[r] \in Nat /\ committed[Leader] \in Nat /\ committed[r] <= committed[Leader]
      BY StoreFacts
    <2>2. \A s \in Replica : get_log_state(s) \in Nat
      BY StoreFacts
    <2>3. Holders(committed[Leader]) \subseteq Holders(committed[r])
      BY <2>1, <2>2 DEF Holders
    <2>4. /\ Holders(committed[Leader]) \in SUBSET Replica
          /\ Holders(committed[r]) \in SUBSET Replica
      BY DEF Holders
    <2> QED BY <2>3, <2>4, MajorityGrows DEF PInv
  <1> QED BY <1>1, ReplicationInvariance, PTL

-----------------------------------------------------------------------------
(* The agreed log *)

LEMMA UptoFacts ==
    ASSUME NEW m \in Nat, NEW n \in Nat, m <= n
    PROVE  Agreed!Prefix(Upto(m), Upto(n))
  <1>1. Len(Upto(m)) = m /\ Len(Upto(n)) = n
    BY DEF Upto
  <1>2. \A i \in 1..m : Upto(m)[i] = Upto(n)[i]
    BY SMTT(30) DEF Upto
  <1> QED BY <1>1, <1>2 DEF Agreed!Prefix

\* No replica takes back what it took for committed.
LEMMA CommitsGrow ==
    ASSUME PInv, [Next]_vars, NEW r \in Replica
    PROVE  committed[r] <= committed'[r]
  <1>1. committed \in [Replica -> Nat] /\ committed[r] \in Nat
    BY DEF PInv, PTypes
  <1>2. CASE UNCHANGED committed
    BY <1>1, <1>2
  <1>3. ASSUME NEW i \in 1..MaxIndex, Commit(i) PROVE committed[r] <= committed'[r]
    BY <1>1, <1>3 DEF Commit, save_committed
  <1>4. ASSUME NEW f \in Follower, Handle(f) PROVE committed[r] <= committed'[r]
    <2>1. f \in Replica
      BY ReplicasFinite
    <2>2. CommitOf(sent[f]) \in Int
      <3>1. PICK n \in Nat : Run(sent[f].entries, sent[f].prev, n)
        BY DEF PInv, CallOK
      <3>2. sent[f].prev \in Nat /\ sent[f].commit \in Nat
        BY SMTT(30) DEF PInv, PTypes, Message
      <3>3. LastOf(sent[f]) = n
        BY SMTT(30), <3>1, <3>2, LastOfRun DEF PInv, PTypes
      <3> QED BY <3>2, <3>3 DEF CommitOf
    <2>3. \/ committed' = committed
          \/ committed' = [committed EXCEPT ![f] = Larger(committed[f], CommitOf(sent[f]))]
      BY <1>4 DEF Handle, save_committed
    <2> HIDE DEF CommitOf
    <2> QED BY <1>1, <2>1, <2>2, <2>3 DEF Larger
  <1> QED
    BY SMTT(30), <1>2, <1>3, <1>4
    DEF Next, vars, storeVars, ClientWrite, Purge, Start, Lock, Lookup, Connect,
        Insert, Answered, Unreachable, Lost, Cut, Heal

\* For any number of followers, any batch size and any faults, what the leader
\* committed is one log that only grows, and append_entries hands a growing
\* prefix of it to every follower.
THEOREM ReplicationImplementsAgreedLog == Spec => CommitsInOrder
  <1>1. ASSUME Init PROVE Agreed!AgreedInit
    <2>1. Upto(0) = <<>>
      BY DEF Upto
    <2>2. \A r \in Replica : committed[r] = 0
      BY <1>1 DEF Init
    <2> QED BY <2>1, <2>2, ReplicasFinite DEF Agreed!AgreedInit
  <1>2. ASSUME PInv, PInv', [Next]_vars
        PROVE  [Agreed!AgreedNext]_(Agreed!agreedVars)
    <2>1. \A r \in Replica : /\ committed[r] \in Nat /\ committed'[r] \in Nat
                             /\ committed[r] <= committed'[r]
      BY SMTT(30), <1>2, CommitsGrow DEF PInv, PTypes
    <2>2. \A r \in Replica : committed'[r] <= committed'[Leader]
      BY <1>2 DEF PInv, StoreOK
    <2>3. Leader \in Replica
      BY ReplicasFinite
    <2>4. Agreed!Choose
      BY SMTT(30), <2>1, <2>3, UptoFacts DEF Agreed!Choose
    <2>5. ASSUME NEW r \in Replica
          PROVE  /\ Agreed!Prefix(Upto(committed[r]), Upto(committed'[r]))
                 /\ Agreed!Prefix(Upto(committed'[r]), Upto(committed'[Leader]))
      BY SMTT(30), <2>1, <2>2, <2>3, UptoFacts
    <2>6. Agreed!Learn
      BY <2>5 DEF Agreed!Learn
    <2> QED BY SMTT(30), <2>4, <2>6 DEF Agreed!AgreedNext
  <1> QED BY <1>1, <1>2, ReplicationInvariance, PTL
         DEF Spec, CommitsInOrder, Agreed!AgreedSpec

-----------------------------------------------------------------------------
(* Followers that are left behind *)

\* A follower stays where it is.
StaysPut(f) == get_log_state(f)' = get_log_state(f) /\ LeftBehind(f)'

LEMMA SameLogStaysPut ==
    ASSUME NEW f \in Follower, LeftBehind(f),
           log'[f] = log[f], UNCHANGED last_purged,
           sent'[f] = sent[f] \/ sent'[f].entries = {}
    PROVE  StaysPut(f)
  <1>1. get_log_state(f)' = get_log_state(f)
    BY SMTT(30) DEF get_log_state
  <1> QED BY <1>1 DEF LeftBehind, StaysPut

\* Purging shortens no log: the follower stays, and what it needs stays purged.
LEMMA PurgeStaysPut ==
    ASSUME PInv, PInv', NEW r \in Replica, NEW i \in 1..MaxIndex, Purge(r, i),
           NEW f \in Follower, LeftBehind(f)
    PROVE  StaysPut(f)
  <1>1. /\ log' = [log EXCEPT ![r] = {j \in log[r] : j > i}]
        /\ last_purged' = [last_purged EXCEPT ![r] = i]
        /\ last_purged[r] < i /\ i <= committed[r] /\ sent' = sent
    BY DEF Purge, purge, callVars
  <1>2. i \in Nat /\ f \in Replica /\ Leader \in Replica
    BY BoundAssumption, ReplicasFinite
  <1>3. get_log_state(f)' = get_log_state(f)
    <2>1. CASE f = r
      <3> DEFINE g == get_log_state(r)
      <3>1. /\ g \in Nat /\ last_purged[r] \in Nat /\ committed[r] \in Nat
            /\ committed[r] <= g /\ log[r] = last_purged[r] + 1..g
        BY SMTT(30), StoreFacts
      <3> HIDE DEF g
      <3>2. log'[r] = {j \in last_purged[r] + 1..g : j > i} /\ last_purged'[r] = i
        BY <1>1, <3>1 DEF PInv, PTypes
      <3>3. Run(log'[r], last_purged'[r], g)
        <4>1. {j \in last_purged[r] + 1..g : j > i} = i + 1..g
          BY <1>1, <1>2, <3>1, RestOfRun
        <4>2. log'[r] = i + 1..g /\ last_purged'[r] = i
          BY Zenon, <3>2, <4>1
        <4>3. i <= g
          BY SMTT(30), <1>1, <1>2, <3>1
        <4> QED BY ZenonT(60), <3>1, <4>2, <4>3 DEF Run
      <3>4. get_log_state(r)' = g
        BY SMTT(30), <3>1, <3>3, StoreRunNext DEF PInv
      <3> QED BY SMTT(30), <2>1, <3>4 DEF g
    <2>2. CASE f # r
      <3>1. log'[f] = log[f] /\ last_purged'[f] = last_purged[f]
        BY SMTT(30), <1>1, <1>2, <2>2 DEF PInv, PTypes
      <3> QED BY <3>1 DEF get_log_state
    <2> QED BY <2>1, <2>2
  <1>4. /\ last_purged[Leader] \in Nat /\ last_purged'[Leader] \in Nat
        /\ last_purged[Leader] <= last_purged'[Leader]
    BY SMTT(30), <1>1, <1>2 DEF PInv, PTypes
  <1>5. get_log_state(f) \in Nat
    BY SMTT(30), <1>2, StoreFacts
  <1> QED BY SMTT(30), <1>1, <1>3, <1>4, <1>5 DEF LeftBehind, StaysPut

\* A call that is handled brings nothing: it is a heartbeat, or a conflict for
\* which there is no snapshot.
LEMMA HandleStaysPut ==
    ASSUME PInv, NEW h \in Follower, Handle(h), End(h), UNCHANGED last_purged,
           NEW f \in Follower, LeftBehind(f)
    PROVE  StaysPut(f)
  <1>1. sent'[f] = sent[f] \/ sent'[f].entries = {}
    BY DEF End, Nothing, PInv, PTypes
  <1>2. log'[f] = log[f]
    <2>1. log \in [Replica -> SUBSET Nat] /\ f \in Replica /\ h \in Replica
      BY SMTT(30), ReplicasFinite DEF PInv, PTypes
    <2>2. CASE f # h
      BY SMTT(30), <2>1, <2>2 DEF Handle, append
    <2>3. CASE f = h /\ sent[f].entries = {}
      BY SMTT(30), <2>1, <2>3 DEF Handle, append
    <2>4. CASE f = h /\ get_log_state(f) < sent[f].prev
      <3>1. get_log_state(f) \in Nat /\ sent[f].prev \in Nat
        BY <2>1, StoreFacts DEF PInv, PTypes, Message
      <3>2. ~Accepts(f, sent[f])
        BY <2>4, <3>1 DEF Accepts, get_current_snapshot
      <3> QED BY SMTT(30), <2>4, <3>2 DEF Handle
    <2> QED BY <2>2, <2>3, <2>4 DEF LeftBehind
  <1> QED BY SMTT(30), <1>1, <1>2, SameLogStaysPut

LEMMA LeftBehindStaysPut ==
    ASSUME PInv, PInv', [Next]_vars, NEW f \in Follower, LeftBehind(f)
    PROVE  StaysPut(f)
  <1>1. ASSUME UNCHANGED <<log, last_purged, sent>> PROVE StaysPut(f)
    BY SMTT(30), <1>1, SameLogStaysPut
  <1>2. CASE ClientWrite
    <2>1. log'[f] = log[f]
      BY SMTT(30), <1>2, ReplicaAssumption, ReplicasFinite DEF ClientWrite, append, PInv, PTypes
    <2> QED BY SMTT(30), <1>2, <2>1, SameLogStaysPut DEF ClientWrite, callVars
  <1>3. ASSUME NEW i \in 1..MaxIndex, Commit(i) PROVE StaysPut(f)
    BY <1>1, <1>3 DEF Commit, callVars
  <1>4. ASSUME NEW r \in Replica, NEW i \in 1..MaxIndex, Purge(r, i) PROVE StaysPut(f)
    BY <1>4, PurgeStaysPut
  <1>5. ASSUME NEW h \in Follower, Start(h) PROVE StaysPut(f)
    <2>1. UNCHANGED storeVars /\ sent' = [sent EXCEPT ![h] = Payload(h)]
      BY <1>5 DEF Start
    <2>2. CASE h # f
      <3>1. sent'[f] = sent[f]
        BY SMTT(30), <2>1, <2>2 DEF PInv, PTypes
      <3> QED BY SMTT(30), <2>1, <3>1, SameLogStaysPut DEF storeVars
    <2>3. CASE h = f
      <3>1. sent'[f].prev = Larger(matched[f], last_purged[Leader])
        BY SMTT(30), <2>1, <2>3 DEF PInv, PTypes, Payload
      <3>2. /\ matched[f] \in Nat /\ last_purged[Leader] \in Nat
            /\ get_log_state(f) \in Nat
        BY ZenonT(60), StoreFacts, ReplicasFinite DEF PInv, PTypes
      <3>3. get_log_state(f) < sent'[f].prev
        BY SMTT(30), <3>1, <3>2 DEF LeftBehind, Larger
      <3>4. get_log_state(f)' = get_log_state(f)
        BY SMTT(30), <2>1 DEF storeVars, get_log_state
      <3> QED BY SMTT(30), <2>1, <3>3, <3>4 DEF storeVars, LeftBehind, StaysPut
    <2> QED BY <2>2, <2>3
  <1>6. ASSUME NEW h \in Follower,
               Lock(h) \/ Lookup(h) \/ Connect(h) \/ Insert(h) \/ Cut(h) \/ Heal(h)
        PROVE  StaysPut(f)
    BY SMTT(30), <1>1, <1>6 DEF Lock, Lookup, Connect, Insert, Cut, Heal, callVars, storeVars
  <1>7. ASSUME NEW h \in Follower, End(h), UNCHANGED <<log, last_purged>>
        PROVE  StaysPut(f)
    <2>1. sent'[f] = sent[f] \/ sent'[f].entries = {}
      BY SMTT(30), <1>7 DEF End, Nothing, PInv, PTypes
    <2> QED BY SMTT(30), <1>7, <2>1, SameLogStaysPut
  <1>8. ASSUME NEW h \in Follower, Answered(h) \/ Unreachable(h) \/ Lost(h)
        PROVE  StaysPut(f)
    BY ZenonT(60), <1>7, <1>8, HandleStaysPut DEF Answered, Unreachable, Lost, storeVars
  <1>9. CASE UNCHANGED vars
    BY <1>1, <1>9 DEF vars, storeVars, callVars
  <1> QED BY SMTT(30), <1>2, <1>3, <1>4, <1>5, <1>6, <1>8, <1>9 DEF Next

\* Why LaggingCatchesUp fails, for a group of any size, any batch size and any
\* bounds: get_current_snapshot has nothing to offer, so a follower that is left
\* behind never takes over another entry, however often it is called.
THEOREM LeftBehindForGood ==
    Spec => [][\A f \in Follower : LeftBehind(f) => StaysPut(f)]_vars
  <1>1. ASSUME PInv, PInv', [Next]_vars
        PROVE  [\A f \in Follower : LeftBehind(f) => StaysPut(f)]_vars
    BY ZenonT(60), <1>1, LeftBehindStaysPut
  <1> QED BY <1>1, ReplicationInvariance, PTL DEF Spec

-----------------------------------------------------------------------------
(* Calls *)

\* A call starts no further on than what the follower confirmed or the leader
\* has purged by now.
CallFrom(f) ==
    /\ sent[f].prev <= Larger(matched[f], last_purged[Leader])
    /\ pc[f] = "idle" => sent[f] = Nothing

Label == {"idle", "begin", "lookup", "connect", "connected", "insert", "call"}

CInv == pc \in [Follower -> Label] /\ \A f \in Follower : CallFrom(f)

\* A call goes on, or there is none.
Keeps(f) ==
    /\ sent'[f] = sent[f] /\ matched'[f] = matched[f]
    /\ pc'[f] = "idle" => pc[f] = "idle"

LEMMA GotoFacts ==
    ASSUME CInv, NEW h \in Follower, NEW label \in Label, Goto(h, label)
    PROVE  /\ pc' \in [Follower -> Label] /\ pc'[h] = label
           /\ \A f \in Follower : f # h => pc'[f] = pc[f]
  BY Zenon DEF CInv, Goto

LEMMA EndFacts ==
    ASSUME PInv, CInv, NEW h \in Follower, End(h)
    PROVE  /\ pc' \in [Follower -> Label] /\ pc'[h] = "idle" /\ sent'[h] = Nothing
           /\ \A f \in Follower : f # h => pc'[f] = pc[f] /\ sent'[f] = sent[f]
  <1>1. Goto(h, "idle") /\ sent' = [sent EXCEPT ![h] = Nothing]
    BY DEF End
  <1>2. sent \in [Follower -> Message]
    BY DEF PInv, PTypes
  <1>3. /\ sent'[h] = Nothing
        /\ \A f \in Follower : f # h => sent'[f] = sent[f]
    BY Zenon, <1>1, <1>2
  <1>4. "idle" \in Label
    BY Zenon DEF Label
  <1> QED BY Zenon, <1>1, <1>3, <1>4, GotoFacts

LEMMA ConfirmFacts ==
    ASSUME PInv, NEW h \in Follower, Confirm(h)
    PROVE  /\ matched'[h] = Larger(matched[h], LastOf(sent[h]))
           /\ \A f \in Follower : f # h => matched'[f] = matched[f]
  <1>1. matched \in [Follower -> Nat]
    BY DEF PInv, PTypes
  <1> QED BY <1>1 DEF Confirm

\* What a step may do to the call to a follower.
LEMMA CallSteps ==
    ASSUME PInv, CInv, [Next]_vars, NEW f \in Follower
    PROVE  /\ pc' \in [Follower -> Label]
           /\ Keeps(f) \/ Start(f) \/ Answered(f) \/ Unreachable(f) \/ Lost(f)
  <1> DEFINE Goal == /\ pc' \in [Follower -> Label]
                     /\ Keeps(f) \/ Start(f) \/ Answered(f) \/ Unreachable(f) \/ Lost(f)
  <1>0. pc \in [Follower -> Label] /\ sent \in [Follower -> Message]
    BY DEF PInv, PTypes, CInv
  <1>1. ASSUME UNCHANGED <<pc, sent, matched>> PROVE Goal
    BY <1>0, <1>1 DEF Keeps
  <1>2. CASE \/ ClientWrite
             \/ \E i \in 1..MaxIndex : Commit(i)
             \/ \E r \in Replica, i \in 1..MaxIndex : Purge(r, i)
             \/ \E h \in Follower : Cut(h) \/ Heal(h)
             \/ UNCHANGED vars
    BY Zenon, <1>1, <1>2 DEF ClientWrite, Commit, Purge, Cut, Heal, vars, callVars
  <1>3. ASSUME NEW h \in Follower, Start(h) PROVE Goal
    <2>0. /\ Goto(h, "begin") /\ "begin" \in Label
          /\ sent' = [sent EXCEPT ![h] = Payload(h)] /\ matched' = matched
      BY Zenon, <1>3 DEF Start, Label
    <2>1. pc' \in [Follower -> Label] /\ (f # h => pc'[f] = pc[f])
      BY Zenon, <2>0, GotoFacts
    <2>2. f # h => sent'[f] = sent[f] /\ matched'[f] = matched[f]
      BY ZenonT(60), <1>0, <2>0
    <2> QED BY Zenon, <1>3, <2>1, <2>2 DEF Keeps
  <1>4. ASSUME NEW h \in Follower, NEW label \in Label, label # "idle",
               Goto(h, label), UNCHANGED <<sent, matched>>
        PROVE  Goal
    <2>1. /\ pc' \in [Follower -> Label] /\ pc'[h] = label
          /\ f # h => pc'[f] = pc[f]
      BY <1>4, GotoFacts
    <2> QED BY <1>4, <2>1 DEF Keeps
  <1>5. ASSUME NEW h \in Follower, Lock(h) \/ Lookup(h) \/ Connect(h) \/ Insert(h)
        PROVE  Goal
    <2>1. UNCHANGED <<sent, matched>>
      BY Zenon, <1>5 DEF Lock, Lookup, Connect, Insert
    <2>2. \/ Goto(h, "lookup") \/ Goto(h, "insert") \/ Goto(h, "connected")
          \/ Goto(h, "call") \/ Goto(h, "connect")
      BY Zenon, <1>5 DEF Lock, Lookup, Connect, Insert
    <2>3. PICK label \in Label : label # "idle" /\ Goto(h, label)
      BY Zenon, <2>2 DEF Label
    <2> QED BY Zenon, <1>4, <2>1, <2>3
  <1>6. ASSUME NEW h \in Follower, Answered(h) \/ Unreachable(h) \/ Lost(h) PROVE Goal
    <2>1. End(h)
      BY Zenon, <1>6 DEF Answered, Unreachable, Lost
    <2>2. matched' = matched \/ Confirm(h)
      BY Zenon, <1>6 DEF Answered, Unreachable, Lost, Error
    <2>3. f # h => /\ sent'[f] = sent[f] /\ matched'[f] = matched[f]
                   /\ pc'[f] = pc[f]
      BY ZenonT(60), <2>1, <2>2, EndFacts, ConfirmFacts
    <2>4. pc' \in [Follower -> Label]
      BY <2>1, EndFacts
    <2> QED BY ZenonT(60), <1>6, <2>3, <2>4 DEF Keeps
  <1> QED BY ZenonT(60), <1>2, <1>3, <1>5, <1>6 DEF Next

\* The leader never takes a purge back.
LEMMA PurgedGrows ==
    ASSUME PInv, [Next]_vars
    PROVE  /\ last_purged[Leader] \in Nat
           /\ last_purged[Leader] <= last_purged'[Leader]
  <1>1. last_purged \in [Replica -> Nat] /\ Leader \in Replica
    BY ReplicasFinite DEF PInv, PTypes
  <1>2. CASE \E r \in Replica, i \in 1..MaxIndex : Purge(r, i)
    <2>1. PICK r \in Replica, i \in 1..MaxIndex : Purge(r, i)
      BY <1>2
    <2>2. last_purged' = [last_purged EXCEPT ![r] = i] /\ last_purged[r] < i
      BY <2>1 DEF Purge, purge
    <2>3. i \in Nat
      BY BoundAssumption
    <2> QED BY <1>1, <2>2, <2>3
  <1>3. CASE UNCHANGED last_purged
    BY <1>1, <1>3
  <1>4. (\E r \in Replica, i \in 1..MaxIndex : Purge(r, i)) \/ UNCHANGED last_purged
    BY Zenon DEF Next, ClientWrite, Commit, Start, Lock, Lookup, Connect, Insert,
        Answered, Unreachable, Lost, Cut, Heal, vars, storeVars
  <1> QED BY <1>2, <1>3, <1>4

LEMMA CInitOK == Init => CInv
  <1> SUFFICES ASSUME Init PROVE CInv
    OBVIOUS
  <1>1. pc = [f \in Follower |-> "idle"]
    BY DEF Init
  <1>2. pc \in [Follower -> Label]
    BY ZenonT(60), <1>1 DEF Label
  <1>3. ASSUME NEW f \in Follower PROVE CallFrom(f)
    <2>1. sent[f] = Nothing /\ matched[f] = 0 /\ last_purged[Leader] = 0
      BY ReplicasFinite DEF Init
    <2> QED BY <2>1 DEF CallFrom, Nothing, Larger
  <1> QED BY Zenon, <1>2, <1>3 DEF CInv

LEMMA CallFromKept ==
    ASSUME PInv, PInv', CInv, [Next]_vars, NEW f \in Follower
    PROVE  CallFrom(f)'
  <1>1. /\ matched[f] \in Nat /\ last_purged[Leader] \in Nat /\ sent[f].prev \in Nat
        /\ last_purged'[Leader] \in Nat /\ matched'[f] \in Nat
    BY SMTT(30), ReplicasFinite DEF PInv, PTypes, Message
  <1>2. last_purged[Leader] <= last_purged'[Leader]
    BY PurgedGrows
  <1>3. CASE Keeps(f)
    <2>1. sent[f].prev <= Larger(matched[f], last_purged[Leader])
      BY DEF CInv, CallFrom
    <2>2. sent[f].prev <= Larger(matched[f], last_purged'[Leader])
      BY <1>1, <1>2, <2>1 DEF Larger
    <2>3. pc'[f] = "idle" => sent'[f] = Nothing
      BY Zenon, <1>3 DEF Keeps, CInv, CallFrom
    <2> QED BY SMTT(30), <1>3, <2>2, <2>3 DEF Keeps, CallFrom
  <1>4. CASE Start(f)
    <2>1. /\ sent' = [sent EXCEPT ![f] = Payload(f)] /\ matched' = matched
          /\ last_purged' = last_purged /\ Goto(f, "begin")
      BY ZenonT(60), <1>4 DEF Start, storeVars
    <2>2. sent'[f].prev = Larger(matched[f], last_purged[Leader])
      BY <2>1 DEF PInv, PTypes, Payload
    <2>3. "begin" \in Label /\ "begin" # "idle"
      BY Zenon DEF Label
    <2>4. pc'[f] # "idle"
      BY ZenonT(60), <2>1, <2>3, GotoFacts
    <2>5. Larger(matched[f], last_purged[Leader]) \in Nat
      BY <1>1 DEF Larger
    <2>6. sent'[f].prev <= Larger(matched'[f], last_purged'[Leader])
      BY SMTT(30), <2>1, <2>2, <2>5
    <2> QED BY Zenon, <2>4, <2>6 DEF CallFrom
  <1>5. CASE Answered(f) \/ Unreachable(f) \/ Lost(f)
    <2>1. End(f)
      BY Zenon, <1>5 DEF Answered, Unreachable, Lost
    <2>2. sent'[f] = Nothing
      BY Zenon, <2>1, EndFacts
    <2> QED BY <1>1, <2>2 DEF CallFrom, Nothing, Larger
  <1> QED BY ZenonT(60), <1>3, <1>4, <1>5, CallSteps

LEMMA CNextOK == PInv /\ PInv' /\ CInv /\ [Next]_vars => CInv'
  <1> SUFFICES ASSUME PInv, PInv', CInv, [Next]_vars PROVE CInv'
    OBVIOUS
  <1>1. pc' \in [Follower -> Label]
    <2>1. CASE Follower = {}
      <3>1. pc' = pc
        BY Zenon, <2>1 DEF Next, ClientWrite, Commit, Purge, vars, callVars
      <3> QED BY Zenon, <3>1 DEF CInv
    <2>2. CASE Follower # {}
      BY Zenon, <2>2, CallSteps
    <2> QED BY <2>1, <2>2
  <1> QED BY Zenon, <1>1, CallFromKept DEF CInv

\* The invariant of the calls: a call starts no further than what its follower
\* has confirmed or the leader has purged, and nothing is left of one that ended.
THEOREM CallInvariance == Spec => []CInv
  <1> QED BY CInitOK, CNextOK, ReplicationInvariance, PTL DEF Spec

LEMMA ConflictLeavesBehind ==
    ASSUME PInv, CInv, NEW f \in Follower, ~Accepts(f, sent[f])
    PROVE  LeftBehind(f)
  <1>1. /\ get_log_state(f) \in Nat /\ matched[f] \in Nat /\ sent[f].prev \in Nat
        /\ last_purged[Leader] \in Nat
    BY SMTT(30), ReplicasFinite, StoreFacts DEF PInv, PTypes, Message
  <1>2. matched[f] <= get_log_state(f)
    BY SMTT(30) DEF PInv, MatchedOK
  <1>3. sent[f].prev <= Larger(matched[f], last_purged[Leader])
    BY DEF CInv, CallFrom
  <1>4. get_log_state(f) < sent[f].prev
    BY <1>1 DEF Accepts, get_current_snapshot
  <1>5. get_log_state(f) < last_purged[Leader]
    BY <1>1, <1>2, <1>3, <1>4 DEF Larger
  <1> QED BY SMTT(30), <1>4, <1>5 DEF LeftBehind

\* A follower refuses a call only because the leader has purged what it needs
\* next, never because of a call that was lost, repeated or overtaken; and as
\* there is no snapshot to fall back to, it takes over nothing from then on.
THEOREM ConflictsAreFinal ==
    Spec => [][\A f \in Follower :
                   ~Accepts(f, sent[f]) => LeftBehind(f) /\ StaysPut(f)]_vars
  <1>1. ASSUME PInv, PInv', CInv, [Next]_vars
        PROVE  [\A f \in Follower :
                    ~Accepts(f, sent[f]) => LeftBehind(f) /\ StaysPut(f)]_vars
    BY ZenonT(60), <1>1, ConflictLeavesBehind, LeftBehindStaysPut
  <1> QED BY <1>1, ReplicationInvariance, CallInvariance, PTL DEF Spec

LEMMA StartIsAhead ==
    ASSUME PInv, PInv', NEW f \in Follower, Start(f),
           matched[f] < get_log_state(Leader)
    PROVE  Ahead(f)'
  <1> DEFINE p == last_purged[Leader]
             g == get_log_state(Leader)
             q == Larger(matched[f], p)
             m == sent'[f]
  <1>1. sent' = [sent EXCEPT ![f] = Payload(f)] /\ matched' = matched
    BY ZenonT(60) DEF Start
  <1>2. g \in Nat /\ p \in Nat /\ log[Leader] = p + 1..g
    BY StoreFacts, ReplicasFinite
  <1>3. matched[f] \in Nat /\ m \in Message
    BY DEF PInv, PTypes
  <1>4. m = Payload(f)
    BY <1>1 DEF PInv, PTypes
  <1>5. /\ m.prev = q
        /\ m.entries = {i \in p + 1..g : q + 1 <= i /\ i <= q + max_payload_entries}
    <2>1. /\ Payload(f).prev = q
          /\ Payload(f).entries = try_get_log_entries(Leader, q + 1, q + max_payload_entries)
      BY DEF Payload
    <2>2. try_get_log_entries(Leader, q + 1, q + max_payload_entries)
              = {i \in p + 1..g : q + 1 <= i /\ i <= q + max_payload_entries}
      BY ZenonT(60), <1>2 DEF try_get_log_entries
    <2> QED BY ZenonT(60), <1>4, <2>1, <2>2
  <1>6. PICK n \in Nat : Run(m.entries, m.prev, n)
    BY ZenonT(60) DEF PInv, CallOK
  <1>7. LastOf(m) = n /\ m.prev <= n /\ m.entries = m.prev + 1..n
    BY SMTT(30), <1>3, <1>6, LastOfRun
  <1> HIDE DEF m, p, g
  <1>8. matched[f] < n
    <2>1. CASE matched[f] < p
      BY SMTT(30), <1>2, <1>3, <1>5, <1>7, <2>1 DEF Larger
    <2>2. CASE p <= matched[f]
      <3>1. q = matched[f]
        BY SMTT(30), <1>2, <1>3, <2>2 DEF Larger
      <3> HIDE DEF q
      <3>2. q + 1 \in p + 1..g
        BY <1>2, <1>3, <2>2, <3>1 DEF g
      <3>3. q + 1 <= q + max_payload_entries
        BY SMTT(30), <1>3, <3>1, BoundAssumption
      <3>4. q + 1 \in q + 1..n
        BY SMTT(30), <1>5, <1>7, <3>2, <3>3
      <3> QED BY SMTT(30), <1>3, <3>1, <3>4
    <2> QED BY SMTT(30), <1>2, <1>3, <2>1, <2>2
  <1> QED BY SMTT(30), <1>1, <1>7, <1>8 DEF Ahead, m

LEMMA AnswerConfirms ==
    ASSUME PInv, PInv', CInv, [Next]_vars, NEW f \in Follower, Answered(f), Ahead(f)
    PROVE  matched'[f] = LastOf(sent[f]) \/ LeftBehind(f)'
  <1>1. CASE Accepts(f, sent[f])
    <2>1. Confirm(f)
      BY Zenon, <1>1 DEF Answered
    <2> QED BY <2>1, ConfirmFacts DEF Ahead, Larger
  <1>2. CASE ~Accepts(f, sent[f])
    BY Zenon, <1>2, ConflictLeavesBehind, LeftBehindStaysPut DEF StaysPut
  <1> QED BY SMTT(30), <1>1, <1>2

\* What FollowersCatchUp rests on besides fairness, for any number of followers,
\* any batch size and any faults: no answered call is in vain. Heartbeats and
\* purged entries included, a call to a follower that has not confirmed all of
\* the leader's log raises what it has confirmed, or the follower is left behind
\* for good.
THEOREM CallsMakeProgressAlways == Spec => CallsMakeProgress
  <1>1. ASSUME PInv, PInv', CInv, [Next]_vars, NEW f \in Follower
        PROVE  Progress(f)
    <2>1. Start(f) /\ matched[f] < get_log_state(Leader) => Ahead(f)'
      BY Zenon, <1>1, StartIsAhead
    <2>2. ASSUME Ahead(f)
          PROVE  \/ Ahead(f)'
                 \/ Answered(f) /\ (matched'[f] = LastOf(sent[f]) \/ LeftBehind(f)')
                 \/ Unreachable(f) \/ Lost(f)
      <3>1. CASE Keeps(f)
        BY ZenonT(60), <2>2, <3>1 DEF Keeps, Ahead, LastOf
      <3>2. ~Start(f)
        <4>1. pc[f] = "idle" => sent[f] = Nothing
          BY Zenon, <1>1 DEF CInv, CallFrom
        <4>2. sent[f] # Nothing
          <5>1. LastOf(Nothing) = 0
            BY DEF LastOf, Nothing
          <5>2. matched[f] \in Nat
            BY <1>1 DEF PInv, PTypes
          <5> QED BY SMTT(30), <2>2, <5>1, <5>2 DEF Ahead
        <4> QED BY Zenon, <4>1, <4>2 DEF Start
      <3> QED BY ZenonT(60), <1>1, <2>2, <3>1, <3>2, CallSteps, AnswerConfirms
    <2> QED BY Zenon, <2>1, <2>2 DEF Progress
  <1>2. ASSUME PInv, PInv', CInv, [Next]_vars
        PROVE  [\A f \in Follower : Progress(f)]_vars
    BY Zenon, <1>1, <1>2
  <1> QED BY <1>2, ReplicationInvariance, CallInvariance, PTL DEF Spec, CallsMakeProgress
=============================================================================
