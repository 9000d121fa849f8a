------------------------- MODULE LeaderRetryProofs --------------------------
(***************************************************************************)
(* Proofs about LeaderRetry for any number of replicas and of requests at  *)
(* a time: the types, that a call that returns Ok was carried out, and how *)
(* many attempts a call needs that nothing disturbs and no leader refuses. *)
(***************************************************************************)
EXTENDS LeaderRetry, FiniteSetTheorems, TLAPS

\* Following stays on the list and wraps around at its end.
LEMMA FollowingFacts ==
    ASSUME NEW i \in Idx
    PROVE  /\ Following(i) \in Idx
           /\ Following(i) = IF i + 1 = replica_count THEN 0 ELSE i + 1
  BY CountAssumption DEF Following, Idx

\* leader_hint is an index of the list, which % replica_count leaves alone.
LEMMA HintFacts ==
    ASSUME NEW i \in Idx
    PROVE  i % replica_count = i
  BY CountAssumption DEF Idx

\* What a call that is not running leaves behind, and whose replies are Served.
CallOK(c) ==
    /\ tries[c] < MAX_LEADER_ATTEMPTS
    /\ pc[c] # "sent" => tries[c] = 0 /\ reply[c] = None
    /\ reply[c] = Served \/ pc[c] = "ok" => c \in executed

CallTypes ==
    /\ leader_hint \in Idx
    /\ pc \in [Call -> {"idle", "sent", "ok", "err"}]
    /\ idx \in [Call -> Idx]
    /\ tries \in [Call -> 0..MAX_LEADER_ATTEMPTS]
    /\ reply \in [Call -> Idx \cup {Served, Failed, None}]
    /\ executed \subseteq Call

ShardTypes ==
    /\ listed \subseteq Idx
    /\ leads \in (Idx \ down) \cup {None}
    /\ believes \in [Idx -> Idx \cup {None}]
    /\ down \subseteq Idx
    /\ faults \in 0..MaxFaults

LInv ==
    /\ CallTypes /\ ShardTypes /\ smooth \in [Call -> BOOLEAN]
    /\ \A c \in Call : CallOK(c)

\* Every redirect leads to a replica of the list.
LEMMA PositionFacts ==
    ASSUME ShardTypes, NEW i \in Idx, NEW hint
    PROVE  position_or_next(hint, i) \in Idx
  BY FollowingFacts DEF position_or_next, ShardTypes

\* End, for the call that takes the step and for the others.
LEMMA EndStep ==
    ASSUME CallTypes, NEW c \in Call, NEW how \in {"idle", "ok", "err"},
           End(c, how)
    PROVE  /\ pc' \in [Call -> {"idle", "sent", "ok", "err"}]
           /\ idx' \in [Call -> Idx]
           /\ tries' \in [Call -> 0..MAX_LEADER_ATTEMPTS]
           /\ reply' \in [Call -> Idx \cup {Served, Failed, None}]
           /\ pc'[c] = how /\ tries'[c] = 0 /\ reply'[c] = None
           /\ \A d \in Call \ {c} :
                  /\ pc'[d] = pc[d] /\ tries'[d] = tries[d] /\ reply'[d] = reply[d]
                  /\ idx'[d] = idx[d]
  <1>1. 0 \in Idx /\ 0 \in 0..MAX_LEADER_ATTEMPTS
    BY CountAssumption DEF Idx
  <1>2. /\ pc' = [pc EXCEPT ![c] = how] /\ idx' = [idx EXCEPT ![c] = 0]
        /\ tries' = [tries EXCEPT ![c] = 0] /\ reply' = [reply EXCEPT ![c] = None]
    BY DEF End
  <1>3. pc' \in [Call -> {"idle", "sent", "ok", "err"}] /\ pc'[c] = how
           /\ \A d \in Call \ {c} : pc'[d] = pc[d]
    BY <1>2 DEF CallTypes
  <1>4. idx' \in [Call -> Idx] /\ \A d \in Call \ {c} : idx'[d] = idx[d]
    BY <1>1, <1>2 DEF CallTypes
  <1>5. tries' \in [Call -> 0..MAX_LEADER_ATTEMPTS] /\ tries'[c] = 0
           /\ \A d \in Call \ {c} : tries'[d] = tries[d]
    BY <1>1, <1>2 DEF CallTypes
  <1>6. reply' \in [Call -> Idx \cup {Served, Failed, None}] /\ reply'[c] = None
           /\ \A d \in Call \ {c} : reply'[d] = reply[d]
    BY <1>2 DEF CallTypes
  <1> QED BY <1>3, <1>4, <1>5, <1>6

\* GiveUp, for the call that takes the step and for the others.
LEMMA GiveUpStep ==
    ASSUME CallTypes, NEW c \in Call, NEW next \in Idx, CallOK(c), pc[c] = "sent",
           GiveUp(c, next)
    PROVE  /\ CallTypes' /\ CallOK(c)'
           /\ \A d \in Call \ {c} :
                  /\ pc'[d] = pc[d] /\ tries'[d] = tries[d] /\ reply'[d] = reply[d]
                  /\ idx'[d] = idx[d]
           /\ executed' = executed \ {c} /\ reply'[c] = None
           /\ \/ pc'[c] = "err" /\ tries[c] + 1 = MAX_LEADER_ATTEMPTS
              \/ pc'[c] = "sent" /\ tries'[c] = tries[c] + 1 /\ idx'[c] = next
  <1>0. leader_hint' = next /\ executed' = executed \ {c}
    BY DEF GiveUp, Remember
  <1>1. CASE tries[c] + 1 = MAX_LEADER_ATTEMPTS
    <2>1. End(c, "err")
      BY <1>1 DEF GiveUp
    <2>2. /\ pc' \in [Call -> {"idle", "sent", "ok", "err"}]
          /\ idx' \in [Call -> Idx]
          /\ tries' \in [Call -> 0..MAX_LEADER_ATTEMPTS]
          /\ reply' \in [Call -> Idx \cup {Served, Failed, None}]
          /\ pc'[c] = "err" /\ tries'[c] = 0 /\ reply'[c] = None
          /\ \A d \in Call \ {c} :
                 /\ pc'[d] = pc[d] /\ tries'[d] = tries[d] /\ reply'[d] = reply[d]
                 /\ idx'[d] = idx[d]
      BY <2>1, EndStep
    <2>3. CallTypes'
      BY <1>0, <2>2 DEF CallTypes
    <2>4. CallOK(c)'
      BY <2>2, CountAssumption, ReplyAssumption DEF CallOK
    <2> QED BY <1>0, <1>1, <2>2, <2>3, <2>4
  <1>2. CASE tries[c] + 1 # MAX_LEADER_ATTEMPTS
    <2>1. /\ idx' = [idx EXCEPT ![c] = next] /\ tries' = [tries EXCEPT ![c] = @ + 1]
          /\ reply' = [reply EXCEPT ![c] = None] /\ pc' = pc
      BY <1>2 DEF GiveUp
    <2>2. tries[c] + 1 \in 0..MAX_LEADER_ATTEMPTS /\ tries[c] + 1 < MAX_LEADER_ATTEMPTS
      BY <1>2, CountAssumption DEF CallTypes, CallOK
    <2>3. tries' \in [Call -> 0..MAX_LEADER_ATTEMPTS] /\ tries'[c] = tries[c] + 1
             /\ \A d \in Call \ {c} : tries'[d] = tries[d]
      BY <2>1, <2>2 DEF CallTypes
    <2>4. idx' \in [Call -> Idx] /\ idx'[c] = next
             /\ \A d \in Call \ {c} : idx'[d] = idx[d]
      BY <2>1 DEF CallTypes
    <2>5. reply' \in [Call -> Idx \cup {Served, Failed, None}] /\ reply'[c] = None
             /\ \A d \in Call \ {c} : reply'[d] = reply[d]
      BY <2>1 DEF CallTypes
    <2>6. CallTypes'
      BY <1>0, <2>1, <2>3, <2>4, <2>5 DEF CallTypes
    <2>7. CallOK(c)'
      BY <2>1, <2>2, <2>3, <2>5, ReplyAssumption DEF CallOK
    <2> QED BY <1>0, <2>1, <2>3, <2>4, <2>5, <2>6, <2>7
  <1> QED BY <1>1, <1>2

\* A step that changes the variables of one call keeps CallOK of the others.
LEMMA OthersOK ==
    ASSUME LInv, NEW c \in Call, CallOK(c)',
           \A d \in Call \ {c} :
               pc'[d] = pc[d] /\ tries'[d] = tries[d] /\ reply'[d] = reply[d],
           executed \ {c} \subseteq executed'
    PROVE  \A d \in Call : CallOK(d)'
  <1> SUFFICES ASSUME NEW d \in Call, d # c PROVE CallOK(d)'
    OBVIOUS
  <1> QED BY DEF LInv, CallOK

\* Before the first request.
LEMMA InitLInv == Init => LInv
  <1> SUFFICES ASSUME Init PROVE LInv
    OBVIOUS
  <1>1. 0 \in Idx /\ 0 \in 0..MAX_LEADER_ATTEMPTS /\ 0 \in 0..MaxFaults
           /\ 0 < MAX_LEADER_ATTEMPTS
    BY CountAssumption DEF Idx
  <1>2. CallTypes
    BY <1>1 DEF Init, CallTypes
  <1>3. ShardTypes
    BY <1>1 DEF Init, ShardTypes
  <1>4. ASSUME NEW c \in Call PROVE CallOK(c)
    BY <1>1, ReplyAssumption DEF Init, CallOK
  <1>5. smooth \in [Call -> BOOLEAN]
    BY DEF Init
  <1> QED BY <1>2, <1>3, <1>4, <1>5 DEF LInv

\* A fault counts and disturbs every call that runs.
LEMMA DisturbTypes ==
    ASSUME ShardTypes, Disturb
    PROVE  faults' \in 0..MaxFaults /\ smooth' \in [Call -> BOOLEAN]
  <1>1. faults' \in 0..MaxFaults
    BY CountAssumption DEF ShardTypes, Disturb
  <1>2. smooth' \in [Call -> BOOLEAN]
    BY DEF Disturb
  <1> QED BY <1>1, <1>2

\* Every step keeps the types and what is known of every call.
LEMMA NextLInv == LInv /\ [Next]_vars => LInv'
  <1> SUFFICES ASSUME LInv, [Next]_vars PROVE LInv'
    OBVIOUS
  <1>0. CallTypes /\ ShardTypes /\ smooth \in [Call -> BOOLEAN]
          /\ \A c \in Call : CallOK(c)
    BY DEF LInv
  <1>1. ASSUME NEW c \in Call, Begin(c) PROVE LInv'
    <2>1. /\ pc' = [pc EXCEPT ![c] = "sent"] /\ idx' = [idx EXCEPT ![c] = leader_hint]
          /\ UNCHANGED <<leader_hint, tries, reply>> /\ executed' = executed \ {c}
      BY Zenon, <1>0, <1>1, HintFacts DEF Begin, CallTypes
    <2>2. pc' \in [Call -> {"idle", "sent", "ok", "err"}] /\ pc'[c] = "sent"
             /\ \A d \in Call \ {c} : pc'[d] = pc[d]
      BY <1>0, <2>1 DEF CallTypes
    <2>3. CallTypes'
      BY <1>0, <2>1, <2>2 DEF CallTypes
    <2>4. CallOK(c)'
      BY <1>0, <1>1, <2>1, <2>2, ReplyAssumption DEF CallOK, Begin
    <2>5. smooth' \in [Call -> BOOLEAN]
      BY <1>0, <1>1 DEF Begin, Steady
    <2>6. ShardTypes'
      BY <1>0, <1>1 DEF ShardTypes, Begin, shardVars
    <2>7. \A d \in Call : CallOK(d)'
      BY <2>1, <2>2, <2>4, OthersOK
    <2> QED BY <2>3, <2>5, <2>6, <2>7 DEF LInv
  <1>2. ASSUME NEW c \in Call, NEW next \in Idx, pc[c] = "sent", GiveUp(c, next),
               ShardTypes', smooth' \in [Call -> BOOLEAN]
        PROVE  LInv'
    <2>1. /\ CallTypes' /\ CallOK(c)' /\ executed' = executed \ {c}
          /\ \A d \in Call \ {c} :
                 pc'[d] = pc[d] /\ tries'[d] = tries[d] /\ reply'[d] = reply[d]
      BY <1>0, <1>2, GiveUpStep
    <2>2. \A d \in Call : CallOK(d)'
      BY <2>1, OthersOK
    <2> QED BY <1>2, <2>1, <2>2 DEF LInv
  <1>3. ASSUME NEW c \in Call, Receive(c) PROVE LInv'
    <2>0. ShardTypes' /\ smooth' \in [Call -> BOOLEAN]
      <3>1. smooth' = smooth \/ smooth' = [smooth EXCEPT ![c] = TRUE]
        BY Zenon, <1>3 DEF Receive
      <3>2. smooth' \in [Call -> BOOLEAN]
        BY Zenon, <1>0, <3>1
      <3> QED BY <1>0, <1>3, <3>2 DEF Receive, ShardTypes, shardVars
    <2>1. CASE IsSuccess(c) /\ End(c, "ok") /\ leader_hint' = idx[c] /\ UNCHANGED executed
      <3>1. /\ pc' \in [Call -> {"idle", "sent", "ok", "err"}]
            /\ idx' \in [Call -> Idx]
            /\ tries' \in [Call -> 0..MAX_LEADER_ATTEMPTS]
            /\ reply' \in [Call -> Idx \cup {Served, Failed, None}]
            /\ pc'[c] = "ok" /\ tries'[c] = 0 /\ reply'[c] = None
            /\ \A d \in Call \ {c} :
                   /\ pc'[d] = pc[d] /\ tries'[d] = tries[d] /\ reply'[d] = reply[d]
                   /\ idx'[d] = idx[d]
        BY <1>0, <2>1, EndStep
      <3>2. CallTypes'
        BY <1>0, <2>1, <3>1 DEF CallTypes
      <3>3. CallOK(c)'
        BY <1>0, <2>1, <3>1, CountAssumption DEF CallOK, IsSuccess
      <3>4. \A d \in Call : CallOK(d)'
        BY <2>1, <3>1, <3>3, OthersOK
      <3> QED BY <2>0, <3>2, <3>4 DEF LInv
    <2>2. CASE GiveUp(c, position_or_next(reply[c], idx[c]))
      <3>1. position_or_next(reply[c], idx[c]) \in Idx
        BY <1>0, PositionFacts DEF CallTypes
      <3> QED BY <1>2, <1>3, <2>0, <2>2, <3>1 DEF Receive
    <2> QED BY <1>3, <2>1, <2>2 DEF Receive
  <1>4. ASSUME NEW c \in Call, Timeout(c) \/ Slow(c) PROVE LInv'
    <2>1. ShardTypes' /\ smooth' \in [Call -> BOOLEAN]
      <3>1. CASE Timeout(c)
        BY <1>0, <3>1 DEF Timeout, ShardTypes, shardVars
      <3>2. CASE Slow(c)
        BY <1>0, <3>2, DisturbTypes DEF Slow, ShardTypes
      <3> QED BY <1>4, <3>1, <3>2
    <2>2. Following(idx[c]) \in Idx
      BY <1>0, FollowingFacts DEF CallTypes
    <2> QED BY <1>2, <1>4, <2>1, <2>2 DEF Timeout, Slow
  <1>5. ASSUME NEW c \in Call, Cancel(c) PROVE LInv'
    <2>1. /\ pc' \in [Call -> {"idle", "sent", "ok", "err"}]
          /\ idx' \in [Call -> Idx]
          /\ tries' \in [Call -> 0..MAX_LEADER_ATTEMPTS]
          /\ reply' \in [Call -> Idx \cup {Served, Failed, None}]
          /\ pc'[c] = "idle" /\ tries'[c] = 0 /\ reply'[c] = None
          /\ \A d \in Call \ {c} :
                 /\ pc'[d] = pc[d] /\ tries'[d] = tries[d] /\ reply'[d] = reply[d]
                 /\ idx'[d] = idx[d]
      BY <1>0, <1>5, EndStep DEF Cancel
    <2>2. CallTypes' /\ executed' = executed \ {c}
      BY Zenon, <1>0, <1>5, <2>1 DEF CallTypes, Cancel
    <2>3. CallOK(c)'
      BY <2>1, CountAssumption, ReplyAssumption DEF CallOK
    <2>4. \A d \in Call : CallOK(d)'
      BY <2>1, <2>2, <2>3, OthersOK
    <2>5. ShardTypes' /\ smooth' \in [Call -> BOOLEAN]
      BY <1>0, <1>5 DEF Cancel, ShardTypes, shardVars
    <2> QED BY <2>2, <2>4, <2>5 DEF LInv
  <1>6. ASSUME NEW c \in Call, Handle(c) PROVE LInv'
    <2>1. PICK r \in Idx \cup {Served, Failed} :
              /\ reply' = [reply EXCEPT ![c] = r]
              /\ r = Served => c \in executed'
      <3>1. CASE idx[c] = leads
        BY Zenon, <1>6, <3>1 DEF Handle
      <3>2. CASE idx[c] # leads
        <4>1. Served \notin Idx /\ Failed # Served
          BY ReplyAssumption, CountAssumption DEF Idx
        <4>2. CASE believes[idx[c]] \in Idx \ {idx[c]}
          <5>1. reply' = [reply EXCEPT ![c] = believes[idx[c]]]
            BY <1>6, <3>2, <4>2 DEF Handle
          <5>2. believes[idx[c]] \in Idx \cup {Served, Failed} /\ believes[idx[c]] # Served
            BY <4>1, <4>2
          <5> QED BY Zenon, <5>1, <5>2
        <4>3. CASE believes[idx[c]] \notin Idx \ {idx[c]}
          BY Zenon, <1>6, <3>2, <4>1, <4>3 DEF Handle
        <4> QED BY <4>2, <4>3
      <3> QED BY <3>1, <3>2
    <2>2. executed \subseteq executed' /\ executed' \subseteq Call
             /\ UNCHANGED <<leader_hint, pc, idx, tries>>
      BY <1>0, <1>6 DEF Handle, CallTypes
    <2>3. reply' \in [Call -> Idx \cup {Served, Failed, None}] /\ reply'[c] = r
             /\ \A d \in Call \ {c} : reply'[d] = reply[d]
      BY <1>0, <2>1 DEF CallTypes
    <2>4. CallTypes'
      BY <1>0, <2>2, <2>3 DEF CallTypes
    <2>5. CallOK(c)'
      BY <1>0, <1>6, <2>1, <2>2, <2>3 DEF CallOK, Handle
    <2>6. \A d \in Call : CallOK(d)'
      BY <2>2, <2>3, <2>5, OthersOK
    <2>7. ShardTypes' /\ smooth' \in [Call -> BOOLEAN]
      BY <1>0, <1>6 DEF Handle, ShardTypes, shardVars
    <2> QED BY <2>4, <2>6, <2>7 DEF LInv
  <1>r. ASSUME NEW c \in Call, Refuse(c) PROVE LInv'
    <2>1. /\ reply' = [reply EXCEPT ![c] = Failed]
          /\ smooth' = [smooth EXCEPT ![c] = FALSE] /\ pc[c] = "sent"
          /\ UNCHANGED <<leader_hint, pc, idx, tries, executed>>
      BY Zenon, <1>r DEF Refuse
    <2>2. reply' \in [Call -> Idx \cup {Served, Failed, None}] /\ reply'[c] = Failed
             /\ \A d \in Call \ {c} : reply'[d] = reply[d]
      BY <1>0, <2>1 DEF CallTypes
    <2>3. CallTypes'
      BY <1>0, <2>1, <2>2 DEF CallTypes
    <2>4. CallOK(c)'
      BY <1>0, <2>1, <2>2, ReplyAssumption DEF CallOK
    <2>5. \A d \in Call : CallOK(d)'
      BY <2>1, <2>2, <2>4, OthersOK
    <2>6. ShardTypes' /\ smooth' \in [Call -> BOOLEAN]
      BY <1>0, <1>r, <2>1 DEF Refuse, ShardTypes, shardVars
    <2> QED BY <2>3, <2>5, <2>6 DEF LInv
  <1>7. ASSUME UNCHANGED <<leader_hint, callVars>>, ShardTypes',
               smooth' \in [Call -> BOOLEAN]
        PROVE  LInv'
    BY <1>0, <1>7 DEF LInv, CallTypes, CallOK, callVars
  <1>8. ASSUME NEW i \in Idx, Crash(i) PROVE LInv'
    <2>1. ShardTypes' /\ smooth' \in [Call -> BOOLEAN]
      BY <1>0, <1>8, DisturbTypes DEF Crash, ShardTypes
    <2> QED BY <1>7, <1>8, <2>1 DEF Crash
  <1>9. ASSUME NEW i \in Idx, Restart(i) PROVE LInv'
    <2>1. ShardTypes' /\ smooth' \in [Call -> BOOLEAN]
      BY <1>0, <1>9, DisturbTypes DEF Restart, ShardTypes
    <2> QED BY <1>7, <1>9, <2>1 DEF Restart
  <1>10. ASSUME NEW i \in Idx, Depose(i) PROVE LInv'
    <2>1. ShardTypes' /\ smooth' \in [Call -> BOOLEAN]
      BY <1>0, <1>10, DisturbTypes DEF Depose, ShardTypes
    <2> QED BY <1>7, <1>10, <2>1 DEF Depose
  <1>11. ASSUME NEW i \in Idx, Elect(i) \/ Heartbeat(i) PROVE LInv'
    <2>1. ShardTypes' /\ smooth' \in [Call -> BOOLEAN]
      BY <1>0, <1>11 DEF Elect, Heartbeat, ShardTypes
    <2> QED BY <1>7, <1>11, <2>1 DEF Elect, Heartbeat
  <1>12. CASE UNCHANGED vars
    BY <1>0, <1>7, <1>12 DEF vars, ShardTypes, shardVars
  <1> QED
    BY <1>1, <1>3, <1>4, <1>5, <1>6, <1>r, <1>8, <1>9, <1>10, <1>11, <1>12 DEF Next

\* How many attempts Following needs from replica i to the leader l.
Distance(l, i) == IF i <= l THEN l - i ELSE l + replica_count - i

\* Following brings a call one replica nearer to the leader.
LEMMA DistanceFacts ==
    ASSUME LInv, leads # None, NEW i \in Idx
    PROVE  /\ leads \in Idx
           /\ Distance(leads, i) \in Nat /\ Distance(leads, i) < replica_count
           /\ Distance(leads, leads) = 0
           /\ i # leads => /\ Distance(leads, i) > 0
                           /\ Distance(leads, Following(i)) = Distance(leads, i) - 1
  <1>1. leads \in Idx
    BY DEF LInv, ShardTypes
  <1>2. Following(i) = IF i + 1 = replica_count THEN 0 ELSE i + 1
    BY SMTT(30), FollowingFacts
  <1> QED BY <1>1, <1>2, CountAssumption DEF Distance, Idx

\* While a call that nothing has disturbed runs, the shard is steady, and so is
\* the answer to its attempt.
Answer(c) == IF idx[c] = leads THEN Served ELSE leads

SteadyCall(c) == pc[c] = "sent" => Steady /\ reply[c] \in {None, Answer(c)}

UInv == LInv /\ \A c \in Call : smooth[c] => SteadyCall(c)

-----------------------------------------------------------------------------
(* What a step does to a call that nothing has disturbed *)

SameShard == UNCHANGED <<listed, leads, believes, down>>

Rests(c) == smooth[c] /\ pc[c] # "sent" /\ pc'[c] = pc[c]

Waits(c) ==
    /\ smooth[c] /\ SameShard
    /\ pc'[c] = pc[c] /\ idx'[c] = idx[c] /\ tries'[c] = tries[c]
    /\ reply'[c] = reply[c] \/ (pc[c] = "sent" /\ reply'[c] = Answer(c))

Starts(c) ==
    /\ Steady /\ SameShard
    /\ pc'[c] = "sent" /\ idx'[c] \in Idx /\ tries'[c] = 0 /\ reply'[c] = None

Ends(c) == pc'[c] \in {"ok", "idle"}

\* The attempt was not on the leader. It ends with a redirect to the leader or
\* goes on to the next replica: only if this one is down or the leader's address
\* is not on the list.
Retries(c, next) ==
    /\ smooth[c] /\ SameShard
    /\ pc[c] = "sent" /\ Steady /\ idx[c] # leads
    /\ GiveUp(c, next)
    /\ \/ next = leads
       \/ next = Following(idx[c]) /\ (idx[c] \in down \/ leads \notin listed)

\* Every step is one of these for a call that is undisturbed after it.
LEMMA UndisturbedStep ==
    ASSUME UInv, [Next]_vars, NEW c \in Call, smooth'[c]
    PROVE  \/ Rests(c) \/ Waits(c) \/ Starts(c) \/ Ends(c)
           \/ \E next \in Idx : Retries(c, next)
  <1> DEFINE Goal == \/ Rests(c) \/ Waits(c) \/ Starts(c) \/ Ends(c)
                     \/ \E next \in Idx : Retries(c, next)
  <1>0. LInv /\ CallTypes /\ ShardTypes /\ smooth \in [Call -> BOOLEAN]
    BY DEF UInv, LInv
  <1>1. ASSUME NEW d \in Call, Begin(d) PROVE Goal
    <2>2. /\ pc' = [pc EXCEPT ![d] = "sent"] /\ idx' = [idx EXCEPT ![d] = leader_hint]
          /\ smooth' = [smooth EXCEPT ![d] = Steady]
          /\ UNCHANGED <<tries, reply>> /\ SameShard
      BY ZenonT(60), <1>0, <1>1, HintFacts DEF Begin, CallTypes, shardVars, SameShard
    <2>3. CASE c = d
      <3>1. Steady /\ pc'[c] = "sent" /\ idx'[c] \in Idx
        BY <1>0, <2>2, <2>3 DEF CallTypes
      <3>2. tries'[c] = 0 /\ reply'[c] = None
        BY SMTT(30), <1>0, <1>1, <2>2, <2>3 DEF LInv, CallOK, Begin
      <3> QED BY <2>2, <3>1, <3>2 DEF Starts
    <2>4. CASE c # d
      <3>1. smooth[c] /\ pc'[c] = pc[c] /\ idx'[c] = idx[c]
        BY <1>0, <2>2, <2>4 DEF CallTypes
      <3> QED BY <2>2, <3>1 DEF Waits
    <2> QED BY <2>3, <2>4
  <1>2. ASSUME NEW d \in Call, d # c, NEW next \in Idx, pc[d] = "sent", GiveUp(d, next),
               SameShard, smooth[c]
        PROVE  Goal
    <2>1. /\ pc'[c] = pc[c] /\ tries'[c] = tries[c] /\ reply'[c] = reply[c]
          /\ idx'[c] = idx[c]
      BY SMTT(30), <1>0, <1>2, GiveUpStep DEF LInv
    <2> QED BY SMTT(30), <1>2, <2>1 DEF Waits
  <1>3. ASSUME NEW d \in Call, Receive(d) PROVE Goal
    <2>2. SameShard /\ pc[d] = "sent" /\ reply[d] # None
      BY <1>3 DEF Receive, shardVars, SameShard
    <2>3. (c # d \/ ~IsSuccess(d)) => smooth[c]
      BY Zenon, <1>0, <1>3 DEF Receive
    <2>4. CASE IsSuccess(d) /\ End(d, "ok")
      <3>1. /\ pc'[d] = "ok"
            /\ \A e \in Call \ {d} :
                   /\ pc'[e] = pc[e] /\ tries'[e] = tries[e] /\ reply'[e] = reply[e]
                   /\ idx'[e] = idx[e]
        BY SMTT(30), <1>0, <2>4, EndStep
      <3> QED BY <2>2, <2>3, <3>1 DEF Ends, Waits
    <2>5. CASE ~IsSuccess(d) /\ GiveUp(d, position_or_next(reply[d], idx[d]))
      <3>1. position_or_next(reply[d], idx[d]) \in Idx
        BY SMTT(30), <1>0, PositionFacts DEF CallTypes
      <3>2. CASE c = d
        <4>1. SteadyCall(c) /\ smooth[c]
          BY <2>2, <2>3, <2>5 DEF UInv
        <4>2. Steady /\ idx[c] # leads /\ reply[c] = leads
          BY <2>2, <2>5, <3>2, <4>1 DEF SteadyCall, Answer, IsSuccess
        <4>3. position_or_next(reply[c], idx[c]) =
                 IF leads \in listed THEN leads ELSE Following(idx[c])
          BY <4>2 DEF position_or_next
        <4> QED BY SMTT(30), <2>2, <2>5, <3>1, <3>2, <4>1, <4>2, <4>3 DEF Retries
      <3> QED BY <1>2, <2>2, <2>3, <2>5, <3>1, <3>2
    <2> QED BY <1>3, <2>4, <2>5 DEF Receive
  <1>4. ASSUME NEW d \in Call, Timeout(d) PROVE Goal
    <2>2. SameShard /\ smooth' = smooth /\ pc[d] = "sent" /\ idx[d] \in down
            /\ GiveUp(d, Following(idx[d]))
      BY <1>4 DEF Timeout, shardVars, SameShard
    <2>3. Following(idx[d]) \in Idx
      BY <1>0, FollowingFacts DEF CallTypes
    <2>4. CASE c = d
      <3>1. smooth[c] /\ Steady
        BY <2>2, <2>4 DEF UInv, SteadyCall
      <3>2. idx[c] # leads
        BY SMTT(30), <1>0, <2>2, <2>4, <3>1 DEF Steady, ShardTypes
      <3> QED BY <2>2, <2>3, <2>4, <3>1, <3>2 DEF Retries
    <2> QED BY <1>2, <2>2, <2>3, <2>4
  <1>5. ASSUME NEW d \in Call, Cancel(d) PROVE Goal
    <2>2. /\ pc'[d] = "idle"
          /\ \A e \in Call \ {d} :
                 /\ pc'[e] = pc[e] /\ tries'[e] = tries[e] /\ reply'[e] = reply[e]
                 /\ idx'[e] = idx[e]
      BY <1>0, <1>5, EndStep DEF Cancel
    <2>3. SameShard /\ smooth' = [smooth EXCEPT ![d] = TRUE]
      BY <1>5 DEF Cancel, shardVars, SameShard
    <2>4. CASE c = d
      BY <2>2, <2>4 DEF Ends
    <2>5. CASE c # d
      BY SMTT(30), <1>0, <2>2, <2>3, <2>5 DEF Waits
    <2> QED BY <2>4, <2>5
  <1>6. ASSUME NEW d \in Call, Handle(d) PROVE Goal
    <2>2. SameShard /\ UNCHANGED <<smooth, pc, idx, tries>>
      BY <1>6 DEF Handle, shardVars, SameShard
    <2>4. CASE c = d
      <3>1. pc[c] = "sent" /\ idx[c] \notin down /\ Steady /\ idx[c] \in Idx
        BY <1>0, <1>6, <2>2, <2>4 DEF Handle, UInv, SteadyCall, CallTypes
      <3>2. believes[idx[c]] = leads /\ leads \in Idx
        BY <1>0, <3>1 DEF Steady, ShardTypes
      <3>3. reply'[c] = Answer(c)
        BY <1>0, <1>6, <2>4, <3>2 DEF Handle, CallTypes, Answer
      <3> QED BY SMTT(30), <2>2, <3>1, <3>3 DEF Waits
    <2>5. CASE c # d
      <3>1. reply'[c] = reply[c]
        BY SMTT(30), <1>0, <1>6, <2>5 DEF Handle, CallTypes
      <3> QED BY <2>2, <3>1 DEF Waits
    <2> QED BY <2>4, <2>5
  <1>r. ASSUME NEW d \in Call, Refuse(d) PROVE Goal
    <2>1. /\ SameShard /\ UNCHANGED <<pc, idx, tries>>
          /\ reply' = [reply EXCEPT ![d] = Failed]
          /\ smooth' = [smooth EXCEPT ![d] = FALSE]
      BY <1>r DEF Refuse, shardVars, SameShard
    <2>2. c # d /\ smooth[c] /\ reply'[c] = reply[c]
      BY <1>0, <2>1 DEF CallTypes
    <2> QED BY <2>1, <2>2 DEF Waits
  <1>7. Disturb => smooth[c] /\ pc[c] # "sent"
    BY Zenon DEF Disturb
  <1>s. ASSUME NEW d \in Call, Slow(d) PROVE Goal
    <2>1. smooth[c] /\ pc[c] # "sent" /\ pc[d] = "sent" /\ GiveUp(d, Following(idx[d]))
      BY <1>7, <1>s DEF Slow
    <2>2. Following(idx[d]) \in Idx
      BY <1>0, FollowingFacts DEF CallTypes
    <2>3. pc'[c] = pc[c]
      BY SMTT(30), <1>0, <2>1, <2>2, GiveUpStep DEF LInv
    <2> QED BY <2>1, <2>3 DEF Rests
  <1>c. ASSUME NEW i \in Idx, Crash(i) \/ Restart(i) \/ Depose(i) PROVE Goal
    <2>1. smooth[c] /\ pc[c] # "sent" /\ pc' = pc
      BY <1>7, <1>c DEF Crash, Restart, Depose, callVars
    <2> QED BY <2>1 DEF Rests
  <1>8. ASSUME NEW i \in Idx, Elect(i) \/ Heartbeat(i) PROVE Goal
    <2>1. smooth' = smooth /\ pc' = pc /\ ~Steady
      BY SMTT(30), <1>8 DEF Elect, Heartbeat, Steady, callVars
    <2> QED BY <2>1 DEF UInv, SteadyCall, Rests
  <1>9. CASE UNCHANGED vars
    BY SMTT(30), <1>9 DEF vars, callVars, shardVars, Waits, SameShard
  <1> QED
    BY <1>1, <1>3, <1>4, <1>5, <1>6, <1>r, <1>s, <1>c, <1>8, <1>9 DEF Next

\* What GiveUp does to a call that retries.
LEMMA RetryEffect ==
    ASSUME UInv, NEW c \in Call, NEW next \in Idx, Retries(c, next)
    PROVE  \/ pc'[c] = "err" /\ tries[c] + 1 = MAX_LEADER_ATTEMPTS
           \/ /\ pc'[c] = "sent" /\ tries'[c] = tries[c] + 1
              /\ idx'[c] = next /\ reply'[c] = None
  <1>1. CallTypes /\ CallOK(c) /\ pc[c] = "sent" /\ GiveUp(c, next)
    BY DEF UInv, LInv, Retries
  <1> QED BY SMTT(30), <1>1, GiveUpStep

\* A call that nothing has disturbed finds a steady shard.
LEMMA NextUInv == UInv /\ [Next]_vars => UInv'
  <1> SUFFICES ASSUME UInv, [Next]_vars, NEW c \in Call, smooth'[c]
               PROVE  SteadyCall(c)'
    BY NextLInv DEF UInv
  <1>1. CASE Rests(c) \/ Ends(c)
    BY <1>1 DEF Rests, Ends, SteadyCall
  <1>2. CASE Waits(c)
    BY ZenonT(60), <1>2 DEF Waits, SameShard, SteadyCall, UInv, Steady, Answer
  <1>3. CASE Starts(c)
    BY <1>3 DEF Starts, SameShard, SteadyCall, Steady
  <1>4. ASSUME NEW next \in Idx, Retries(c, next) PROVE SteadyCall(c)'
    BY SMTT(30), <1>4, RetryEffect DEF Retries, SameShard, SteadyCall, Steady
  <1> QED BY SMTT(30), <1>1, <1>2, <1>3, <1>4, UndisturbedStep

-----------------------------------------------------------------------------
(* One attempt for each replica *)

\* The attempts used and those still needed are fewer than the replicas.
Near(c) ==
    /\ pc[c] # "err"
    /\ pc[c] = "sent" => tries[c] + Distance(leads, idx[c]) < replica_count

SInv == UInv /\ \A c \in Call : smooth[c] => Near(c)

\* Every retry brings an undisturbed call nearer to the leader.
LEMMA NextSInv ==
    ASSUME MAX_LEADER_ATTEMPTS >= replica_count, SInv, [Next]_vars
    PROVE  SInv'
  <1> SUFFICES ASSUME NEW c \in Call, smooth'[c] PROVE Near(c)'
    BY NextUInv DEF SInv
  <1>0. UInv /\ LInv /\ idx[c] \in Idx /\ tries[c] \in Nat
    BY SMTT(30) DEF SInv, UInv, LInv, CallTypes
  <1>1. CASE Rests(c) \/ Ends(c)
    BY SMTT(30), <1>1 DEF Rests, Ends, Near, SInv
  <1>2. CASE Waits(c)
    BY SMTT(30), <1>2 DEF Waits, SameShard, Near, SInv, Distance
  <1>3. CASE Starts(c)
    <2>1. leads # None /\ leads' = leads /\ idx'[c] \in Idx
      BY <1>3 DEF Starts, SameShard, Steady
    <2>2. Distance(leads, idx'[c]) \in Nat /\ Distance(leads, idx'[c]) < replica_count
      BY <1>0, <2>1, DistanceFacts
    <2>3. Distance(leads', idx'[c]) = Distance(leads, idx'[c])
      BY <2>1 DEF Distance
    <2> QED BY SMTT(30), <1>3, <2>2, <2>3, CountAssumption DEF Starts, Near
  <1>4. ASSUME NEW next \in Idx, Retries(c, next) PROVE Near(c)'
    <2>1. /\ leads # None /\ leads' = leads /\ idx[c] # leads
          /\ next \in {leads, Following(idx[c])}
          /\ tries[c] + Distance(leads, idx[c]) < replica_count
      BY <1>4 DEF Retries, SameShard, Steady, SInv, Near
    <2>2. /\ Distance(leads, idx[c]) \in Nat /\ Distance(leads, idx[c]) > 0
          /\ Distance(leads, next) \in Nat
          /\ Distance(leads, next) <= Distance(leads, idx[c]) - 1
      BY <1>0, <2>1, DistanceFacts
    <2>3. tries[c] + 1 < replica_count
      BY SMTT(30), <1>0, <2>1, <2>2, CountAssumption
    <2>4. pc'[c] = "sent" /\ tries'[c] = tries[c] + 1 /\ idx'[c] = next
      BY SMTT(30), <1>0, <1>4, <2>3, CountAssumption, RetryEffect
    <2>5. tries'[c] + Distance(leads, next) < replica_count
      BY SMTT(30), <1>0, <2>1, <2>2, <2>4, CountAssumption
    <2>6. Distance(leads', idx'[c]) = Distance(leads, next)
      BY <2>1, <2>4 DEF Distance
    <2> QED BY SMTT(30), <2>4, <2>5, <2>6 DEF Near
  <1> QED BY SMTT(30), <1>0, <1>1, <1>2, <1>3, <1>4, UndisturbedStep

-----------------------------------------------------------------------------
(* One attempt for each replica that is down, and a retry *)

\* The stopped replicas a call would meet from i on before it comes to the
\* leader.
Ahead(i) == {j \in down : Distance(leads, j) <= Distance(leads, i)}

\* The attempts used met stopped replicas that are no longer ahead; the one that
\* was redirected is the last before the leader.
Cheap(c) ==
    pc[c] = "sent" /\ listed = Idx =>
        tries[c] + Cardinality(Ahead(idx[c]))
            <= Cardinality(down) + (IF idx[c] = leads THEN 1 ELSE 0)

CInv == UInv /\ \A c \in Call : smooth[c] => Cheap(c)

\* Following leaves one stopped replica behind.
LEMMA AheadFacts ==
    ASSUME LInv, leads # None, NEW i \in Idx
    PROVE  /\ Cardinality(down) \in Nat /\ Cardinality(Ahead(i)) \in Nat
           /\ Cardinality(Ahead(i)) <= Cardinality(down)
           /\ Cardinality(Ahead(leads)) = 0
           /\ i \in down =>
                 Cardinality(Ahead(Following(i))) = Cardinality(Ahead(i)) - 1
  <1>1. down \subseteq Idx /\ leads \in Idx /\ leads \notin down
    BY DEF LInv, ShardTypes
  <1>2. IsFiniteSet(down)
    <2>1. IsFiniteSet(Idx)
      BY CountAssumption, FS_Interval DEF Idx
    <2> QED BY <1>1, <2>1, FS_Subset
  <1>3. /\ IsFiniteSet(Ahead(i)) /\ Cardinality(Ahead(i)) <= Cardinality(down)
        /\ Cardinality(Ahead(i)) \in Nat /\ Cardinality(down) \in Nat
    <2>1. Ahead(i) \subseteq down
      BY DEF Ahead
    <2> QED BY <1>2, <2>1, FS_Subset, FS_CardinalityType
  <1>4. Ahead(leads) = {}
    BY <1>1, DistanceFacts DEF Ahead
  <1>5. ASSUME i \in down PROVE Ahead(Following(i)) = Ahead(i) \ {i}
    <2>1. ASSUME NEW j \in down, Distance(leads, j) = Distance(leads, i) PROVE j = i
      BY <1>1, <2>1, CountAssumption DEF Distance, Idx
    <2>2. \A j \in down : Distance(leads, j) \in Nat
      BY <1>1, DistanceFacts
    <2>3. /\ Distance(leads, i) \in Nat
          /\ Distance(leads, Following(i)) = Distance(leads, i) - 1
      BY <1>1, <1>5, DistanceFacts
    <2> QED BY <2>1, <2>2, <2>3 DEF Ahead
  <1>6. i \in down => i \in Ahead(i)
    BY DistanceFacts DEF Ahead
  <1>7. Cardinality(Ahead(leads)) = 0
    BY <1>4, FS_EmptySet
  <1>8. i \in down => Cardinality(Ahead(Following(i))) = Cardinality(Ahead(i)) - 1
    BY SMTT(30), <1>3, <1>5, <1>6, FS_RemoveElement
  <1> QED BY <1>3, <1>7, <1>8

\* A retry that follows the list has met a stopped replica, or meets the leader next.
LEMMA CheapRetry ==
    ASSUME CInv, NEW c \in Call, NEW next \in Idx, Retries(c, next), listed = Idx
    PROVE  /\ tries[c] + Cardinality(Ahead(idx[c])) <= Cardinality(down)
           /\ tries[c] \in Nat /\ Cardinality(down) \in Nat
           /\ Cardinality(Ahead(idx[c])) \in Nat
           /\ tries[c] + 1 + Cardinality(Ahead(next))
                  <= Cardinality(down) + (IF next = leads THEN 1 ELSE 0)
  <1>0. LInv /\ idx[c] \in Idx /\ tries[c] \in Nat
    BY DEF CInv, UInv, LInv, CallTypes
  <1>1. /\ leads # None /\ idx[c] # leads /\ smooth[c] /\ pc[c] = "sent"
        /\ next = leads \/ (next = Following(idx[c]) /\ idx[c] \in down)
    <2>1. leads # None
      BY SMTT(30) DEF Retries, Steady
    <2>2. leads \in Idx
      BY SMTT(30), <1>0, <2>1, DistanceFacts
    <2> QED BY SMTT(30), <2>1, <2>2 DEF Retries
  <1>2. tries[c] + Cardinality(Ahead(idx[c])) <= Cardinality(down) + 0
    BY SMTT(30), <1>1 DEF CInv, Cheap
  <1>3. /\ Cardinality(down) \in Nat /\ Cardinality(Ahead(idx[c])) \in Nat
        /\ Cardinality(Ahead(next)) \in Nat
        /\ \/ next = leads /\ Cardinality(Ahead(next)) = 0
           \/ Cardinality(Ahead(next)) = Cardinality(Ahead(idx[c])) - 1
    BY <1>0, <1>1, AheadFacts
  <1> QED BY <1>0, <1>1, <1>2, <1>3

\* Every step keeps the count of attempts and stopped replicas.
LEMMA NextCInv == CInv /\ [Next]_vars => CInv'
  <1> SUFFICES ASSUME CInv, [Next]_vars, NEW c \in Call, smooth'[c], listed' = Idx
               PROVE  Cheap(c)'
    BY NextUInv DEF CInv, Cheap
  <1>0. UInv /\ LInv
    BY DEF CInv, UInv
  <1>1. CASE Rests(c) \/ Ends(c)
    BY SMTT(30), <1>1 DEF Rests, Ends, Cheap
  <1>2. CASE Waits(c)
    <2>1. Ahead(idx[c])' = Ahead(idx[c])
      BY <1>2 DEF Waits, SameShard, Ahead, Distance
    <2> QED BY ZenonT(60), <1>2, <2>1 DEF Waits, SameShard, Cheap, CInv
  <1>3. CASE Starts(c)
    <2>1. leads # None /\ leads' = leads /\ down' = down /\ idx'[c] \in Idx
      BY <1>3 DEF Starts, SameShard, Steady
    <2>2. /\ Cardinality(Ahead(idx'[c])) <= Cardinality(down)
          /\ Cardinality(Ahead(idx'[c])) \in Nat /\ Cardinality(down) \in Nat
      BY <1>0, <2>1, AheadFacts
    <2>3. Ahead(idx[c])' = Ahead(idx'[c])
      BY <2>1 DEF Ahead, Distance
    <2>4. tries'[c] = 0
      BY SMTT(30), <1>3 DEF Starts
    <2> QED BY SMTT(30), <2>1, <2>2, <2>3, <2>4 DEF Cheap
  <1>4. ASSUME NEW next \in Idx, Retries(c, next) PROVE Cheap(c)'
    <2>1. UNCHANGED <<listed, leads, down>>
      BY <1>4 DEF Retries, SameShard
    <2>2. tries[c] + 1 + Cardinality(Ahead(next))
              <= Cardinality(down) + (IF next = leads THEN 1 ELSE 0)
      BY <1>4, <2>1, CheapRetry
    <2>3. CASE pc'[c] = "err"
      BY <2>3 DEF Cheap
    <2>4. CASE /\ pc'[c] = "sent" /\ tries'[c] = tries[c] + 1
               /\ idx'[c] = next /\ reply'[c] = None
      <3>1. Ahead(idx[c])' = Ahead(next)
        BY SMTT(30), <2>1, <2>4 DEF Ahead, Distance
      <3> QED BY <2>1, <2>2, <2>4, <3>1 DEF Cheap
    <2> QED BY SMTT(30), <1>0, <1>4, <2>3, <2>4, RetryEffect
  <1> QED BY SMTT(30), <1>0, <1>1, <1>2, <1>3, <1>4, UndisturbedStep

\* Only a minority is ever down.
MinorityDown == 2 * Cardinality(down) < replica_count

\* Crash keeps a majority up.
LEMMA NextMinority == LInv /\ MinorityDown /\ [Next]_vars => MinorityDown'
  <1> SUFFICES ASSUME LInv, MinorityDown, [Next]_vars PROVE MinorityDown'
    OBVIOUS
  <1>1. IsFiniteSet(down) /\ Cardinality(down) \in Nat
    <2>1. IsFiniteSet(Idx) /\ down \subseteq Idx
      BY CountAssumption, FS_Interval DEF Idx, LInv, ShardTypes
    <2> QED BY <2>1, FS_Subset, FS_CardinalityType
  <1>2. ASSUME NEW i \in Idx, Crash(i) PROVE MinorityDown'
    <2>1. Cardinality(down') = Cardinality(down) + 1
      BY SMTT(30), <1>1, <1>2, FS_AddElement DEF Crash
    <2> QED BY <1>2, <2>1 DEF Crash, MinorityDown
  <1>3. ASSUME NEW i \in Idx, Restart(i) PROVE MinorityDown'
    <2>1. Cardinality(down') = Cardinality(down) - 1
      BY SMTT(30), <1>1, <1>3, FS_RemoveElement DEF Restart
    <2> QED BY <1>1, <2>1, CountAssumption DEF MinorityDown
  <1>4. CASE UNCHANGED down
    BY <1>4 DEF MinorityDown
  <1> QED
    BY <1>2, <1>3, <1>4
    DEF Next, vars, shardVars, Begin, Receive, Timeout, Cancel, Handle, Refuse, Slow,
        Depose, Elect, Heartbeat

\* With the addresses on the list, a call that nothing disturbs does not give up
\* after it has met every replica that can be down and one that was not the
\* leader.
MInv ==
    /\ CInv /\ MinorityDown
    /\ \A c \in Call : smooth[c] /\ listed = Idx => pc[c] # "err"

\* The attempts do not run out before the leader is found.
LEMMA NextMInv ==
    ASSUME replica_count <= 2 * (MAX_LEADER_ATTEMPTS - 1), MInv, [Next]_vars
    PROVE  MInv'
  <1>0. UInv /\ LInv /\ CInv /\ MinorityDown
    BY DEF MInv, CInv, UInv
  <1>1. CInv' /\ MinorityDown'
    BY <1>0, NextCInv, NextMinority
  <1> SUFFICES ASSUME NEW c \in Call, smooth'[c], listed' = Idx PROVE pc'[c] # "err"
    BY SMTT(30), <1>1 DEF MInv
  <1>2. listed' = listed
    BY SMTT(30) DEF Next, vars, shardVars, Begin, Receive, Timeout, Cancel, Handle, Refuse, Slow,
           Crash, Restart, Depose, Elect, Heartbeat
  <1>3. ASSUME NEW next \in Idx, Retries(c, next) PROVE pc'[c] # "err"
    <2>1. tries[c] + Cardinality(Ahead(idx[c])) <= Cardinality(down)
             /\ tries[c] \in Nat /\ Cardinality(down) \in Nat
             /\ Cardinality(Ahead(idx[c])) \in Nat
      BY SMTT(30), <1>0, <1>2, <1>3, CheapRetry
    <2>2. tries[c] + 1 < MAX_LEADER_ATTEMPTS
      BY SMTT(30), <1>0, <2>1, CountAssumption DEF MinorityDown
    <2> QED BY SMTT(30), <1>0, <1>3, <2>1, <2>2, CountAssumption, RetryEffect
  <1>4. CASE Rests(c) \/ Ends(c) \/ Waits(c) \/ Starts(c)
    BY <1>2, <1>4 DEF Rests, Ends, Waits, Starts, MInv
  <1> QED BY <1>0, <1>3, <1>4, UndisturbedStep

-----------------------------------------------------------------------------
\* The types, for any number of replicas: the index stays on the list, whatever
\* leader_hint, the redirects and the wrap-around of call_with_retry do.
THEOREM RetryTypes == Spec => []TypeOK
  <1>1. LInv => TypeOK
    BY SMTT(30) DEF LInv, CallTypes, ShardTypes, TypeOK
  <1> QED BY <1>1, InitLInv, NextLInv, PTL DEF Spec

\* A call of call_with_retry that returns Ok was carried out by a leader.
THEOREM OkIsServed == Spec => []NeverAWrongAnswer
  <1>1. LInv => NeverAWrongAnswer
    BY DEF LInv, CallOK, NeverAWrongAnswer
  <1> QED BY <1>1, InitLInv, NextLInv, PTL DEF Spec

\* One attempt per replica is enough: with MAX_LEADER_ATTEMPTS no smaller than
\* the replica group, only calls that a leader answered with an error, or that a
\* fault or an unsettled shard has disturbed, give up, for any number of replicas,
\* of concurrent calls, of faults and of errors that other calls met.
THEOREM OneAttemptPerReplica ==
    ASSUME MAX_LEADER_ATTEMPTS >= replica_count
    PROVE  Spec => []GivesUpOnlyIfDisturbed
  <1>1. Init => SInv
    BY InitLInv DEF Init, SInv, UInv, SteadyCall, Near
  <1>2. SInv /\ [Next]_vars => SInv'
    BY NextSInv
  <1>3. SInv => GivesUpOnlyIfDisturbed
    BY DEF SInv, Near, GivesUpOnlyIfDisturbed
  <1> QED BY <1>1, <1>2, <1>3, PTL DEF Spec

\* The cost of a stale leader_hint, for any number of replicas and any
\* MAX_LEADER_ATTEMPTS: one retry, and one for each replica that is down, for a
\* call that nothing disturbs and no leader answers with an error, also while
\* errors that other calls meet move the guess off the leader.
THEOREM StaleGuessIsCheap == Spec => []StaleGuessCostsOneRetry
  <1>1. Init => CInv
    BY InitLInv DEF Init, CInv, UInv, SteadyCall, Cheap
  <1>2. CInv => StaleGuessCostsOneRetry
    <2> SUFFICES ASSUME CInv, NEW c \in Call, smooth[c], listed = Idx
                 PROVE  tries[c] <= Cardinality(down) + 1
      BY DEF StaleGuessCostsOneRetry
    <2>0. LInv /\ CallOK(c) /\ idx[c] \in Idx /\ tries[c] \in Nat
      BY DEF CInv, UInv, LInv, CallTypes
    <2>1. Cardinality(down) \in Nat
      <3>1. IsFiniteSet(Idx) /\ down \subseteq Idx
        BY <2>0, CountAssumption, FS_Interval DEF Idx, LInv, ShardTypes
      <3> QED BY <3>1, FS_Subset, FS_CardinalityType
    <2>2. CASE pc[c] # "sent"
      BY <2>0, <2>1, <2>2 DEF CallOK
    <2>3. CASE pc[c] = "sent"
      <3>1. leads # None
        BY <2>3 DEF CInv, UInv, SteadyCall, Steady
      <3>2. Cardinality(Ahead(idx[c])) \in Nat
        BY <2>0, <3>1, AheadFacts
      <3>3. tries[c] + Cardinality(Ahead(idx[c]))
               <= Cardinality(down) + (IF idx[c] = leads THEN 1 ELSE 0)
        BY <2>3 DEF CInv, Cheap
      <3> QED BY SMTT(30), <2>0, <2>1, <3>2, <3>3
    <2> QED BY <2>2, <2>3
  <1> QED BY <1>1, <1>2, NextCInv, PTL DEF Spec

\* MAX_LEADER_ATTEMPTS need not grow with the group if redirects can be followed:
\* the four attempts of the code are enough for groups of up to six replicas, for
\* a call that nothing disturbs and no leader answers with an error.
THEOREM ListedNeedsFewerAttempts ==
    ASSUME replica_count <= 2 * (MAX_LEADER_ATTEMPTS - 1)
    PROVE  Spec => [](listed = Idx => GivesUpOnlyIfDisturbed)
  <1>1. Init => MInv
    <2> SUFFICES ASSUME Init PROVE MInv
      OBVIOUS
    <2>1. CInv
      BY InitLInv DEF Init, CInv, UInv, SteadyCall, Cheap
    <2>2. MinorityDown
      BY FS_EmptySet, CountAssumption DEF Init, MinorityDown
    <2>3. \A c \in Call : pc[c] = "idle"
      BY DEF Init
    <2> QED BY <2>1, <2>2, <2>3 DEF MInv
  <1>2. MInv /\ [Next]_vars => MInv'
    BY NextMInv
  <1>3. MInv => (listed = Idx => GivesUpOnlyIfDisturbed)
    BY DEF MInv, GivesUpOnlyIfDisturbed
  <1> QED BY <1>1, <1>2, <1>3, PTL DEF Spec
=============================================================================
