---------------------------- MODULE LeaderRetry -----------------------------
(***************************************************************************)
(* How the router finds the leader of one shard: call_with_retry           *)
(* (crates/raftvec-aggregator/src/router.rs), run by several requests at a *)
(* time over one cached guess, leader_hint, while replicas crash, come     *)
(* back, answer late and elect leaders.                                    *)
(*                                                                         *)
(* Crashes, restarts, elections that depose a live leader and late answers *)
(* of live replicas are the faults; there are at most MaxFaults of them.   *)
(* A leader may answer any attempt with an error, which is no fault.       *)
(* Requests keep coming: a call that has ended may begin again.            *)
(***************************************************************************)
EXTENDS Integers, FiniteSets

CONSTANTS
    replica_count,        \* shard.clients.len()
    Call,                 \* requests served at a time
    MAX_LEADER_ATTEMPTS,
    Served,               \* a reply with an empty leader_hint
    Failed,               \* a reply with an error status
    None,                 \* no reply, no leader
    MaxFaults             \* bound: faults

ASSUME CountAssumption ==
    /\ replica_count \in Nat \ {0}
    /\ MAX_LEADER_ATTEMPTS \in Nat \ {0}
    /\ MaxFaults \in Nat
ASSUME ReplyAssumption ==
    /\ {Served, Failed, None} \cap Nat = {}
    /\ Served # None /\ Failed # None /\ Served # Failed

Idx == 0..replica_count - 1

VARIABLES
    leader_hint,  \* shard.leader_hint
    pc,           \* where each call is
    idx,          \* the replica a call tries
    tries,        \* the attempts of a call that have ended
    reply,        \* what the replica answers to the current attempt
    executed,     \* history: the calls whose last attempt a leader carried out
    listed,       \* the replicas whose advertised address is in shard.addrs
    leads,        \* the replica that leads the shard
    believes,     \* current_leader of each replica
    down,         \* the replicas that are not running
    faults,       \* faults so far (bounds the model)
    smooth        \* history: nothing disturbs this call, running or given up,
                  \* and no leader has answered it with an error

callVars == <<pc, idx, tries, reply, executed>>
shardVars == <<listed, leads, believes, down, faults>>
vars == <<leader_hint, callVars, shardVars, smooth>>

\* Every replica that runs knows the leader.
Steady == leads # None /\ \A i \in Idx \ down : believes[i] = leads

Init ==
    /\ leader_hint = 0
    /\ pc = [c \in Call |-> "idle"]
    /\ idx = [c \in Call |-> 0]
    /\ tries = [c \in Call |-> 0]
    /\ reply = [c \in Call |-> None]
    /\ executed = {}
    /\ listed \in {Idx, {}}
    /\ leads \in Idx
    /\ believes = [i \in Idx |-> leads]
    /\ down = {}
    /\ faults = 0
    /\ smooth = [c \in Call |-> TRUE]

-----------------------------------------------------------------------------
(* call_with_retry *)

\* A request loads leader_hint and makes its first attempt.
Begin(c) ==
    /\ pc[c] # "sent"
    /\ pc' = [pc EXCEPT ![c] = "sent"]
    /\ idx' = [idx EXCEPT ![c] = leader_hint % replica_count]
    /\ executed' = executed \ {c}
    /\ smooth' = [smooth EXCEPT ![c] = Steady]
    /\ UNCHANGED <<leader_hint, tries, reply, shardVars>>

\* The call returns or is dropped, with its local variables.
End(c, how) ==
    /\ pc' = [pc EXCEPT ![c] = how]
    /\ idx' = [idx EXCEPT ![c] = 0]
    /\ tries' = [tries EXCEPT ![c] = 0]
    /\ reply' = [reply EXCEPT ![c] = None]

\* Mutant: the index does not wrap.
FollowingUnwrapped(i) == i + 1

\* The next replica in turn.
Following(i) == (i + 1) % replica_count

\* Mutant: the guess is remembered on success only.
Forget(next) == UNCHANGED leader_hint

\* leader_hint.store
Remember(next) == leader_hint' = next

\* The attempt failed: go on with another replica, or stop after the last
\* attempt. The guess is stored either way.
GiveUp(c, next) ==
    /\ Remember(next)
    /\ IF tries[c] + 1 = MAX_LEADER_ATTEMPTS
       THEN End(c, "err")
       ELSE /\ idx' = [idx EXCEPT ![c] = next]
            /\ tries' = [tries EXCEPT ![c] = @ + 1]
            /\ reply' = [reply EXCEPT ![c] = None]
            /\ UNCHANGED pc
    /\ executed' = executed \ {c}

\* Mutant: any answer counts as success.
IsAnswer(c) == reply[c] # None

\* The leader_hint of the response is empty.
IsSuccess(c) == reply[c] = Served

\* Mutant: redirects are not followed.
position_ignored(hint, i) == Following(i)

\* The place of the hinted address in shard.addrs, or the next replica in turn
\* if it is not there.
position_or_next(hint, i) == IF hint \in listed THEN hint ELSE Following(i)

\* The replica's answer arrives in time: success, or a redirect or an error.
Receive(c) ==
    /\ pc[c] = "sent" /\ reply[c] # None
    /\ \/ /\ IsSuccess(c)
          /\ End(c, "ok")
          /\ leader_hint' = idx[c]
          /\ smooth' = [smooth EXCEPT ![c] = TRUE]
          /\ UNCHANGED executed
       \/ /\ ~IsSuccess(c)
          /\ GiveUp(c, position_or_next(reply[c], idx[c]))
          /\ UNCHANGED smooth
    /\ UNCHANGED shardVars

\* Mutant: the call fails with its first attempt that times out.
Timeout_fails(c) ==
    /\ pc[c] = "sent" /\ idx[c] \in down
    /\ Remember(Following(idx[c]))
    /\ End(c, "err")
    /\ executed' = executed \ {c}
    /\ UNCHANGED <<shardVars, smooth>>

\* attempt_timeout passes, or the connection to a stopped replica fails.
Timeout(c) ==
    /\ pc[c] = "sent" /\ idx[c] \in down
    /\ GiveUp(c, Following(idx[c]))
    /\ UNCHANGED <<shardVars, smooth>>

\* The deadline of ShardRouter::search drops the call. It is longer than one
\* attempt.
Cancel(c) ==
    /\ pc[c] = "sent" /\ tries[c] > 0
    /\ End(c, "idle")
    /\ executed' = executed \ {c}
    /\ smooth' = [smooth EXCEPT ![c] = TRUE]
    /\ UNCHANGED <<leader_hint, shardVars>>

-----------------------------------------------------------------------------
(* NodeService on the replica that is tried *)

\* insert, delete, search: the leader serves the request, others name the
\* leader they know of, or fail if they know of none (or of themselves only,
\* having been deposed).
Handle(c) ==
    LET i == idx[c] IN
    /\ pc[c] = "sent" /\ reply[c] = None /\ i \notin down
    /\ reply' = [reply EXCEPT ![c] =
           IF i = leads THEN Served
           ELSE IF believes[i] \in Idx \ {i} THEN believes[i] ELSE Failed]
    /\ executed' = IF i = leads THEN executed \cup {c} ELSE executed
    /\ UNCHANGED <<leader_hint, pc, idx, tries, shardVars, smooth>>

\* The leader answers with an error: its store does not have the collection of
\* a search or has it with another dimension, no quorum confirms that it leads
\* (ensure_linearizable), or the write or the scan fails. The error is like that
\* of any other replica to call_with_retry.
Refuse(c) ==
    /\ pc[c] = "sent" /\ reply[c] = None /\ idx[c] = leads
    /\ reply' = [reply EXCEPT ![c] = Failed]
    /\ smooth' = [smooth EXCEPT ![c] = FALSE]
    /\ UNCHANGED <<leader_hint, pc, idx, tries, executed, shardVars>>

-----------------------------------------------------------------------------
(* The shard (openraft and the processes) *)

Disturb ==
    /\ faults < MaxFaults
    /\ faults' = faults + 1
    /\ smooth' = [c \in Call |-> smooth[c] /\ pc[c] # "sent"]

\* A live replica answers too late, or its answer is lost.
Slow(c) ==
    /\ Disturb
    /\ pc[c] = "sent" /\ idx[c] \notin down
    /\ GiveUp(c, Following(idx[c]))
    /\ UNCHANGED <<listed, leads, believes, down>>

\* A minority of the replicas may be down. What a replica knows is lost.
Crash(i) ==
    /\ Disturb
    /\ i \notin down /\ 2 * (Cardinality(down) + 1) < replica_count
    /\ down' = down \cup {i}
    /\ leads' = IF leads = i THEN None ELSE leads
    /\ believes' = [believes EXCEPT ![i] = None]
    /\ UNCHANGED <<leader_hint, callVars, listed>>

Restart(i) ==
    /\ Disturb
    /\ i \in down
    /\ down' = down \ {i}
    /\ UNCHANGED <<leader_hint, callVars, listed, leads, believes>>

\* A live leader is replaced.
Depose(i) ==
    /\ Disturb
    /\ leads # None /\ i \notin down \cup {leads}
    /\ leads' = i
    /\ believes' = [believes EXCEPT ![i] = i]
    /\ UNCHANGED <<leader_hint, callVars, listed, down>>

\* The seat is vacant and a live replica wins the election.
Elect(i) ==
    /\ leads = None /\ i \notin down
    /\ leads' = i
    /\ believes' = [believes EXCEPT ![i] = i]
    /\ UNCHANGED <<leader_hint, callVars, listed, down, faults, smooth>>

\* The leader's heartbeat reaches a replica.
Heartbeat(i) ==
    /\ leads # None /\ i \notin down /\ believes[i] # leads
    /\ believes' = [believes EXCEPT ![i] = leads]
    /\ UNCHANGED <<leader_hint, callVars, listed, leads, down, faults, smooth>>

Next ==
    \/ \E c \in Call :
        \/ Begin(c) \/ Receive(c) \/ Timeout(c) \/ Cancel(c)
        \/ Handle(c) \/ Refuse(c) \/ Slow(c)
    \/ \E i \in Idx :
        \/ Crash(i) \/ Restart(i) \/ Depose(i)
        \/ Elect(i) \/ Heartbeat(i)

\* Requests keep coming; tokio's timer ends an attempt on a stopped replica;
\* a live replica and the network do their part unless a fault says otherwise;
\* a majority elects a leader that sends heartbeats.
Fairness ==
    /\ \A c \in Call : WF_vars(Begin(c) \/ Handle(c) \/ Refuse(c)
                                  \/ Receive(c) \/ Timeout(c))
    /\ WF_vars(\E i \in Idx : Elect(i) \/ Heartbeat(i))

Spec == Init /\ [][Next]_vars /\ Fairness

-----------------------------------------------------------------------------
(* Properties *)

TypeOK ==
    /\ leader_hint \in Idx
    /\ pc \in [Call -> {"idle", "sent", "ok", "err"}]
    /\ idx \in [Call -> Idx]
    /\ tries \in [Call -> 0..MAX_LEADER_ATTEMPTS]
    /\ reply \in [Call -> Idx \cup {Served, Failed, None}]
    /\ executed \subseteq Call
    /\ listed \subseteq Idx
    /\ leads \in (Idx \ down) \cup {None}
    /\ believes \in [Idx -> Idx \cup {None}]
    /\ down \subseteq Idx
    /\ faults \in 0..MaxFaults
    /\ smooth \in [Call -> BOOLEAN]

\* ShardReplicaSet, router.rs:37: "a stale guess costs one extra retry, never a
\* wrong answer". The attempt that returns Ok was carried out by a leader, however
\* stale the guess the call began with and the redirects it followed.
NeverAWrongAnswer == \A c \in Call : pc[c] = "ok" => c \in executed

\* The other half of that comment: if the advertised addresses are on the list,
\* a call that nothing disturbs and no leader refuses makes one extra attempt,
\* and one more for each replica that is down, wherever other calls have left the
\* guess: also those that a leader refused, which move it off the leader.
StaleGuessCostsOneRetry ==
    \A c \in Call : smooth[c] /\ listed = Idx => tries[c] <= Cardinality(down) + 1

\* MAX_LEADER_ATTEMPTS are enough: a call that gives up was answered with an
\* error by a leader, was disturbed by a fault, or began before every live
\* replica knew the leader. A guess that concurrent calls have left at a dead
\* replica is no reason to fail, nor are addresses the list does not have, nor
\* errors that a leader has answered to other calls.
GivesUpOnlyIfDisturbed == \A c \in Call : pc[c] = "err" => ~smooth[c]

\* call_with_retry's second invariant (router.rs:313): "the cached hint advances
\* on failure, not just success", so that calls that are cancelled one after the
\* other do not start "back at the same dead replica" for ever. Once the faults
\* are over and leaders no longer refuse, calls succeed again and again, even if
\* a deadline may cancel each of them after its first attempt.
ServiceResumes ==
    <>[][\A c \in Call : ~Refuse(c)]_vars => []<>(\E c \in Call : pc[c] = "ok")
=============================================================================
