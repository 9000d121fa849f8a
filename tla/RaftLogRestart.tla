--------------------------- MODULE RaftLogRestart ---------------------------
(***************************************************************************)
(* RaftLog with replicas that are restarted. LogStore lives in memory, so  *)
(* the replica comes back without the vote it gave and the entries it      *)
(* confirmed (crates/raftvec-node/src/main.rs), under the same node id.    *)
(*                                                                         *)
(* Of the ways a restarted replica may go on, it campaigns only with       *)
(* ballots it has not used before; the code has no such restriction.       *)
(***************************************************************************)
EXTENDS RaftLog

CONSTANT MaxRestarts  \* bound: restarts of replicas

VARIABLE restarts     \* restarts so far (bounds the model)

restartVars == <<vars, restarts>>

RestartInit == Init /\ restarts = 0

\* The process ends and main starts it again with LogStore::default().
Restart(r) ==
    /\ restarts < MaxRestarts
    /\ restarts' = restarts + 1
    /\ vote' = [vote EXCEPT ![r] = 0]
    /\ log' = [log EXCEPT ![r] = <<>>]
    /\ committed' = [committed EXCEPT ![r] = 0]
    /\ leader' = [leader EXCEPT ![r] = FALSE]
    /\ UNCHANGED <<ballotVars, chosen>>

RestartNext ==
    \/ Next /\ UNCHANGED restarts
    \/ \E r \in Replica : Restart(r)

RestartSpec == RestartInit /\ [][RestartNext]_restartVars

-----------------------------------------------------------------------------
\* README.md:29: "no acknowledged write is ever lost to a single node
\* failure". client_write answers once its entry is committed and applied; a
\* client command that was committed is in the log of the leader from then on.
AcknowledgedNeverLost ==
    \A r \in Replica : Leads(r) =>
        \A i \in 1..Len(chosen) :
            chosen[i].payload \in Value =>
                i <= Len(log[r]) /\ log[r][i] = chosen[i]
=============================================================================
