-------------------------- MODULE SnapshotTransfer --------------------------
(***************************************************************************)
(* ShardStateMachine together with install_snapshot                        *)
(* (crates/raftvec-node/src/raft.rs): what a replica holds after it took   *)
(* over the snapshot another replica built.                                *)
(*                                                                         *)
(* get_current_snapshot always answers None, so openraft has no snapshot   *)
(* to send in a running cluster; the hand-over from builder to installer   *)
(* is the one its storage interface provides for. openraft installs only a *)
(* snapshot that is ahead of the replica, from the task that also applies. *)
(***************************************************************************)
EXTENDS ShardStateMachine

VARIABLES
    installing,  \* the snapshot restored but not yet entered in last_applied_log
    quiet,       \* history: no apply or install overlapped the running build
    built,       \* history: of the snapshot, whether its build was quiet and its
                 \* builder clean, and what the builder had rejected and created
    clean        \* history: the replica has installed exact snapshots only

transferVars == <<vars, installing, quiet, built, clean>>

History(r, isExact) ==
    [exact |-> isExact, rejected |-> rejected[r], createdAt |-> createdAt[r]]

TransferInit ==
    /\ Init
    /\ installing = [r \in Replica |-> NoSnapshot]
    /\ quiet = [r \in Replica |-> TRUE]
    /\ built = [r \in Replica |-> History(r, TRUE)]
    /\ clean = [r \in Replica |-> TRUE]

-----------------------------------------------------------------------------
(* install_snapshot. Store::restore replaces everything under the write    *)
(* lock of the collections; the index follows in a second step.            *)

\* Mutant: no clear().
restore_over(st, snap) ==
    [c \in CollectionName |->
        IF Exists(snap.data, c) THEN snap.data[c] ELSE st[c]]

\* Store::restore: clear(), then every collection of the snapshot.
restore(st, snap) == snap.data

BeginInstall(r, s) ==
    /\ worker[r] = "idle"
    /\ ~CollectionsLocked(r)
    /\ snapshot[s] # NoSnapshot
    /\ snapshot[s].last_log_id > last_applied_log[r]
    /\ store' = [store EXCEPT ![r] = restore(@, snapshot[s])]
    /\ worker' = [worker EXCEPT ![r] = "installing"]
    /\ installing' = [installing EXCEPT ![r] = snapshot[s]]
    /\ rejected' = [rejected EXCEPT ![r] =
                       {i \in built[s].rejected : i <= snapshot[s].last_log_id}]
    /\ createdAt' = [createdAt EXCEPT ![r] = built[s].createdAt]
    /\ quiet' = [quiet EXCEPT ![r] = FALSE]
    /\ clean' = [clean EXCEPT ![r] = built[s].exact]
    /\ UNCHANGED <<log, last_applied_log, builder, snapshot, restarts,
                   builds, built>>

FinishInstall(r) ==
    /\ worker[r] = "installing"
    /\ last_applied_log' = [last_applied_log EXCEPT ![r] =
                               installing[r].last_log_id]
    /\ worker' = [worker EXCEPT ![r] = "idle"]
    /\ installing' = [installing EXCEPT ![r] = NoSnapshot]
    /\ quiet' = [quiet EXCEPT ![r] = FALSE]
    /\ UNCHANGED <<log, store, rejected, builder, snapshot, createdAt,
                   restarts, builds, built, clean>>

-----------------------------------------------------------------------------
(* The actions of ShardStateMachine, with the history they leave *)

ApplyStep(r) ==
    /\ BeginApply(r) \/ FinishApply(r)
    /\ quiet' = [quiet EXCEPT ![r] = FALSE]
    /\ UNCHANGED <<installing, built, clean>>

BeginSnapshotStep(r) ==
    /\ BeginSnapshot(r)
    /\ quiet' = [quiet EXCEPT ![r] = worker[r] = "idle"]
    /\ UNCHANGED <<installing, built, clean>>

FinishSnapshotStep(r) ==
    /\ FinishSnapshot(r)
    /\ built' = [built EXCEPT ![r] = History(r, quiet[r] /\ clean[r])]
    /\ UNCHANGED <<installing, quiet, clean>>

OtherStep ==
    /\ \/ \E e \in Command \cup {Blank} : Commit(e)
       \/ \E r \in Replica, c \in CollectionName :
            \/ CopyCollection(r, c)
            \/ \E d \in Dim : CreateCollection(r, c, d)
    /\ UNCHANGED <<installing, quiet, built, clean>>

RestartStep(r) ==
    /\ Restart(r)
    /\ UNCHANGED built
    /\ installing' = [installing EXCEPT ![r] = NoSnapshot]
    /\ quiet' = [quiet EXCEPT ![r] = TRUE]
    /\ clean' = [clean EXCEPT ![r] = TRUE]

TransferNext ==
    \/ OtherStep
    \/ \E r \in Replica :
        \/ ApplyStep(r)
        \/ BeginSnapshotStep(r)
        \/ FinishSnapshotStep(r)
        \/ RestartStep(r)
        \/ \E s \in Replica \ {r} : BeginInstall(r, s)
        \/ FinishInstall(r)

TransferSpec == TransferInit /\ [][TransferNext]_transferVars

-----------------------------------------------------------------------------
(* Properties *)

CaughtUp(r) ==
    worker[r] = "idle" =>
        \A c \in CollectionName :
            Exists(store[r], c) =>
                Reflects(store[r][c], log, rejected[r], c, Done(r))

\* A snapshot built while the state machine rested brings the replica that
\* installs it, and every replica it is passed on to, to exactly the state
\* of its last_log_id: nothing missing, nothing left over from before.
QuietSnapshotsAreExact == \A r \in Replica : clean[r] => CaughtUp(r)

\* store.rs:151: "a lagging or new replica catches up from this instead of
\* replaying the whole log". The collections of a snapshot that is being
\* installed hold what the entries up to its last_log_id say, also when apply
\* ran beside the builder.
SnapshotsCatchUp ==
    \A r \in Replica :
        LET snap == installing[r] IN
        snap # NoSnapshot =>
            \A c \in CollectionName :
                Exists(snap.data, c) =>
                    Reflects(snap.data[c], log, rejected[r], c, snap.last_log_id)
=============================================================================
