----------------------------- MODULE AgreedLog ------------------------------
(***************************************************************************)
(* What the Raft group of a shard promises to its state machines: there is *)
(* one log, it only grows, and every replica is handed a growing prefix of *)
(* it. ShardStateMachine is written on top of this promise; RaftLog is the *)
(* protocol that keeps it.                                                 *)
(***************************************************************************)
EXTENDS Integers, Sequences

CONSTANT Replica

VARIABLES
    chosen,  \* the entries agreed on so far
    known    \* the prefix each replica may apply

agreedVars == <<chosen, known>>

Prefix(s, t) == Len(s) <= Len(t) /\ \A i \in 1..Len(s) : s[i] = t[i]

AgreedInit ==
    /\ chosen = <<>>
    /\ known = [r \in Replica |-> <<>>]

Choose == chosen' # chosen => Prefix(chosen, chosen')

Learn ==
    \A r \in Replica : known'[r] # known[r] =>
        Prefix(known[r], known'[r]) /\ Prefix(known'[r], chosen')

AgreedNext == Choose /\ Learn

AgreedSpec == AgreedInit /\ [][AgreedNext]_agreedVars
=============================================================================
