----------------------------- MODULE LinearLog ------------------------------
(***************************************************************************)
(* What a shard promises to its clients. There is one log of writes that   *)
(* only grows. Writes are answered out of it. A read shows a prefix of it  *)
(* that has everything any client had been told of when the read began;    *)
(* entries that nobody had been told of may be in it or not. NodeService   *)
(* on RaftLog keeps this promise.                                          *)
(***************************************************************************)
EXTENDS Integers, Sequences

VARIABLES
    chosen,  \* the entries agreed on so far
    told,    \* how many of them some client knows of
    floor,   \* of the read in progress, if any: what was told when it began
    result   \* of the read in progress: the entries it shows, once it knows

linearVars == <<chosen, told, floor, result>>

LinearInit == chosen = <<>> /\ told = 0 /\ floor = {} /\ result = {}

Write ==
    /\ Len(chosen') > Len(chosen)
    /\ \A i \in 1..Len(chosen) : chosen'[i] = chosen[i]
    /\ UNCHANGED <<told, floor, result>>

AnswerWrite ==
    /\ told' \in told + 1..Len(chosen)
    /\ UNCHANGED <<chosen, floor, result>>

BeginRead ==
    /\ floor = {} /\ floor' = {told}
    /\ UNCHANGED <<chosen, told, result>>

Read ==
    /\ result = {}
    /\ \E f \in floor : \E n \in f..Len(chosen) : result' = {n}
    /\ UNCHANGED <<chosen, told, floor>>

AnswerRead ==
    /\ \E n \in result : told' = IF told < n THEN n ELSE told
    /\ floor' = {} /\ result' = {}
    /\ UNCHANGED chosen

FailRead ==
    /\ result = {} /\ floor' = {}
    /\ UNCHANGED <<chosen, told, result>>

LinearNext ==
    Write \/ AnswerWrite \/ BeginRead \/ Read \/ AnswerRead \/ FailRead

LinearSpec == LinearInit /\ [][LinearNext]_linearVars
=============================================================================
