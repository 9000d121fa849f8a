---------------------------- MODULE ShardSearch -----------------------------
(***************************************************************************)
(* One search through the aggregator: every shard scans its records with   *)
(* several workers, each keeping a bounded heap of the k best              *)
(* (raftvec-core topk.rs, search.rs), the heaps of a shard are merged into *)
(* one list, and the router merges the lists of the shards that answered   *)
(* (raftvec-aggregator router.rs).                                         *)
(*                                                                         *)
(* How rayon splits the records, when it merges which heap into which, and *)
(* in which order a heap gives up its items is not fixed. A BinaryHeap is  *)
(* a set here: its root is the worst item, and no item is pushed twice,    *)
(* because the scans and the shards split the records. Scores are the      *)
(* ranks that total_cmp gives to f32 values.                               *)
(***************************************************************************)
EXTENDS Integers, FiniteSets

CONSTANTS
    Item,       \* ScoredId: records with fields id and score
    Shard,      \* the shards
    shard_id,   \* the shard of each item's id
    Task,       \* the workers of a scan
    k,          \* how many results are asked for
    router,     \* the worker that merges the answers of the shards
    NoWorker    \* no heap is being merged

ScanWorker == Shard \X Task
Worker == ScanWorker \cup {router}

ASSUME ItemAssumption ==
    /\ IsFiniteSet(Item)
    /\ \A x \in Item : x.id \in Int /\ x.score \in Int
    /\ \A x, y \in Item : x.id = y.id /\ x.score = y.score => x = y
ASSUME ShardAssumption == shard_id \in [Item -> Shard]
ASSUME TaskAssumption == Task # {}
ASSUME KAssumption == k \in Nat
ASSUME WorkerAssumption == router \notin ScanWorker /\ NoWorker \notin Worker

VARIABLES
    corpus,     \* the records of all shards, with their scores
    unscanned,  \* records no worker has scored yet
    heap,       \* each worker's TopK
    merging,    \* the worker whose heap is being merged into this one
    input,      \* the items of it that are still to be pushed
    gone,       \* workers whose heap has been consumed
    failed,     \* shards that did not answer within the deadline
    covered     \* history: the records a heap stands for

vars == <<corpus, unscanned, heap, merging, input, gone, failed, covered>>

-----------------------------------------------------------------------------
(* TopK *)

\* Ord for ScoredId: the higher score, on a tie the lower id.
Better(x, y) == x.score > y.score \/ (x.score = y.score /\ x.id < y.id)

\* Mutant: a tie is lost whatever the ids.
ReplacesHigher(x, worst) == x.score > worst.score

\* item > *worst
Replaces(x, worst) == Better(x, worst)

\* TopK::push
push(h, x) ==
    IF k = 0 THEN h
    ELSE IF Cardinality(h) < k THEN h \cup {x}
    ELSE LET worst == CHOOSE w \in h : \A y \in h \ {w} : Better(y, w)
         IN  IF Replaces(x, worst) THEN (h \ {worst}) \cup {x} ELSE h

Init ==
    /\ corpus \in SUBSET Item
    /\ \A x, y \in corpus : x.id = y.id => x = y
    /\ unscanned = corpus
    /\ heap = [w \in Worker |-> {}]
    /\ merging = [w \in Worker |-> NoWorker]
    /\ input = [w \in Worker |-> {}]
    /\ gone = {}
    /\ failed = {}
    /\ covered = [w \in Worker |-> {}]

-----------------------------------------------------------------------------
(* brute_force_top_k on one shard *)

ScanWorkers(s) == {w \in ScanWorker : w[1] = s}

Idle(w) == w \notin gone /\ merging[w] = NoWorker

\* A record is scored and pushed: the fold.
Scan(w, x) ==
    /\ w \in ScanWorker /\ Idle(w)
    /\ shard_id[x] = w[1]
    /\ unscanned' = unscanned \ {x}
    /\ heap' = [heap EXCEPT ![w] = push(@, x)]
    /\ covered' = [covered EXCEPT ![w] = @ \cup {x}]
    /\ UNCHANGED <<corpus, merging, input, gone, failed>>

\* TopK::merge consumes the other heap: the reduce, or for the router one of
\* the lists that merge_top_k flattens.
StartMerge(w, u) ==
    /\ Idle(w) /\ Idle(u) /\ w # u
    /\ merging' = [merging EXCEPT ![w] = u]
    /\ input' = [input EXCEPT ![w] = heap[u]]
    /\ gone' = gone \cup {u}
    /\ UNCHANGED <<corpus, unscanned, heap, failed, covered>>

MergeHeaps(w, u) ==
    /\ w \in ScanWorker /\ u \in ScanWorker /\ w[1] = u[1]
    /\ StartMerge(w, u)

\* for item in other.heap { self.push(item) }
PushMerged(w, x) ==
    /\ x \in input[w]
    /\ heap' = [heap EXCEPT ![w] = push(@, x)]
    /\ input' = [input EXCEPT ![w] = @ \ {x}]
    /\ covered' = [covered EXCEPT ![w] = @ \cup {x}]
    /\ UNCHANGED <<corpus, unscanned, merging, gone, failed>>

EndMerge(w) ==
    /\ merging[w] # NoWorker /\ input[w] = {}
    /\ merging' = [merging EXCEPT ![w] = NoWorker]
    /\ covered' = [covered EXCEPT ![w] = @ \cup covered[merging[w]]]
    /\ UNCHANGED <<corpus, unscanned, heap, input, gone, failed>>

-----------------------------------------------------------------------------
(* ShardRouter::search *)

\* Mutant: the answer does not wait for the end of the scan.
AnswersEarly(s, w) ==
    /\ w \in ScanWorkers(s) /\ Idle(w)
    /\ ScanWorkers(s) \ {w} \subseteq gone

\* The records of a shard have all been scanned and one heap is left: it is
\* what the shard answers.
Answers(s, w) ==
    /\ w \in ScanWorkers(s) /\ Idle(w)
    /\ ScanWorkers(s) \ {w} \subseteq gone
    /\ \A x \in unscanned : shard_id[x] # s

\* The list of this shard has been handed to the router's merge.
Merged(s) == ScanWorkers(s) \subseteq gone

\* The deadline of a shard passes, or every replica of it returned an error.
FailShard(s) ==
    /\ s \notin failed
    /\ \A u \in Shard : ~Merged(u)
    /\ failed' = failed \cup {s}
    /\ UNCHANGED <<corpus, unscanned, heap, merging, input, gone, covered>>

\* join_all has every outcome; the lists of the Ok ones are merged.
MergeShard(s, w) ==
    /\ \A u \in Shard \ failed : Merged(u) \/ \E a \in Worker : Answers(u, a)
    /\ s \notin failed
    /\ Answers(s, w)
    /\ StartMerge(router, w)

Next ==
    \/ \E w \in Worker :
        \/ \E x \in unscanned : Scan(w, x)
        \/ \E u \in Worker : MergeHeaps(w, u)
        \/ \E x \in Item : PushMerged(w, x)
        \/ EndMerge(w)
        \/ \E s \in Shard : MergeShard(s, w)
    \/ \E s \in Shard : FailShard(s)

Spec == Init /\ [][Next]_vars

-----------------------------------------------------------------------------
(* Properties *)

TypeOK ==
    /\ corpus \subseteq Item
    /\ unscanned \subseteq corpus
    /\ heap \in [Worker -> SUBSET Item]
    /\ merging \in [Worker -> Worker \cup {NoWorker}]
    /\ input \in [Worker -> SUBSET Item]
    /\ gone \subseteq Worker
    /\ failed \subseteq Shard
    /\ covered \in [Worker -> SUBSET Item]

\* H is the k best of C: all of C if C has no more than k, otherwise k items
\* none of which is beaten by one that was left out.
TopOf(H, C) ==
    /\ H \subseteq C
    /\ Cardinality(H) <= k
    /\ H # C => Cardinality(H) = k
    /\ \A x \in H, y \in C \ H : Better(x, y)

\* A heap is the top k of the records it stands for, however the scan was
\* split and merged.
HeapsAreExact == \A w \in Worker : Idle(w) => TopOf(heap[w], covered[w])

\* README.md:31, "the distributed top-k is provably identical to a single-node
\* scan over the same data", and router.rs:211-216: once the last list has been
\* merged, the router's heap is the top k of the records of all the shards that
\* are not counted in shards_failed.
SearchIsExact ==
    Idle(router) /\ (\A s \in Shard \ failed : Merged(s)) =>
        TopOf(heap[router], {x \in corpus : shard_id[x] \notin failed})
=============================================================================
