------------------------- MODULE ShardSearchProofs --------------------------
(***************************************************************************)
(* Proofs about ShardSearch: for every k, every set of records, any number *)
(* of shards and workers, and every order of scanning and merging, heaps   *)
(* and results are exact.                                                  *)
(***************************************************************************)
EXTENDS ShardSearch, FiniteSetTheorems, TLAPS

-----------------------------------------------------------------------------
(* The heap *)

\* Ord for ScoredId is a strict total order: ids break every tie.
LEMMA BetterOrder ==
    /\ \A x \in Item : ~Better(x, x)
    /\ \A x, y \in Item : x # y => Better(x, y) \/ Better(y, x)
    /\ \A x, y, z \in Item : Better(x, y) /\ Better(y, z) => Better(x, z)
<1>1. \A x \in Item : x.id \in Int /\ x.score \in Int
  BY ItemAssumption
<1>2. \A x, y \in Item : x # y => x.id # y.id \/ x.score # y.score
  BY ItemAssumption
<1> QED BY <1>1, <1>2 DEF Better

\* Sets of items are finite, so the cardinalities of heaps are numbers.
LEMMA ItemsFinite ==
    ASSUME NEW S \in SUBSET Item
    PROVE  IsFiniteSet(S) /\ Cardinality(S) \in Nat
BY ItemAssumption, FS_Subset, FS_CardinalityType

\* A heap that is not empty has a worst item, the one BinaryHeap::peek shows.
LEMMA WorstExists ==
    ASSUME NEW H \in SUBSET Item, H # {}
    PROVE  \E w \in H : \A y \in H \ {w} : Better(y, w)
<1> DEFINE Above(w) == {y \in H : Better(w, y)}
           T == {Above(w) : w \in H}
           R == StrictSubsetOrdering(Item)
<1>1. IsWellFoundedOn(R, SUBSET Item)
  BY Zenon, ItemAssumption, FS_FiniteSubsetsOfFinite, FS_StrictSubsetOrderingWellFounded
<1>2. T \subseteq SUBSET Item /\ T # {}
  <2> PICK w \in H : TRUE
    OBVIOUS
  <2> Above(w) \in T
    OBVIOUS
  <2> QED BY Zenon
<1>3. PICK t \in T : \A u \in T : ~(<<u, t>> \in R)
  <2> HIDE DEF T, R
  <2> QED BY <1>1, <1>2, WFMin
<1>4. PICK w \in H : t = Above(w)
  OBVIOUS
<1>5. ASSUME NEW y \in H \ {w}
      PROVE  Better(y, w)
  <2>1. SUFFICES ASSUME Better(w, y) PROVE FALSE
    BY BetterOrder
  <2>2. Above(y) \in SUBSET Above(w)
    BY <2>1, BetterOrder
  <2>3. y \in Above(w) /\ y \notin Above(y)
    BY <2>1, BetterOrder
  <2>4. Above(y) \in SUBSET Item /\ Above(w) \in SUBSET Item /\ Above(y) \in T
    OBVIOUS
  <2> HIDE DEF Above, T
  <2>5. Above(y) # Above(w)
    BY <2>3
  <2>6. <<Above(y), Above(w)>> \in R
    BY <2>2, <2>4, <2>5 DEF StrictSubsetOrdering
  <2> QED BY <1>3, <1>4, <2>4, <2>6
<1> QED BY <1>5

\* TopK::push keeps the k best of what the heap stood for and the new item.
LEMMA PushTop ==
    ASSUME NEW C \in SUBSET Item, NEW H, TopOf(H, C), NEW x \in Item \ C
    PROVE  TopOf(push(H, x), C \cup {x})
<1>1. H \in SUBSET Item /\ H \subseteq C /\ x \notin H
  BY DEF TopOf
<1>2. IsFiniteSet(H) /\ Cardinality(H) \in Nat /\ k \in Nat
  BY <1>1, ItemsFinite, KAssumption
<1>3. CASE k = 0
  <2>1. H = {} /\ Cardinality(H) = 0
    BY <1>2, <1>3, FS_EmptySet DEF TopOf
  <2> QED BY <1>3, <2>1 DEF TopOf, push, Replaces
<1>4. CASE k # 0 /\ Cardinality(H) < k
  <2>1. H = C
    BY <1>2, <1>4 DEF TopOf
  <2>2. push(H, x) = C \cup {x}
    BY <1>4, <2>1 DEF push, Replaces
  <2>3. Cardinality(C \cup {x}) = Cardinality(H) + 1
    BY SMTT(30), <1>1, <1>2, <2>1, FS_AddElement
  <2>4. Cardinality(C \cup {x}) <= k
    BY <1>2, <1>4, <2>3
  <2> QED BY <2>2, <2>4 DEF TopOf
<1>5. CASE k # 0 /\ ~(Cardinality(H) < k)
  <2> DEFINE worst == CHOOSE w \in H : \A y \in H \ {w} : Better(y, w)
  <2>1. Cardinality(H) = k
    BY <1>2, <1>5 DEF TopOf
  <2>2. H # {}
    BY <1>2, <1>5, <2>1, FS_EmptySet
  <2>3. worst \in H /\ \A y \in H \ {worst} : Better(y, worst)
    BY <1>1, <2>2, WorstExists
  <2>4. push(H, x) = IF Better(x, worst) THEN (H \ {worst}) \cup {x} ELSE H
    BY <1>5 DEF push, Replaces
  <2> HIDE DEF worst
  <2>5. worst \in Item
    BY <1>1, <2>3
  <2>6. \A y \in C \ H : Better(worst, y)
    BY <2>3 DEF TopOf
  <2>7. CASE Better(x, worst)
    <3> DEFINE G == (H \ {worst}) \cup {x}
    <3>1. Cardinality(G) = k
      <4>1. IsFiniteSet(H \ {worst}) /\ Cardinality(H \ {worst}) = k - 1
        BY <1>2, <2>1, <2>3, FS_RemoveElement
      <4>2. Cardinality(G) = (k - 1) + 1
        BY <1>1, <4>1, FS_AddElement
      <4> QED BY <1>2, <4>2
    <3>2. ASSUME NEW a \in G, NEW y \in (C \cup {x}) \ G
          PROVE  Better(a, y)
      <4>1. y = worst \/ y \in C \ H
        OBVIOUS
      <4>2. CASE a = x
        BY <1>1, <2>5, <2>6, <2>7, <4>1, <4>2, BetterOrder
      <4>3. CASE a \in H \ {worst}
        BY <2>3, <4>1, <4>3 DEF TopOf
      <4> QED BY <4>2, <4>3
    <3>3. G \subseteq C \cup {x}
      BY <1>1
    <3>4. push(H, x) = G
      BY <2>4, <2>7
    <3> HIDE DEF G
    <3> QED BY <1>2, <3>1, <3>2, <3>3, <3>4 DEF TopOf
  <2>8. CASE ~Better(x, worst)
    <3>1. Better(worst, x)
      BY <1>1, <2>3, <2>5, <2>8, BetterOrder
    <3>2. ASSUME NEW a \in H, NEW y \in (C \cup {x}) \ H
          PROVE  Better(a, y)
      <4>1. CASE y = x
        BY <1>1, <2>3, <2>5, <3>1, <4>1, BetterOrder
      <4>2. CASE y \in C \ H
        BY <4>2 DEF TopOf
      <4> QED BY <4>1, <4>2
    <3> QED BY <1>1, <1>2, <2>1, <2>4, <2>8, <3>2 DEF TopOf
  <2> QED BY <2>7, <2>8
<1> QED BY <1>3, <1>4, <1>5

\* A heap that has taken in all of another one's items stands for everything
\* the other stood for: technical-design.md:214, the local top-k lists hold
\* the global top-k.
LEMMA MergeTop ==
    ASSUME NEW C \in SUBSET Item, NEW D \in SUBSET Item, NEW H, NEW L,
           TopOf(H, C), TopOf(L, D), L \subseteq C
    PROVE  TopOf(H, C \cup D)
<1>1. H \in SUBSET Item /\ L \in SUBSET Item
  BY DEF TopOf
<1>2. /\ IsFiniteSet(H) /\ Cardinality(H) \in Nat /\ Cardinality(H) <= k
      /\ IsFiniteSet(L) /\ Cardinality(L) \in Nat
      /\ k \in Nat
  BY <1>1, ItemsFinite, KAssumption DEF TopOf
<1>3. ASSUME H # C \cup D PROVE Cardinality(H) = k
  <2>1. CASE H # C
    BY <2>1 DEF TopOf
  <2>2. CASE H = C
    <3>1. L # D
      BY <1>3, <2>2
    <3>2. Cardinality(L) = k
      BY <3>1 DEF TopOf
    <3>3. Cardinality(L) <= Cardinality(H)
      BY <1>2, <2>2, FS_Subset
    <3> QED BY <1>2, <3>2, <3>3
  <2> QED BY <2>1, <2>2
<1>4. ASSUME NEW x \in H, NEW y \in (C \cup D) \ H
      PROVE  Better(x, y)
  <2>1. CASE y \in C
    BY <2>1 DEF TopOf
  <2>2. CASE y \notin C
    <3>1. y \in D \ L
      BY <2>2
    <3>2. Cardinality(L) = k /\ \A z \in L : Better(z, y)
      BY <3>1 DEF TopOf
    <3>3. SUFFICES ASSUME Better(y, x) PROVE FALSE
      BY <1>1, <3>1, BetterOrder
    <3>4. x \in Item /\ y \in Item
      BY <1>1, <3>1
    <3>5. \A z \in L : Better(z, x)
      BY <1>1, <3>2, <3>3, <3>4, BetterOrder
    <3>6. x \notin L
      BY <3>4, <3>5, BetterOrder
    <3>7. ASSUME NEW z \in L PROVE z \in H
      <4>1. SUFFICES ASSUME z \notin H PROVE FALSE
        OBVIOUS
      <4>2. Better(x, z)
        BY <4>1 DEF TopOf
      <4> QED BY <1>1, <3>4, <3>5, <4>2, BetterOrder
    <3>8. L \cup {x} \in SUBSET H
      BY <3>7
    <3>9. Cardinality(L \cup {x}) = k + 1
      BY Zenon, <1>2, <3>2, <3>6, FS_AddElement
    <3>10. Cardinality(L \cup {x}) <= Cardinality(H)
      BY <1>2, <3>8, FS_Subset
    <3> QED BY <1>2, <3>9, <3>10
  <2> QED BY <2>1, <2>2
<1> QED BY <1>2, <1>3, <1>4 DEF TopOf

-----------------------------------------------------------------------------
(* The inductive invariant *)

\* The records a worker answers for: its own, and while it merges another
\* heap, those of that heap.
Holds(w) ==
    covered[w] \cup IF merging[w] = NoWorker THEN {} ELSE covered[merging[w]]

HeapsTop == \A w \in Worker : TopOf(heap[w], covered[w])

\* What is left of a merge has not been pushed; the rest has.
MergesInOrder ==
    \A w \in Worker :
        /\ merging[w] = NoWorker => input[w] = {}
        /\ merging[w] # NoWorker =>
            /\ w \notin gone /\ merging[w] \in gone
            /\ input[w] \cap covered[w] = {}
            /\ input[w] \subseteq heap[merging[w]]
            /\ heap[merging[w]] \subseteq input[w] \cup covered[w]

\* No record is in two hands.
Apart ==
    /\ \A w \in Worker \ gone : Holds(w) \cap unscanned = {}
    /\ \A w, u \in Worker \ gone : w # u => Holds(w) \cap Holds(u) = {}

\* No record is lost.
Accounted ==
    \A x \in corpus :
        x \in unscanned \/ \E w \in Worker \ gone : x \in Holds(w)

\* Workers keep to their shard, the router to the shards that answered.
OwnShard ==
    /\ gone \subseteq ScanWorker
    /\ \A w \in Worker : covered[w] \subseteq corpus
    /\ \A w \in ScanWorker :
        /\ \A x \in covered[w] : shard_id[x] = w[1]
        /\ merging[w] # NoWorker =>
            merging[w] \in ScanWorker /\ merging[w][1] = w[1]
    /\ \A x \in covered[router] : shard_id[x] \notin failed
    /\ merging[router] # NoWorker =>
            merging[router] \in ScanWorker /\ merging[router][1] \notin failed

\* The router merges nothing before every shard has answered or failed.
RouterWaits ==
    (\A s \in Shard : ~Merged(s)) =>
        covered[router] = {} /\ merging[router] = NoWorker

\* A shard's last heap is given up only when its scan is over.
ScanOver == \A s \in Shard : Merged(s) => \A x \in unscanned : shard_id[x] # s

IInv ==
    /\ TypeOK
    /\ HeapsTop
    /\ MergesInOrder
    /\ Apart
    /\ Accounted
    /\ OwnShard
    /\ RouterWaits
    /\ ScanOver

-----------------------------------------------------------------------------
(* The initial states *)

\* Every shard has workers, none of which is the router.
LEMMA Workers ==
    /\ ScanWorker \subseteq Worker /\ router \in Worker
    /\ router \notin ScanWorker
    /\ NoWorker \notin Worker
    /\ \A w \in ScanWorker : w[1] \in Shard /\ w \in ScanWorkers(w[1])
    /\ \A s \in Shard : ScanWorkers(s) # {}
<1>1. PICK t \in Task : TRUE
  BY TaskAssumption
<1>2. \A s \in Shard : <<s, t>> \in ScanWorkers(s)
  BY DEF ScanWorkers, ScanWorker
<1>3. \A w \in ScanWorker : w[1] \in Shard
  BY DEF ScanWorker
<1>4. \A s \in Shard : ScanWorkers(s) # {}
  BY Zenon, <1>2
<1> QED BY <1>3, <1>4, WorkerAssumption DEF Worker, ScanWorkers

LEMMA InitIInv == Init => IInv
<1> SUFFICES ASSUME Init PROVE IInv
  OBVIOUS
<1>1. TypeOK
  BY DEF Init, TypeOK
<1>2. HeapsTop
  BY FS_EmptySet, KAssumption DEF Init, HeapsTop, TopOf
<1>3. MergesInOrder
  BY DEF Init, MergesInOrder
<1>4. \A w \in Worker : Holds(w) = {}
  BY DEF Init, Holds
<1>5. Apart /\ Accounted
  BY <1>4 DEF Init, Apart, Accounted
<1>6. OwnShard
  BY Workers DEF Init, OwnShard
<1>7. RouterWaits
  BY Workers DEF Init, RouterWaits
<1>8. ScanOver
  BY Workers DEF Init, ScanOver, Merged
<1> QED BY <1>1, <1>2, <1>3, <1>5, <1>6, <1>7, <1>8 DEF IInv

-----------------------------------------------------------------------------
(* The steps *)

\* One record is scored and pushed.
LEMMA ScanStep ==
    ASSUME IInv, NEW w \in Worker, NEW x \in unscanned, Scan(w, x)
    PROVE  IInv'
<1> USE DEF IInv
<1>1. /\ w \in ScanWorker /\ w \notin gone /\ merging[w] = NoWorker
      /\ shard_id[x] = w[1]
      /\ x \in corpus /\ x \in Item
      /\ input[w] = {}
  BY DEF Scan, Idle, TypeOK, MergesInOrder
<1>2. /\ unscanned' = unscanned \ {x}
      /\ heap' = [heap EXCEPT ![w] = push(heap[w], x)]
      /\ covered' = [covered EXCEPT ![w] = covered[w] \cup {x}]
      /\ corpus' = corpus /\ merging' = merging /\ input' = input
      /\ gone' = gone /\ failed' = failed
  BY DEF Scan
<1>3. /\ heap'[w] = push(heap[w], x)
      /\ covered'[w] = covered[w] \cup {x}
      /\ \A v \in Worker \ {w} : heap'[v] = heap[v] /\ covered'[v] = covered[v]
  BY <1>2 DEF TypeOK
<1>4. covered[w] \in SUBSET Item /\ x \notin covered[w]
  BY <1>1 DEF TypeOK, Apart, Holds
<1>5. TopOf(push(heap[w], x), covered[w] \cup {x})
  BY <1>1, <1>4, PushTop DEF HeapsTop
<1>6. push(heap[w], x) \in SUBSET Item
  BY <1>1, <1>4, <1>5 DEF TopOf
<1>7. TypeOK'
  BY <1>1, <1>2, <1>4, <1>6 DEF TypeOK
<1>8. HeapsTop'
  <2> SUFFICES ASSUME NEW v \in Worker PROVE TopOf(heap'[v], covered'[v])
    BY DEF HeapsTop, TopOf
  <2>1. TopOf(heap[v], covered[v])
    BY DEF HeapsTop
  <2> QED BY <1>3, <1>5, <2>1
<1>9. MergesInOrder'
  <2> SUFFICES ASSUME NEW v \in Worker, merging[v] # NoWorker
               PROVE  /\ v \notin gone /\ merging[v] \in gone
                      /\ input[v] \cap covered'[v] = {}
                      /\ input[v] \subseteq heap'[merging[v]]
                      /\ heap'[merging[v]] \subseteq input[v] \cup covered'[v]
    BY <1>2 DEF MergesInOrder
  <2>1. v # w /\ merging[v] \in gone /\ merging[v] # w
    BY <1>1 DEF MergesInOrder
  <2>2. merging[v] \in Worker
    BY <2>1 DEF TypeOK
  <2> QED BY <1>3, <2>1, <2>2 DEF MergesInOrder
<1>10. /\ Holds(w)' = Holds(w) \cup {x}
       /\ \A v \in Worker \ (gone \cup {w}) : Holds(v)' = Holds(v)
  <2>1. Holds(w)' = Holds(w) \cup {x}
    BY <1>1, <1>2, <1>3 DEF Holds
  <2>2. ASSUME NEW v \in Worker \ (gone \cup {w}) PROVE Holds(v)' = Holds(v)
    <3>1. CASE merging[v] = NoWorker
      BY <1>2, <1>3, <3>1 DEF Holds
    <3>2. CASE merging[v] # NoWorker
      <4>1. merging[v] \in Worker \ {w}
        BY <1>1, <3>2 DEF MergesInOrder, TypeOK
      <4> QED BY <1>2, <1>3, <3>2, <4>1 DEF Holds
    <3> QED BY <3>1, <3>2
  <2> QED BY <2>1, <2>2
<1>11. Apart'
  <2>1. ASSUME NEW v \in Worker \ gone PROVE Holds(v)' \cap unscanned' = {}
    BY <1>2, <1>10 DEF Apart
  <2>2. ASSUME NEW v \in Worker \ gone, NEW u \in Worker \ gone, v # u
        PROVE  Holds(v)' \cap Holds(u)' = {}
    <3>1. Holds(v) \cap Holds(u) = {} /\ x \notin Holds(v) /\ x \notin Holds(u)
      BY <2>2 DEF Apart
    <3>2. v = w \/ Holds(v)' = Holds(v)
      BY <1>10
    <3>3. u = w \/ Holds(u)' = Holds(u)
      BY <1>10
    <3> QED BY <1>10, <2>2, <3>1, <3>2, <3>3
  <2> QED BY <1>2, <2>1, <2>2 DEF Apart
<1>12. Accounted'
  <2> SUFFICES ASSUME NEW y \in corpus, y \notin unscanned'
               PROVE  \E v \in Worker \ gone : y \in Holds(v)'
    BY <1>2 DEF Accounted
  <2>1. CASE y = x
    BY <1>1, <1>10, <2>1
  <2>2. CASE y # x
    <3>1. PICK v \in Worker \ gone : y \in Holds(v)
      BY <1>2, <2>2 DEF Accounted
    <3> QED BY <1>10, <3>1
  <2> QED BY <2>1, <2>2
<1>13. OwnShard'
  <2>1. /\ gone \subseteq ScanWorker
        /\ \A v \in Worker : covered'[v] \subseteq corpus
    BY <1>1, <1>3 DEF OwnShard
  <2>2. \A v \in ScanWorker : \A y \in covered'[v] : shard_id[y] = v[1]
    BY <1>1, <1>3, Workers DEF OwnShard
  <2>3. covered'[router] = covered[router]
    BY <1>1, <1>3, Workers
  <2> QED BY <1>2, <2>1, <2>2, <2>3 DEF OwnShard
<1>14. RouterWaits' /\ ScanOver'
  <2>1. covered'[router] = covered[router]
    BY <1>1, <1>3, Workers
  <2>2. \A s : Merged(s)' <=> Merged(s)
    BY <1>2 DEF Merged
  <2> QED BY <1>2, <2>1, <2>2 DEF RouterWaits, ScanOver
<1> QED BY <1>7, <1>8, <1>9, <1>11, <1>12, <1>13, <1>14

\* A worker begins to take over another worker's heap.
LEMMA StartMergeStep ==
    ASSUME IInv, NEW w \in Worker, NEW u \in ScanWorker, StartMerge(w, u)
    PROVE  (TypeOK /\ HeapsTop /\ MergesInOrder /\ Apart /\ Accounted)'
<1> USE DEF IInv
<1>1. /\ u \in Worker /\ w # u
      /\ w \notin gone /\ merging[w] = NoWorker
      /\ u \notin gone /\ merging[u] = NoWorker
  BY Workers DEF StartMerge, Idle
<1>2. /\ merging' = [merging EXCEPT ![w] = u]
      /\ input' = [input EXCEPT ![w] = heap[u]]
      /\ gone' = gone \cup {u}
      /\ corpus' = corpus /\ unscanned' = unscanned /\ heap' = heap
      /\ failed' = failed /\ covered' = covered
  BY DEF StartMerge
<1>3. /\ merging'[w] = u /\ input'[w] = heap[u]
      /\ \A v \in Worker \ {w} : merging'[v] = merging[v] /\ input'[v] = input[v]
  BY <1>2 DEF TypeOK
<1>4. heap[u] \subseteq covered[u] /\ heap[u] \subseteq Item
  BY <1>1 DEF HeapsTop, TopOf, TypeOK
<1>5. TypeOK'
  BY <1>1, <1>2, <1>4 DEF TypeOK
<1>6. HeapsTop'
  BY <1>2 DEF HeapsTop, TopOf
<1>7. u # NoWorker
  BY <1>1, Workers
<1>8. covered[w] \cap covered[u] = {}
  BY <1>1 DEF Apart, Holds
<1>9. MergesInOrder'
  <2> SUFFICES ASSUME NEW v \in Worker
               PROVE  /\ merging'[v] = NoWorker => input'[v] = {}
                      /\ merging'[v] # NoWorker =>
                          /\ v \notin gone' /\ merging'[v] \in gone'
                          /\ input'[v] \cap covered[v] = {}
                          /\ input'[v] \subseteq heap[merging'[v]]
                          /\ heap[merging'[v]] \subseteq input'[v] \cup covered[v]
    BY <1>2 DEF MergesInOrder
  <2>1. CASE v = w
    BY <1>1, <1>2, <1>3, <1>4, <1>7, <1>8, <2>1
  <2>2. CASE v # w
    <3>1. merging'[v] = merging[v] /\ input'[v] = input[v]
      BY <1>3, <2>2
    <3>2. merging[v] # NoWorker => v # u
      BY <1>1
    <3> QED BY <1>2, <3>1, <3>2 DEF MergesInOrder
  <2> QED BY <2>1, <2>2
<1>10. /\ Holds(w)' = Holds(w) \cup Holds(u)
       /\ \A v \in Worker \ {w} : Holds(v)' = Holds(v)
  <2>1. Holds(w) = covered[w] /\ Holds(u) = covered[u]
    BY <1>1 DEF Holds
  <2>2. Holds(w)' = covered[w] \cup covered[u]
    BY <1>2, <1>3, <1>7 DEF Holds
  <2>3. \A v \in Worker \ {w} : Holds(v)' = Holds(v)
    BY <1>2, <1>3 DEF Holds
  <2> QED BY <2>1, <2>2, <2>3
<1>11. Apart'
  <2>1. ASSUME NEW v \in Worker \ gone' PROVE Holds(v)' \cap unscanned' = {}
    BY <1>1, <1>2, <1>10 DEF Apart
  <2>2. ASSUME NEW v \in Worker \ gone', NEW a \in Worker \ gone', v # a
        PROVE  Holds(v)' \cap Holds(a)' = {}
    <3>1. v \notin gone /\ a \notin gone /\ v # u /\ a # u
      BY <1>2
    <3>2. /\ Holds(v) \cap Holds(a) = {} /\ Holds(v) \cap Holds(u) = {}
          /\ Holds(a) \cap Holds(u) = {}
      BY <1>1, <2>2, <3>1 DEF Apart
    <3>3. v = w \/ Holds(v)' = Holds(v)
      BY <1>10
    <3>4. a = w \/ Holds(a)' = Holds(a)
      BY <1>10
    <3> QED BY <1>10, <2>2, <3>2, <3>3, <3>4
  <2> QED BY <2>1, <2>2 DEF Apart
<1>12. Accounted'
  <2> SUFFICES ASSUME NEW y \in corpus, y \notin unscanned
               PROVE  \E v \in Worker \ gone' : y \in Holds(v)'
    BY <1>2 DEF Accounted
  <2>1. PICK v \in Worker \ gone : y \in Holds(v)
    BY DEF Accounted
  <2>2. CASE v \in {u, w}
    <3>1. w \in Worker \ gone' /\ y \in Holds(w)'
      BY <1>1, <1>2, <1>10, <2>1, <2>2
    <3> QED BY <3>1
  <2>3. CASE v \notin {u, w}
    BY <1>2, <1>10, <2>1, <2>3
  <2> QED BY <2>2, <2>3
<1> QED BY <1>5, <1>6, <1>9, <1>11, <1>12

\* Two heaps of a shard are merged.
LEMMA MergeHeapsStep ==
    ASSUME IInv, NEW w \in Worker, NEW u \in Worker, MergeHeaps(w, u)
    PROVE  IInv'
<1>1. /\ w \in ScanWorker /\ u \in ScanWorker /\ w[1] = u[1]
      /\ StartMerge(w, u)
  BY DEF MergeHeaps
<1>2. (TypeOK /\ HeapsTop /\ MergesInOrder /\ Apart /\ Accounted)'
  BY <1>1, StartMergeStep
<1>3. /\ w # u /\ w \notin gone
      /\ merging' = [merging EXCEPT ![w] = u]
      /\ gone' = gone \cup {u}
      /\ corpus' = corpus /\ unscanned' = unscanned
      /\ failed' = failed /\ covered' = covered
  BY <1>1 DEF StartMerge, Idle
<1>4. /\ merging'[w] = u
      /\ \A v \in Worker \ {w} : merging'[v] = merging[v]
  BY <1>3 DEF IInv, TypeOK
<1>5. merging'[router] = merging[router]
  BY <1>1, <1>4, Workers
<1>6. OwnShard'
  <2>1. \A v \in ScanWorker : merging'[v] # NoWorker =>
            merging'[v] \in ScanWorker /\ merging'[v][1] = v[1]
    BY SMTT(30), <1>1, <1>4, Workers DEF IInv, OwnShard
  <2>2. gone' \subseteq ScanWorker
    BY <1>1, <1>3 DEF IInv, OwnShard
  <2> QED BY SMTT(30), <1>3, <1>5, <2>1, <2>2 DEF IInv, OwnShard
<1>7. \A s \in Shard : Merged(s)' <=> Merged(s)
  <2> TAKE s \in Shard
  <2>1. Merged(s) => Merged(s)'
    BY <1>3 DEF Merged
  <2>2. ASSUME Merged(s)' PROVE Merged(s)
    <3>1. u \notin ScanWorkers(s)
      BY <1>1, <1>3, <2>2 DEF Merged, ScanWorkers
    <3> QED BY <1>3, <2>2, <3>1 DEF Merged
  <2> QED BY <2>1, <2>2
<1>8. RouterWaits' /\ ScanOver'
  BY <1>3, <1>5, <1>7 DEF IInv, RouterWaits, ScanOver
<1> QED BY <1>2, <1>6, <1>8 DEF IInv

\* The router begins to merge the list of a shard.
LEMMA MergeShardStep ==
    ASSUME IInv, NEW s \in Shard, NEW w \in Worker, MergeShard(s, w)
    PROVE  IInv'
<1>1. /\ s \notin failed /\ Answers(s, w) /\ StartMerge(router, w)
      /\ w \in ScanWorker /\ w[1] = s
  BY DEF MergeShard, Answers, ScanWorkers
<1>2. (TypeOK /\ HeapsTop /\ MergesInOrder /\ Apart /\ Accounted)'
  BY <1>1, Workers, StartMergeStep
<1>3. /\ merging' = [merging EXCEPT ![router] = w]
      /\ gone' = gone \cup {w}
      /\ corpus' = corpus /\ unscanned' = unscanned
      /\ failed' = failed /\ covered' = covered
  BY <1>1 DEF StartMerge
<1>4. /\ merging'[router] = w
      /\ \A v \in ScanWorker : merging'[v] = merging[v]
  BY ZenonT(60), <1>3, Workers DEF IInv, TypeOK
<1>5. OwnShard'
  <2>1. gone' \subseteq ScanWorker
    BY Zenon, <1>1, <1>3 DEF IInv, OwnShard
  <2> QED BY <1>1, <1>3, <1>4, <2>1 DEF IInv, OwnShard
<1>6. Merged(s)'
  BY Zenon, <1>1, <1>3 DEF Merged, Answers, ScanWorkers
<1>7. RouterWaits'
  BY <1>6 DEF RouterWaits
<1>8. ScanOver'
  <2> SUFFICES ASSUME NEW z \in Shard, Merged(z)', NEW x \in unscanned
               PROVE  shard_id[x] # z
    BY <1>3 DEF ScanOver
  <2>1. CASE z = s
    BY <1>1, <2>1 DEF Answers
  <2>2. CASE z # s
    <3>1. w \notin ScanWorkers(z)
      BY <1>1, <2>2 DEF ScanWorkers
    <3>2. Merged(z)
      BY <1>3, <3>1 DEF Merged, ScanWorkers
    <3> QED BY <3>2 DEF IInv, ScanOver
  <2> QED BY <2>1, <2>2
<1> QED BY <1>2, <1>5, <1>7, <1>8 DEF IInv

\* One item of the other heap is pushed.
LEMMA PushMergedStep ==
    ASSUME IInv, NEW w \in Worker, NEW x \in Item, PushMerged(w, x)
    PROVE  IInv'
<1> USE DEF IInv
<1> DEFINE u == merging[w]
<1>1. /\ x \in input[w] /\ u # NoWorker /\ u \in Worker
      /\ w \notin gone /\ u \in gone
      /\ x \notin covered[w] /\ x \in heap[u]
      /\ input[w] \cap covered[w] = {}
      /\ input[w] \subseteq heap[u] /\ heap[u] \subseteq input[w] \cup covered[w]
  BY DEF PushMerged, MergesInOrder, TypeOK
<1>2. /\ heap' = [heap EXCEPT ![w] = push(heap[w], x)]
      /\ input' = [input EXCEPT ![w] = input[w] \ {x}]
      /\ covered' = [covered EXCEPT ![w] = covered[w] \cup {x}]
      /\ corpus' = corpus /\ unscanned' = unscanned /\ merging' = merging
      /\ gone' = gone /\ failed' = failed
  BY DEF PushMerged
<1>3. /\ heap'[w] = push(heap[w], x) /\ input'[w] = input[w] \ {x}
      /\ covered'[w] = covered[w] \cup {x}
      /\ \A v \in Worker \ {w} : /\ heap'[v] = heap[v] /\ input'[v] = input[v]
                                /\ covered'[v] = covered[v]
  BY Zenon, <1>2 DEF TypeOK
<1>4. x \in covered[u] /\ w # u
  BY Zenon, <1>1 DEF HeapsTop, TopOf
<1>5. TopOf(push(heap[w], x), covered[w] \cup {x})
  BY Zenon, <1>1, PushTop DEF HeapsTop, TypeOK
<1>6. push(heap[w], x) \in SUBSET Item /\ covered[w] \cup {x} \in SUBSET Item
  BY Zenon, <1>5 DEF TopOf, TypeOK
<1>7. TypeOK'
  BY Zenon, <1>2, <1>6 DEF TypeOK
<1>8. HeapsTop'
  <2> SUFFICES ASSUME NEW v \in Worker PROVE TopOf(heap'[v], covered'[v])
    BY DEF HeapsTop, TopOf
  <2>1. TopOf(heap[v], covered[v])
    BY DEF HeapsTop
  <2> QED BY Zenon, <1>3, <1>5, <2>1
<1>9. MergesInOrder'
  <2> SUFFICES ASSUME NEW v \in Worker
               PROVE  /\ merging[v] = NoWorker => input'[v] = {}
                      /\ merging[v] # NoWorker =>
                          /\ v \notin gone /\ merging[v] \in gone
                          /\ input'[v] \cap covered'[v] = {}
                          /\ input'[v] \subseteq heap'[merging[v]]
                          /\ heap'[merging[v]] \subseteq input'[v] \cup covered'[v]
    BY <1>2 DEF MergesInOrder
  <2>1. merging[v] # NoWorker => merging[v] \in Worker \ {w}
    BY Zenon, <1>1 DEF MergesInOrder, TypeOK
  <2>2. CASE v = w
    BY Zenon, <1>1, <1>3, <2>1, <2>2
  <2>3. CASE v # w
    BY ZenonT(60), <1>3, <2>1, <2>3 DEF MergesInOrder
  <2> QED BY <2>2, <2>3
<1>10. \A v \in Worker \ gone : Holds(v)' = Holds(v)
  <2> TAKE v \in Worker \ gone
  <2>1. merging[v] # NoWorker => merging[v] \in Worker \ {w}
    BY SMTT(30), <1>1 DEF MergesInOrder, TypeOK
  <2>2. CASE v = w
    BY SMTT(30), <1>1, <1>2, <1>3, <1>4, <2>1, <2>2 DEF Holds
  <2>3. CASE v # w
    BY <1>2, <1>3, <2>1, <2>3 DEF Holds
  <2> QED BY <2>2, <2>3
<1>11. Apart' /\ Accounted'
  BY <1>2, <1>10 DEF Apart, Accounted
<1>12. OwnShard'
  <2>1. x \in corpus
    BY SMTT(30), <1>1, <1>4 DEF OwnShard
  <2>2. CASE w \in ScanWorker
    <3>1. shard_id[x] = w[1]
      BY SMTT(30), <1>1, <1>4, <2>2 DEF OwnShard
    <3>2. covered'[router] = covered[router]
      BY SMTT(30), <1>3, <2>2, Workers
    <3>3. \A v \in ScanWorker : \A y \in covered'[v] : shard_id[y] = v[1]
      BY SMTT(30), <1>3, <3>1, Workers DEF OwnShard
    <3> QED BY <1>2, <1>3, <2>1, <3>2, <3>3 DEF OwnShard
  <2>3. CASE w = router
    <3>1. shard_id[x] \notin failed
      BY SMTT(30), <1>1, <1>4, <2>3 DEF OwnShard
    <3>2. \A v \in ScanWorker : covered'[v] = covered[v]
      BY SMTT(30), <1>3, <2>3, Workers
    <3> QED BY SMTT(30), <1>2, <1>3, <2>1, <2>3, <3>1, <3>2 DEF OwnShard
  <2> QED BY <2>2, <2>3 DEF Worker
<1>13. RouterWaits' /\ ScanOver'
  <2>1. \A s : Merged(s)' <=> Merged(s)
    BY <1>2 DEF Merged
  <2>2. w # router => covered'[router] = covered[router]
    BY <1>3, Workers
  <2> QED BY <1>1, <1>2, <2>1, <2>2 DEF RouterWaits, ScanOver
<1> QED BY <1>7, <1>8, <1>9, <1>11, <1>12, <1>13

\* A merge is over: the heap now stands for both sets of records.
LEMMA EndMergeStep ==
    ASSUME IInv, NEW w \in Worker, EndMerge(w)
    PROVE  IInv'
<1> USE DEF IInv
<1> DEFINE u == merging[w]
<1>1. /\ u # NoWorker /\ u \in Worker /\ input[w] = {}
      /\ w \notin gone /\ u \in gone
      /\ heap[u] \subseteq covered[w]
  BY DEF EndMerge, MergesInOrder, TypeOK
<1>2. /\ merging' = [merging EXCEPT ![w] = NoWorker]
      /\ covered' = [covered EXCEPT ![w] = covered[w] \cup covered[u]]
      /\ corpus' = corpus /\ unscanned' = unscanned /\ heap' = heap
      /\ input' = input /\ gone' = gone /\ failed' = failed
  BY DEF EndMerge
<1>3. /\ merging'[w] = NoWorker /\ covered'[w] = covered[w] \cup covered[u]
      /\ \A v \in Worker \ {w} : merging'[v] = merging[v] /\ covered'[v] = covered[v]
  BY <1>2 DEF TypeOK
<1>4. covered[w] \in SUBSET Item /\ covered[u] \in SUBSET Item
  BY <1>1 DEF TypeOK
<1>5. TopOf(heap[w], covered[w] \cup covered[u])
  BY <1>1, <1>4, MergeTop DEF HeapsTop
<1>6. TypeOK'
  BY <1>2, <1>4 DEF TypeOK
<1>7. HeapsTop'
  <2> SUFFICES ASSUME NEW v \in Worker PROVE TopOf(heap[v], covered'[v])
    BY Zenon, <1>2 DEF HeapsTop, TopOf
  <2>1. TopOf(heap[v], covered[v])
    BY DEF HeapsTop
  <2> QED BY SMTT(30), <1>3, <1>5, <2>1
<1>8. MergesInOrder'
  <2> SUFFICES ASSUME NEW v \in Worker
               PROVE  /\ merging'[v] = NoWorker => input[v] = {}
                      /\ merging'[v] # NoWorker =>
                          /\ v \notin gone /\ merging'[v] \in gone
                          /\ input[v] \cap covered'[v] = {}
                          /\ input[v] \subseteq heap[merging'[v]]
                          /\ heap[merging'[v]] \subseteq input[v] \cup covered'[v]
    BY <1>2 DEF MergesInOrder
  <2>1. CASE v = w
    BY <1>1, <1>3, <2>1
  <2>2. CASE v # w
    BY <1>3, <2>2 DEF MergesInOrder
  <2> QED BY <2>1, <2>2
<1>9. \A v \in Worker \ gone : Holds(v)' = Holds(v)
  <2> TAKE v \in Worker \ gone
  <2>1. merging[v] # NoWorker => merging[v] \in Worker \ {w}
    BY SMTT(30), <1>1 DEF MergesInOrder, TypeOK
  <2>2. CASE v = w
    BY <1>1, <1>3, <2>2 DEF Holds
  <2>3. CASE v # w
    BY <1>3, <2>1, <2>3 DEF Holds
  <2> QED BY <2>2, <2>3
<1>10. Apart' /\ Accounted'
  BY <1>2, <1>9 DEF Apart, Accounted
<1>11. OwnShard'
  <2>1. CASE w \in ScanWorker
    <3>1. covered'[router] = covered[router] /\ merging'[router] = merging[router]
      BY SMTT(30), <1>3, <2>1, Workers
    <3>2. \A v \in ScanWorker : \A y \in covered'[v] : shard_id[y] = v[1]
      BY <1>1, <1>3, <2>1, Workers DEF OwnShard
    <3>3. \A v \in ScanWorker : merging'[v] # NoWorker =>
              merging'[v] \in ScanWorker /\ merging'[v][1] = v[1]
      BY ZenonT(60), <1>3, Workers DEF OwnShard
    <3> QED BY <1>1, <1>2, <1>3, <3>1, <3>2, <3>3 DEF OwnShard
  <2>2. CASE w = router
    <3>1. \A y \in covered'[router] : shard_id[y] \notin failed
      BY Zenon, <1>1, <1>3, <2>2 DEF OwnShard
    <3>2. \A v \in ScanWorker : covered'[v] = covered[v] /\ merging'[v] = merging[v]
      BY Zenon, <1>3, <2>2, Workers
    <3> QED BY <1>1, <1>2, <1>3, <2>2, <3>1, <3>2 DEF OwnShard
  <2> QED BY SMTT(30), <2>1, <2>2 DEF Worker
<1>12. RouterWaits' /\ ScanOver'
  <2>1. \A s : Merged(s)' <=> Merged(s)
    BY <1>2 DEF Merged
  <2>2. w # router => /\ covered'[router] = covered[router]
                      /\ merging'[router] = merging[router]
    BY <1>3, Workers
  <2> QED BY Zenon, <1>1, <1>2, <2>1, <2>2 DEF RouterWaits, ScanOver
<1> QED BY <1>6, <1>7, <1>8, <1>10, <1>11, <1>12

\* A shard is given up before anything has been merged.
LEMMA FailShardStep ==
    ASSUME IInv, NEW s \in Shard, FailShard(s)
    PROVE  IInv'
<1>1. /\ failed' = failed \cup {s}
      /\ \A z \in Shard : ~Merged(z)
      /\ UNCHANGED <<corpus, unscanned, heap, merging, input, gone, covered>>
  BY DEF FailShard
<1>2. covered[router] = {} /\ merging[router] = NoWorker
  BY SMTT(30), <1>1 DEF IInv, RouterWaits
<1>3. TypeOK' /\ HeapsTop' /\ MergesInOrder'
  BY <1>1 DEF IInv, TypeOK, HeapsTop, TopOf, MergesInOrder
<1>4. Apart' /\ Accounted'
  BY ZenonT(60), <1>1 DEF IInv, Apart, Accounted, Holds
<1>5. OwnShard'
  BY Zenon, <1>1, <1>2 DEF IInv, OwnShard
<1>6. RouterWaits' /\ ScanOver'
  BY Zenon, <1>1 DEF IInv, RouterWaits, ScanOver, Merged
<1> QED BY <1>3, <1>4, <1>5, <1>6 DEF IInv

-----------------------------------------------------------------------------
(* The theorems *)

\* The invariant holds throughout every search.
THEOREM Invariance == Spec => []IInv
<1>1. Init => IInv
  BY InitIInv
<1>2. IInv /\ [Next]_vars => IInv'
  <2> SUFFICES ASSUME IInv, [Next]_vars PROVE IInv'
    BY Zenon
  <2>1. CASE UNCHANGED vars
    <3>1. TypeOK' /\ HeapsTop' /\ MergesInOrder'
      BY Zenon, <2>1 DEF vars, IInv, TypeOK, HeapsTop, TopOf, MergesInOrder
    <3>2. Apart' /\ Accounted' /\ OwnShard'
      BY ZenonT(60), <2>1 DEF vars, IInv, Apart, Accounted, Holds, OwnShard
    <3>3. RouterWaits' /\ ScanOver'
      BY Zenon, <2>1 DEF vars, IInv, RouterWaits, ScanOver, Merged
    <3> QED BY Zenon, <3>1, <3>2, <3>3 DEF IInv
  <2>2. CASE Next
    <3>1. ASSUME NEW w \in Worker, NEW x \in unscanned, Scan(w, x) PROVE IInv'
      BY <3>1, ScanStep
    <3>2. ASSUME NEW w \in Worker, NEW u \in Worker, MergeHeaps(w, u) PROVE IInv'
      BY <3>2, MergeHeapsStep
    <3>3. ASSUME NEW w \in Worker, NEW x \in Item, PushMerged(w, x) PROVE IInv'
      BY <3>3, PushMergedStep
    <3>4. ASSUME NEW w \in Worker, EndMerge(w) PROVE IInv'
      BY <3>4, EndMergeStep
    <3>5. ASSUME NEW w \in Worker, NEW s \in Shard, MergeShard(s, w) PROVE IInv'
      BY <3>5, MergeShardStep
    <3>6. ASSUME NEW s \in Shard, FailShard(s) PROVE IInv'
      BY <3>6, FailShardStep
    <3> QED BY Zenon, <2>2, <3>1, <3>2, <3>3, <3>4, <3>5, <3>6 DEF Next
  <2> QED BY Zenon, <2>1, <2>2
<1> QED BY <1>1, <1>2, PTL DEF Spec

\* Every heap is the top k of the records it stands for, for every k and
\* every way rayon may split the scan (topk.rs, search.rs).
THEOREM HeapsAreExactAlways == Spec => []HeapsAreExact
<1>1. IInv => HeapsAreExact
  BY DEF IInv, HeapsTop, HeapsAreExact
<1> QED BY <1>1, Invariance, PTL

\* The result of a distributed search is the top k of all the records of the
\* shards not counted in shards_failed (router.rs, ShardRouter::search).
THEOREM SearchIsExactAlways == Spec => []SearchIsExact
<1>1. ASSUME IInv PROVE SearchIsExact
  <2> SUFFICES ASSUME Idle(router), \A s \in Shard \ failed : Merged(s)
               PROVE  TopOf(heap[router], {x \in corpus : shard_id[x] \notin failed})
    BY DEF SearchIsExact
  <2> DEFINE records == {x \in corpus : shard_id[x] \notin failed}
  <2>1. covered[router] \subseteq records
    BY <1>1, Workers DEF IInv, OwnShard
  <2>2. ASSUME NEW x \in records PROVE x \in covered[router]
    <3>1. shard_id[x] \in Shard /\ Merged(shard_id[x])
      BY <1>1, ShardAssumption DEF IInv, TypeOK
    <3>2. x \notin unscanned
      BY <1>1, <3>1 DEF IInv, ScanOver
    <3>3. PICK w \in Worker \ gone : x \in Holds(w)
      BY <1>1, <3>2 DEF IInv, Accounted
    <3>4. CASE w \in ScanWorker
      <4>1. shard_id[x] = w[1]
        BY <1>1, <3>3, <3>4 DEF IInv, OwnShard, Holds
      <4>2. w \in gone
        BY <3>1, <3>4, <4>1 DEF Merged, ScanWorkers
      <4> QED BY <3>3, <4>2
    <3>5. CASE w = router
      BY <3>3, <3>5 DEF Holds, Idle
    <3> QED BY <3>4, <3>5 DEF Worker
  <2>3. covered[router] = records
    BY <2>1, <2>2
  <2> QED BY Zenon, <1>1, <2>3, Workers DEF IInv, HeapsTop
<1> QED BY <1>1, Invariance, PTL
=============================================================================
