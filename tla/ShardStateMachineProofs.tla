----------------------- MODULE ShardStateMachineProofs ----------------------
(***************************************************************************)
(* Proofs about ShardStateMachine and SnapshotTransfer: type correctness,  *)
(* LastWriterWins, RejectionsExplained, ReplicasAgree, SnapshotNeverAhead  *)
(* and QuietSnapshotsAreExact hold in every reachable state, for any set   *)
(* of replicas, collections, ids, dimensions and commands, and any bounds; *)
(* and a replica that installed such a snapshot agrees with one that       *)
(* replayed the log.                                                       *)
(***************************************************************************)
EXTENDS SnapshotTransfer, WellFoundedInduction, TLAPS

-----------------------------------------------------------------------------
(* The store *)

\* A set of indices that is not empty has a greatest element.
LEMMA MaxExists ==
    ASSUME NEW N \in Nat, NEW S \in SUBSET (1..N), S # {}
    PROVE  \E k \in S : \A m \in S : m <= k
<1> DEFINE R == OpToRel(<, Nat)
           T == {N - k : k \in S}
<1>1. \A a, b \in Nat : a < b => <<a, b>> \in R
  BY DEF OpToRel
<1>2. IsWellFoundedOn(R, Nat)
  BY Zenon, NatLessThanWellFounded
<1>3. T \subseteq Nat /\ T # {}
  <2> PICK k \in S : TRUE
    BY Zenon
  <2> N - k \in T
    OBVIOUS
  <2> QED OBVIOUS
<1>4. PICK t \in T : \A u \in T : ~(<<u, t>> \in R)
  <2> HIDE DEF R, T
  <2> QED BY Zenon, <1>2, <1>3, WFMin
<1>5. PICK k \in S : t = N - k
  OBVIOUS
<1>6. ASSUME NEW m \in S PROVE m <= k
  <2>1. N - m \in T /\ N - m \in Nat /\ N - k \in Nat
    OBVIOUS
  <2> HIDE DEF R, T
  <2>2. ~(N - m < N - k)
    BY Zenon, <1>1, <1>4, <1>5, <2>1
  <2> QED BY <2>1, <2>2
<1> QED BY <1>6

\* A batch that names an id has a last record for it, which is the one
\* HashMap::insert leaves behind.
LEMMA LastRecordExists ==
    ASSUME NEW records \in Seq(VectorRecord), NEW id \in Id,
           RecordsOf(records, id) # {}
    PROVE  records[LastRecord(records, id)].data \in Data
<1> DEFINE S == RecordsOf(records, id)
<1>1. Len(records) \in Nat /\ S \in SUBSET (1..Len(records)) /\ S # {}
  BY DEF RecordsOf
<1>2. \E k \in S : \A m \in S : m <= k
  <2> HIDE DEF S
  <2> QED BY Zenon, <1>1, MaxExists
<1>3. LastRecord(records, id) \in S
  BY <1>2 DEF LastRecord
<1>4. records[LastRecord(records, id)] \in VectorRecord
  BY <1>1, <1>3
<1> QED
  BY <1>4 DEF VectorRecord

\* insert and delete map stores to stores.
LEMMA ExecuteType ==
    ASSUME NEW s \in Store, NEW cmd \in ShardCommand
    PROVE  Execute(s, cmd) \in Store
<1>1. CASE ~Accepts(s, cmd)
  BY <1>1 DEF Execute
<1>2. CASE Accepts(s, cmd)
  <2>1. cmd.collection \in CollectionName /\ s[cmd.collection] \in Collection
    BY <1>2 DEF Accepts, InsertOk, Exists, Store, ShardCommand
  <2>2. CASE cmd.op = "Upsert"
    <3>1. cmd.records \in Seq(VectorRecord)
      BY <2>2 DEF ShardCommand
    <3>2. \A id \in Id : RecordsOf(cmd.records, id) # {} =>
             cmd.records[LastRecord(cmd.records, id)].data \in Data
      BY <3>1, LastRecordExists
    <3>3. insert(s, cmd.collection, cmd.records) \in Store
      BY <2>1, <3>2 DEF insert, Overwritten, Store, Collection
    <3> QED BY <1>2, <2>2, <3>3 DEF Execute
  <2>3. CASE cmd.op = "Delete"
    <3>1. delete(s, cmd.collection, cmd.ids) \in Store
      BY <2>1 DEF delete, Store, Collection
    <3> QED BY <1>2, <2>3, <3>1 DEF Execute
  <2> QED BY <2>2, <2>3 DEF ShardCommand
<1> QED BY <1>1, <1>2

\* What a command does to one collection: an accepted one sets the ids it
\* touches to the values it leaves, anything else stays.
LEMMA ExecuteEffect ==
    ASSUME NEW s \in Store, NEW cmd \in ShardCommand, NEW c \in CollectionName
    PROVE  /\ Exists(Execute(s, cmd), c) <=> Exists(s, c)
           /\ Exists(s, c) => Execute(s, cmd)[c].dim = s[c].dim
           /\ ~Accepts(s, cmd) => Execute(s, cmd) = s
           /\ Accepts(s, cmd) /\ Exists(s, c) =>
                 \A id \in Id :
                    Execute(s, cmd)[c].vectors[id] =
                        IF Touches(cmd, c, id)
                        THEN ValueLeftBy(cmd, id)
                        ELSE s[c].vectors[id]
<1>1. CASE ~Accepts(s, cmd)
  BY <1>1 DEF Execute
<1>2. CASE Accepts(s, cmd) /\ cmd.collection # c
  <2>1. Execute(s, cmd)[c] = s[c]
    BY <1>2 DEF Execute, insert, Overwritten, delete, Store
  <2> QED BY <1>2, <2>1 DEF Exists, Touches
<1>3. CASE Accepts(s, cmd) /\ cmd.collection = c
  <2>1. s[c] \in Collection /\ Exists(s, c)
    BY <1>3 DEF Accepts, InsertOk, Exists, Store
  <2>2. Execute(s, cmd)[c] =
          [dim     |-> s[c].dim,
           vectors |-> [id \in Id |-> IF Touches(cmd, c, id)
                                      THEN ValueLeftBy(cmd, id)
                                      ELSE s[c].vectors[id]]]
    <3>1. CASE cmd.op = "Upsert"
      BY <1>3, <3>1 DEF Execute, insert, Overwritten, Store, Touches, TouchedIds, ValueLeftBy
    <3>2. CASE cmd.op = "Delete"
      BY <1>3, <3>2 DEF Execute, delete, Store, Touches, TouchedIds, ValueLeftBy
    <3> QED BY <3>1, <3>2 DEF ShardCommand
  <2>3. Execute(s, cmd) \in Store
    BY ExecuteType
  <2>4. Execute(s, cmd)[c] # NoCollection
    <3>1. ASSUME Execute(s, cmd)[c] = NoCollection PROVE FALSE
      <4>1. NoCollection \in [dim : Dim, vectors : [Id -> Data \cup {NoVector}]]
        <5>1. \A id \in Id : Touches(cmd, c, id) =>
                 ValueLeftBy(cmd, id) \in Data \cup {NoVector}
          <6> SUFFICES ASSUME NEW id \in Id, Touches(cmd, c, id), cmd.op = "Upsert"
                       PROVE  ValueLeftBy(cmd, id) \in Data \cup {NoVector}
            BY DEF ValueLeftBy, ShardCommand
          <6>1. cmd.records \in Seq(VectorRecord)
            BY DEF ShardCommand
          <6>2. RecordsOf(cmd.records, id) # {}
            BY DEF Touches, TouchedIds
          <6> QED BY <6>1, <6>2, LastRecordExists DEF ValueLeftBy
        <5> QED BY <2>1, <2>2, <3>1, <5>1 DEF Collection
      <4> QED BY <4>1, NoCollectionAssumption DEF Collection
    <3> QED BY <3>1
  <2> QED BY <1>3, <2>1, <2>2, <2>4 DEF Exists
<1> QED BY <1>1, <1>2, <1>3

\* A freshly created collection is there and empty, the others stay.
LEMMA CreateEffect ==
    ASSUME NEW s \in Store, NEW c \in CollectionName, NEW d \in Dim,
           NEW b \in CollectionName
    PROVE  /\ create_collection(s, c, d) \in Store
           /\ create_collection(s, c, d)[b] =
                 IF b = c
                 THEN [dim |-> d, vectors |-> [id \in Id |-> NoVector]]
                 ELSE s[b]
           /\ Exists(create_collection(s, c, d), c)
<1>1. [dim |-> d, vectors |-> [id \in Id |-> NoVector]] \in Collection
  BY DEF Collection
<1> QED
  BY <1>1, NoCollectionAssumption DEF create_collection, Store, Exists

\* The closed form of insert is the loop of Store::insert: a batch of no record
\* changes nothing, and one record more is one more HashMap::insert, which
\* overwrites, on what the records before it left.
THEOREM InsertIsTheLoop ==
    ASSUME NEW s \in Store, NEW c \in CollectionName, Exists(s, c),
           NEW records \in Seq(VectorRecord), NEW rec \in VectorRecord
    PROVE  /\ insert(s, c, <<>>) = s
           /\ insert(s, c, Append(records, rec)) =
                 [insert(s, c, records) EXCEPT ![c].vectors[rec.id] = rec.data]
<1> DEFINE more == Append(records, rec)
           n == Len(records)
           Left(rs, id) == IF RecordsOf(rs, id) # {}
                           THEN Overwritten(s[c].vectors[id], rs, id)
                           ELSE s[c].vectors[id]
<1>1. s[c] \in Collection /\ rec.id \in Id
  BY DEF Store, Exists, VectorRecord
<1>2. /\ n \in Nat /\ DOMAIN records = 1..n /\ DOMAIN more = 1..(n+1)
      /\ \A k \in 1..n : more[k] = records[k]
      /\ more[n+1] = rec
  OBVIOUS
<1>3. ASSUME NEW rs
      PROVE  insert(s, c, rs) =
                [s EXCEPT ![c] = [dim |-> s[c].dim, vectors |-> [id \in Id |-> Left(rs, id)]]]
  BY Zenon DEF insert, Store
<1>4. insert(s, c, <<>>) = s
  <2>1. \A id \in Id : RecordsOf(<<>>, id) = {}
    BY DEF RecordsOf
  <2>2. [dim |-> s[c].dim, vectors |-> [id \in Id |-> Left(<<>>, id)]] = s[c]
    BY <1>1, <2>1 DEF Collection
  <2> QED BY <1>3, <2>2 DEF Store
<1>5. ASSUME NEW id \in Id, id # rec.id PROVE Left(more, id) = Left(records, id)
  <2>1. RecordsOf(more, id) = RecordsOf(records, id)
    BY <1>2, <1>5 DEF RecordsOf
  <2>2. LastRecord(more, id) = LastRecord(records, id)
    BY Zenon, <2>1 DEF LastRecord
  <2>3. CASE RecordsOf(records, id) = {}
    BY <2>1, <2>3
  <2>4. CASE RecordsOf(records, id) # {}
    <3>1. \E k \in RecordsOf(records, id) : \A m \in RecordsOf(records, id) : m <= k
      BY Zenon, <1>2, <2>4, MaxExists DEF RecordsOf
    <3>2. LastRecord(records, id) \in 1..n
      BY <1>2, <3>1 DEF LastRecord, RecordsOf
    <3> QED BY <1>2, <2>1, <2>2, <3>2 DEF Overwritten
  <2> QED BY <2>3, <2>4
<1>6. Left(more, rec.id) = rec.data
  <2>1. n + 1 \in RecordsOf(more, rec.id) /\ RecordsOf(more, rec.id) \subseteq 1..(n+1)
    BY <1>2 DEF RecordsOf
  <2>2. \A m \in RecordsOf(more, rec.id) : m <= n + 1
    BY <1>2, <2>1
  <2>3. \A k \in RecordsOf(more, rec.id) : n + 1 <= k => k = n + 1
    BY <1>2, <2>1
  <2>4. LastRecord(more, rec.id) = n + 1
    BY Zenon, <2>1, <2>2, <2>3 DEF LastRecord
  <2> QED BY <1>2, <2>1, <2>4 DEF Overwritten
<1>7. [id \in Id |-> Left(more, id)] =
          [[id \in Id |-> Left(records, id)] EXCEPT ![rec.id] = rec.data]
  <2> HIDE DEF Left, more
  <2> QED BY Zenon, <1>1, <1>5, <1>6
<1>8. insert(s, c, more) =
          [insert(s, c, records) EXCEPT ![c].vectors[rec.id] = rec.data]
  <2> HIDE DEF Left, more
  <2> QED BY <1>3, <1>7 DEF Store
<1> QED BY <1>4, <1>8

-----------------------------------------------------------------------------
(* Type correctness *)

\* Every variable keeps its type; in particular no replica's
\* last_applied_log is ever past the end of the log.
THEOREM TypeCorrect == Spec => []TypeOK
<1>1. Init => TypeOK
  BY SMTT(30) DEF Init, TypeOK, EmptyStore, Store
<1>2. TypeOK /\ [Next]_vars => TypeOK'
  <2> SUFFICES ASSUME TypeOK, [Next]_vars PROVE TypeOK'
    OBVIOUS
  <2> USE DEF TypeOK
  <2>1. ASSUME NEW e \in Command \cup {Blank}, Commit(e) PROVE TypeOK'
    <3>1. e \in Entry
      BY CommandAssumption DEF Entry
    <3>2. log' \in Seq(Entry) /\ Len(log') = Len(log) + 1
      BY <2>1, <3>1 DEF Commit
    <3> QED BY <2>1, <3>2 DEF Commit
  <2>2. ASSUME NEW r \in Replica, BeginApply(r) PROVE TypeOK'
    BY <2>2 DEF BeginApply, Published
  <2>3. ASSUME NEW r \in Replica, FinishApply(r) PROVE TypeOK'
    <3> DEFINE i == last_applied_log[r]
    <3>1. i \in 1..Len(log) /\ log[i] \in Entry
      BY <2>3 DEF FinishApply
    <3>2. IsCommand(log[i]) => log[i] \in ShardCommand
      BY <3>1 DEF Entry, IsCommand, Blank
    <3>3. IsCommand(log[i]) => Execute(store[r], log[i]) \in Store
      BY <3>2, ExecuteType
    <3>4. store' \in [Replica -> Store]
      BY Zenon, <2>3, <3>3 DEF FinishApply
    <3>5. rejected' \in [Replica -> SUBSET (1..Len(log))]
      <4>1. rejected' = rejected
              \/ rejected' = [rejected EXCEPT ![r] = @ \cup {i}]
        BY <2>3 DEF FinishApply
      <4>2. \A q \in Replica : rejected'[q] \subseteq rejected[q] \cup {i}
        BY Zenon, <4>1
      <4>3. \A q \in Replica : rejected[q] \subseteq 1..Len(log)
        OBVIOUS
      <4>4. \A q \in Replica : rejected'[q] \in SUBSET (1..Len(log))
        BY <3>1, <4>2, <4>3
      <4>5. rejected' = [q \in Replica |-> rejected'[q]]
        BY <4>1
      <4> QED BY <4>4, <4>5
    <3> QED BY Zenon, <2>3, <3>4, <3>5 DEF FinishApply
  <2>4. ASSUME NEW r \in Replica, NEW c \in CollectionName, NEW d \in Dim,
               CreateCollection(r, c, d)
        PROVE  TypeOK'
    <3>1. create_collection(store[r], c, d) \in Store
      BY ZenonT(60), CreateEffect
    <3>2. Done(r) \in Nat
      BY DEF Done
    <3> QED BY <2>4, <3>1, <3>2 DEF CreateCollection
  <2>5. ASSUME NEW r \in Replica, BeginSnapshot(r) PROVE TypeOK'
    BY <2>5 DEF BeginSnapshot, Builder, EmptyStore, Store
  <2>6. ASSUME NEW r \in Replica, NEW c \in CollectionName, CopyCollection(r, c)
        PROVE  TypeOK'
    <3>1. builder[r] \in Builder
      BY <2>6 DEF CopyCollection
    <3>2. [pending |-> builder[r].pending \ {c},
           data    |-> [builder[r].data EXCEPT ![c] = store[r][c]]] \in Builder
      BY <3>1 DEF Builder, Store
    <3> QED BY <2>6, <3>2 DEF CopyCollection
  <2>7. ASSUME NEW r \in Replica, FinishSnapshot(r) PROVE TypeOK'
    <3>1. builder[r] \in Builder
      BY <2>7 DEF FinishSnapshot, SnapshotIndex
    <3>2. [data |-> builder[r].data, last_log_id |-> last_applied_log[r]]
             \in Snapshot
      BY <3>1 DEF Builder, Snapshot
    <3> QED BY <2>7, <3>2 DEF FinishSnapshot, SnapshotIndex
  <2>8. ASSUME NEW r \in Replica, Restart(r) PROVE TypeOK'
    BY <2>8 DEF Restart, EmptyStore, Store
  <2>9. CASE UNCHANGED vars
    BY <2>9 DEF vars
  <2> QED
    BY SMTT(30), <2>1, <2>2, <2>3, <2>4, <2>5, <2>6, <2>7, <2>8, <2>9 DEF Next
<1> QED
  BY <1>1, <1>2, PTL DEF Spec

-----------------------------------------------------------------------------
(* The inductive invariant *)

\* Rejections and creations lie in the part of the log the store shows.
HistoryBehind ==
    \A r \in Replica :
        /\ rejected[r] \subseteq 1..Done(r)
        /\ \A c \in CollectionName :
              Exists(store[r], c) => createdAt[r][c] <= Done(r)

\* What a builder has copied is the state after some applied prefix.
BuilderBehind ==
    \A r \in Replica :
        builder[r] # NoTask =>
            \A c \in CollectionName :
                Exists(builder[r].data, c) =>
                    \E n \in 0..Done(r) :
                        Reflects(builder[r].data[c], log, rejected[r], c, n)

\* SnapshotNeverAhead, with a prefix whose entries have all been applied:
\* last_log_id itself may be an entry whose outcome is still open.
SnapshotBehind ==
    \A r \in Replica :
        snapshot[r] # NoSnapshot =>
            \A c \in CollectionName :
                Exists(snapshot[r].data, c) =>
                    \E n \in 0..Done(r) :
                        /\ n <= snapshot[r].last_log_id
                        /\ Reflects(snapshot[r].data[c], log, rejected[r], c, n)

IInv ==
    /\ LastWriterWins
    /\ RejectionsExplained
    /\ HistoryBehind
    /\ BuilderBehind
    /\ SnapshotBehind

\* Whether a collection shows a prefix depends on that prefix only.
LEMMA ReflectsPrefix ==
    ASSUME NEW coll, NEW e1, NEW e2, NEW rej1, NEW rej2, NEW c, NEW n \in Nat,
           \A i \in 1..n : e1[i] = e2[i] /\ (i \in rej1 <=> i \in rej2),
           Reflects(coll, e1, rej1, c, n)
    PROVE  Reflects(coll, e2, rej2, c, n)
<1>1. \A id \in Id : Writers(e1, rej1, c, id, n) = Writers(e2, rej2, c, id, n)
  BY DEF Writers
<1>2. \A id \in Id : \A i \in Writers(e1, rej1, c, id, n) : e1[i] = e2[i]
  BY DEF Writers
<1> QED
  BY <1>1, <1>2 DEF Reflects

\* The number of entries a store shows.
LEMMA DoneType ==
    ASSUME TypeOK, NEW r \in Replica
    PROVE  /\ Done(r) \in Nat
           /\ Done(r) <= last_applied_log[r]
           /\ Done(r) <= Len(log)
           /\ last_applied_log[r] \in Nat
BY SMTT(30) DEF TypeOK, Done

\* Applying one more entry keeps a collection in step with the log.
LEMMA ReflectsNext ==
    ASSUME NEW s \in Store, NEW entries, NEW rej, NEW c \in CollectionName,
           NEW i \in Nat \ {0}, rej \subseteq 1..(i-1),
           entries[i] \in ShardCommand, Exists(s, c),
           Reflects(s[c], entries, rej, c, i - 1)
    PROVE  Reflects(Execute(s, entries[i])[c], entries,
                    IF Accepts(s, entries[i]) THEN rej ELSE rej \cup {i}, c, i)
<1> DEFINE cmd == entries[i]
           rej2 == IF Accepts(s, cmd) THEN rej ELSE rej \cup {i}
           new == Execute(s, cmd)[c]
<1>1. IsCommand(cmd)
  BY DEF IsCommand, ShardCommand
<1>2. \A id \in Id :
        Writers(entries, rej2, c, id, i) =
            Writers(entries, rej, c, id, i - 1)
                \cup (IF Accepts(s, cmd) /\ Touches(cmd, c, id) THEN {i} ELSE {})
  <2>1. \A j \in 1..i : j # i => j \in 1..(i-1)
    OBVIOUS
  <2>2. \A j \in 1..(i-1) : j \in 1..i /\ (j \in rej2 <=> j \in rej)
    OBVIOUS
  <2>3. i \in 1..i /\ (i \in rej2 <=> ~Accepts(s, cmd))
    OBVIOUS
  <2> HIDE DEF rej2
  <2> QED BY <1>1, <2>1, <2>2, <2>3 DEF Writers
<1>3. ASSUME NEW id \in Id
      PROVE  LET writers == Writers(entries, rej2, c, id, i) IN
             \/ writers = {} /\ new.vectors[id] = NoVector
             \/ \E k \in writers :
                  /\ \A j \in writers : j <= k
                  /\ new.vectors[id] = ValueLeftBy(entries[k], id)
  <2> DEFINE old == Writers(entries, rej, c, id, i - 1)
  <2>0. old \subseteq 1..(i-1)
    BY Zenon DEF Writers
  <2>1. CASE Accepts(s, cmd) /\ Touches(cmd, c, id)
    <3>1. Writers(entries, rej2, c, id, i) = old \cup {i}
      BY Zenon, <1>2, <2>1
    <3>2. new.vectors[id] = ValueLeftBy(cmd, id)
      BY <2>1, ExecuteEffect
    <3>3. \A j \in old \cup {i} : j <= i
      BY SMTT(30), <2>0
    <3> QED BY Zenon, <3>1, <3>2, <3>3
  <2>2. CASE ~(Accepts(s, cmd) /\ Touches(cmd, c, id))
    <3>1. Writers(entries, rej2, c, id, i) = old
      BY ZenonT(60), <1>2, <2>2
    <3>2. new.vectors[id] = s[c].vectors[id]
      BY <2>2, ExecuteEffect
    <3>3. \/ old = {} /\ s[c].vectors[id] = NoVector
          \/ \E k \in old : /\ \A j \in old : j <= k
                            /\ s[c].vectors[id] = ValueLeftBy(entries[k], id)
      BY SMTT(30) DEF Reflects
    <3> QED BY Zenon, <3>1, <3>2, <3>3
  <2> QED BY Zenon, <2>1, <2>2
<1> QED
  BY Zenon, <1>3 DEF Reflects

\* Steps that leave the stores and the entries they show alone.
LEMMA StoresUnmoved ==
    ASSUME TypeOK, IInv,
           UNCHANGED <<store, rejected, createdAt>>,
           \A r \in Replica : Done(r)' = Done(r),
           \A i \in 1..Len(log) : log'[i] = log[i]
    PROVE  /\ LastWriterWins' /\ RejectionsExplained' /\ HistoryBehind'
           /\ UNCHANGED builder => BuilderBehind'
           /\ UNCHANGED snapshot => SnapshotBehind'
<1>1. \A r \in Replica : /\ Done(r) \in Nat
                         /\ \A i \in 1..Done(r) : i \in 1..Len(log)
  BY DoneType DEF TypeOK
<1>2. \A r \in Replica : \A i \in 1..Done(r) : log'[i] = log[i]
  BY SMTT(30), <1>1
<1>3. ASSUME NEW r \in Replica, NEW coll, NEW c, NEW n \in 0..Done(r),
             Reflects(coll, log, rejected[r], c, n)
      PROVE  Reflects(coll, log', rejected[r], c, n)
  <2>1. n \in Nat /\ \A i \in 1..n : log[i] = log'[i]
    BY SMTT(30), <1>1, <1>2
  <2> QED BY <1>3, <2>1, ReflectsPrefix
<1>4. LastWriterWins'
  BY SMTT(30), <1>1, <1>3 DEF LastWriterWins, IInv
<1>5. RejectionsExplained'
  BY SMTT(30), <1>2 DEF RejectionsExplained, IInv
<1>6. HistoryBehind'
  BY SMTT(30) DEF HistoryBehind, IInv
<1>7. UNCHANGED builder => BuilderBehind'
  BY SMTT(30), <1>3 DEF BuilderBehind, IInv
<1>8. UNCHANGED snapshot => SnapshotBehind'
  BY SMTT(30), <1>3 DEF SnapshotBehind, IInv
<1> QED BY SMTT(30), <1>4, <1>5, <1>6, <1>7, <1>8

\* apply of one entry. Only the replica that applies it moves, by one entry.
LEMMA FinishApplyKeeps ==
    ASSUME TypeOK, IInv, NEW r \in Replica, FinishApply(r)
    PROVE  IInv'
<1> DEFINE i == last_applied_log[r]
           e == log[i]
<1>1. i \in Nat \ {0} /\ i \in 1..Len(log) /\ e \in Entry
  BY DEF TypeOK, FinishApply
<1>2. Done(r) = i - 1 /\ Done(r)' = i
  BY <1>1 DEF Done, FinishApply, TypeOK
<1>3. \A q \in Replica \ {r} : /\ Done(q)' = Done(q)
                               /\ store'[q] = store[q]
                               /\ rejected'[q] = rejected[q]
  BY SMTT(30) DEF Done, FinishApply, TypeOK
<1>4. UNCHANGED <<log, createdAt, builder, snapshot>>
  BY SMTT(30) DEF FinishApply
<1>5. /\ IsCommand(e) => /\ e \in ShardCommand
                         /\ store'[r] = Execute(store[r], e)
                         /\ rejected'[r] = IF Accepts(store[r], e)
                                           THEN rejected[r]
                                           ELSE rejected[r] \cup {i}
      /\ ~IsCommand(e) => store'[r] = store[r] /\ rejected'[r] = rejected[r]
  <2>1. IsCommand(e) => e \in ShardCommand
    BY SMTT(30), <1>1 DEF Entry, IsCommand, Blank
  <2>2. IsCommand(e) => store'[r] = Execute(store[r], e)
    BY SMTT(30) DEF FinishApply, TypeOK
  <2>3. IsCommand(e) => rejected'[r] = IF Accepts(store[r], e)
                                       THEN rejected[r]
                                       ELSE rejected[r] \cup {i}
    <3>1. CASE Accepts(store[r], e)
      BY <3>1 DEF FinishApply
    <3>2. CASE ~Accepts(store[r], e)
      BY Zenon, <3>2 DEF FinishApply, TypeOK
    <3> QED BY SMTT(30), <3>1, <3>2
  <2>4. ~IsCommand(e) => store'[r] = store[r] /\ rejected'[r] = rejected[r]
    BY Zenon DEF FinishApply
  <2> QED BY <2>1, <2>2, <2>3, <2>4
<1>6. rejected[r] \subseteq 1..(i-1) /\ store[r] \in Store
  BY ZenonT(60), <1>2 DEF IInv, HistoryBehind, TypeOK
<1>7. \A j \in 1..(i-1) : j \in rejected'[r] <=> j \in rejected[r]
  BY <1>1, <1>5
<1>8. LastWriterWins'
  <2> SUFFICES ASSUME NEW q \in Replica, NEW c \in CollectionName,
                      Exists(store'[q], c)
               PROVE  Reflects(store'[q][c], log, rejected'[q], c, Done(q)')
    BY <1>4 DEF LastWriterWins
  <2>1. CASE q # r
    BY <1>3, <2>1 DEF IInv, LastWriterWins
  <2>2. CASE q = r /\ IsCommand(e)
    <3>1. Exists(store[r], c)
      BY <1>5, <1>6, <2>2, ExecuteEffect
    <3>2. Reflects(store[r][c], log, rejected[r], c, i - 1)
      BY Zenon, <1>2, <3>1 DEF IInv, LastWriterWins
    <3>3. Reflects(Execute(store[r], e)[c], log,
                   IF Accepts(store[r], e) THEN rejected[r]
                                           ELSE rejected[r] \cup {i}, c, i)
      <4> HIDE DEF i
      <4> QED BY Zenon, <1>1, <1>5, <1>6, <2>2, <3>1, <3>2, ReflectsNext
    <3> QED BY ZenonT(60), <1>2, <1>5, <2>2, <3>3
  <2>3. CASE q = r /\ ~IsCommand(e)
    <3>1. Reflects(store[r][c], log, rejected[r], c, i - 1)
      BY ZenonT(60), <1>2, <1>5, <2>3 DEF IInv, LastWriterWins
    <3>2. \A id \in Id : Writers(log, rejected[r], c, id, i)
                         = Writers(log, rejected[r], c, id, i - 1)
      BY <1>1, <2>3 DEF Writers
    <3>3. Reflects(store[r][c], log, rejected[r], c, i)
      BY Zenon, <3>1, <3>2 DEF Reflects
    <3> QED BY Zenon, <1>2, <1>5, <2>3, <3>3
  <2> QED BY ZenonT(60), <2>1, <2>2, <2>3
<1>9. RejectionsExplained'
  <2> SUFFICES ASSUME NEW q \in Replica, NEW j \in 1..(Done(q)'),
                      IsCommand(log[j])
               PROVE  LET c == log[j].collection IN
                      j \in rejected'[q] <=>
                        \/ ~Exists(store'[q], c)
                        \/ j <= createdAt[q][c]
                        \/ WrongDim(log[j], store'[q][c].dim)
    BY Zenon, <1>4 DEF RejectionsExplained
  <2>0. Done(q) \in Nat /\ Done(q) <= Len(log) /\ log \in Seq(Entry)
    BY Zenon, DoneType DEF TypeOK
  <2>1. CASE q # r
    BY Zenon, <1>3, <2>1 DEF IInv, RejectionsExplained
  <2>2. CASE q = r
    <3> DEFINE c == log[j].collection
    <3>1. j \in 1..Len(log) /\ log[j] \in ShardCommand
      BY <1>1, <1>2, <2>0, <2>2 DEF Entry, IsCommand, Blank
    <3>2. c \in CollectionName
      BY ZenonT(60), <3>1 DEF ShardCommand
    <3>3. /\ Exists(store'[r], c) <=> Exists(store[r], c)
          /\ Exists(store[r], c) => store'[r][c].dim = store[r][c].dim
      BY <1>5, <1>6, <3>2, ExecuteEffect
    <3>4. CASE j # i
      <4>1. j \in 1..(i-1)
        BY <1>1, <1>2, <2>2, <3>4
      <4> QED BY Zenon, <1>2, <1>7, <2>2, <3>3, <4>1 DEF IInv, RejectionsExplained
    <3>5. CASE j = i
      <4>1. i \in rejected'[r] <=> ~Accepts(store[r], e)
        BY <1>1, <1>5, <1>6, <3>5
      <4>2. Accepts(store[r], e) <=>
              Exists(store[r], c) /\ ~WrongDim(e, store[r][c].dim)
        BY Zenon, <3>1, <3>5 DEF Accepts, InsertOk, WrongDim
      <4>3. Exists(store[r], c) => ~(i <= createdAt[r][c])
        BY <1>1, <1>2, <3>2 DEF IInv, HistoryBehind, TypeOK
      <4> QED BY ZenonT(60), <2>2, <3>3, <3>5, <4>1, <4>2, <4>3
    <3> QED BY Zenon, <3>4, <3>5
  <2> QED BY Zenon, <2>1, <2>2
<1>10. HistoryBehind'
  <2> SUFFICES ASSUME NEW q \in Replica
               PROVE  /\ rejected'[q] \subseteq 1..(Done(q)')
                      /\ \A c \in CollectionName :
                            Exists(store'[q], c) => createdAt[q][c] <= Done(q)'
    BY <1>4 DEF HistoryBehind
  <2>1. CASE q # r
    BY <1>3, <2>1 DEF IInv, HistoryBehind
  <2>2. CASE q = r
    <3>1. rejected'[r] \subseteq 1..i
      BY <1>1, <1>5, <1>6
    <3>2. ASSUME NEW c \in CollectionName, Exists(store'[r], c)
          PROVE  createdAt[r][c] <= i
      <4>1. Exists(store[r], c)
        BY <1>5, <1>6, <3>2, ExecuteEffect
      <4>2. createdAt[r][c] <= i - 1 /\ createdAt[r][c] \in Nat
        BY Zenon, <1>2, <4>1 DEF IInv, HistoryBehind, TypeOK
      <4> QED BY SMTT(30), <1>1, <4>2
    <3> QED BY SMTT(30), <1>2, <2>2, <3>1, <3>2
  <2> QED BY ZenonT(60), <2>1, <2>2
<1>11. ASSUME NEW q \in Replica, NEW coll, NEW c, NEW n \in 0..Done(q),
              Reflects(coll, log, rejected[q], c, n)
       PROVE  n \in 0..(Done(q)') /\ Reflects(coll, log, rejected'[q], c, n)
  <2>1. CASE q # r
    BY SMTT(30), <1>3, <1>11, <2>1
  <2>2. CASE q = r
    <3>1. n \in Nat /\ n \in 0..i /\ \A j \in 1..n : j \in 1..(i-1)
      BY <1>1, <1>2, <2>2
    <3> QED BY <1>2, <1>7, <1>11, <2>2, <3>1, ReflectsPrefix
  <2> QED BY ZenonT(60), <2>1, <2>2
<1>12. BuilderBehind'
  BY Zenon, <1>4, <1>11 DEF IInv, BuilderBehind
<1>13. SnapshotBehind'
  BY Zenon, <1>4, <1>11 DEF IInv, SnapshotBehind
<1> QED BY <1>8, <1>9, <1>10, <1>12, <1>13 DEF IInv

\* create_collection on one replica: a new collection is empty, and every
\* entry for it that the replica has applied was rejected.
LEMMA CreateCollectionKeeps ==
    ASSUME TypeOK, IInv, NEW r \in Replica, NEW c \in CollectionName,
           NEW d \in Dim, CreateCollection(r, c, d)
    PROVE  IInv'
<1>1. UNCHANGED <<log, rejected, builder, snapshot>>
      /\ \A q \in Replica : Done(q)' = Done(q)
  BY Zenon DEF CreateCollection, Done
<1>2. \A q \in Replica : q # r => store'[q] = store[q] /\ createdAt'[q] = createdAt[q]
  BY Zenon DEF CreateCollection, TypeOK
<1>0. /\ store[r] \in Store /\ store'[r] = create_collection(store[r], c, d)
      /\ \A b \in CollectionName :
            createdAt'[r][b] = IF b = c THEN Done(r) ELSE createdAt[r][b]
  BY SMTT(30) DEF CreateCollection, TypeOK
<1>3. \A b \in CollectionName :
        b # c => store'[r][b] = store[r][b] /\ createdAt'[r][b] = createdAt[r][b]
  <2> SUFFICES ASSUME NEW b \in CollectionName, b # c
               PROVE  store'[r][b] = store[r][b] /\ createdAt'[r][b] = createdAt[r][b]
    BY Zenon
  <2>1. create_collection(store[r], c, d)[b] = store[r][b]
    BY Zenon, <1>0 DEF create_collection, Store
  <2> QED BY <1>0, <2>1
<1>4. /\ store'[r][c] = [dim |-> d, vectors |-> [id \in Id |-> NoVector]]
      /\ createdAt'[r][c] = Done(r)
      /\ ~Exists(store[r], c) /\ Exists(store'[r], c)
  BY <1>0, CreateEffect DEF CreateCollection
<1>5. Done(r) \in Nat /\ \A i \in 1..Done(r) : log[i] \in Entry
  BY DoneType DEF TypeOK
<1>6. \A i \in 1..Done(r) :
        IsCommand(log[i]) /\ log[i].collection = c => i \in rejected[r]
  BY Zenon, <1>4 DEF IInv, RejectionsExplained
<1>7. LastWriterWins'
  <2> SUFFICES ASSUME NEW q \in Replica, NEW b \in CollectionName,
                      Exists(store'[q], b)
               PROVE  Reflects(store'[q][b], log, rejected[q], b, Done(q))
    BY Zenon, <1>1 DEF LastWriterWins
  <2>1. CASE q # r \/ b # c
    BY ZenonT(60), <1>2, <1>3, <2>1 DEF IInv, LastWriterWins, Exists
  <2>2. CASE q = r /\ b = c
    <3>1. \A id \in Id : Writers(log, rejected[r], c, id, Done(r)) = {}
      BY Zenon, <1>6 DEF Writers, Touches
    <3> QED BY <1>4, <2>2, <3>1 DEF Reflects
  <2> QED BY Zenon, <2>1, <2>2
<1>8. RejectionsExplained'
  <2> SUFFICES ASSUME NEW q \in Replica, NEW i \in 1..Done(q), IsCommand(log[i])
               PROVE  LET b == log[i].collection IN
                      i \in rejected[q] <=>
                        \/ ~Exists(store'[q], b)
                        \/ i <= createdAt'[q][b]
                        \/ WrongDim(log[i], store'[q][b].dim)
    BY Zenon, <1>1 DEF RejectionsExplained
  <2>1. CASE q # r
    BY Zenon, <1>2, <2>1 DEF IInv, RejectionsExplained
  <2>2. CASE q = r /\ log[i].collection # c
    <3>1. log[i] \in ShardCommand
      BY <1>5, <2>2 DEF Entry, IsCommand, Blank
    <3>2. log[i].collection \in CollectionName
      BY Zenon, <3>1 DEF ShardCommand
    <3> QED BY ZenonT(60), <1>3, <2>2, <3>2 DEF IInv, RejectionsExplained, Exists
  <2>3. CASE q = r /\ log[i].collection = c
    <3>1. i \in rejected[r] /\ i <= createdAt'[r][c]
      BY <1>4, <1>5, <1>6, <2>3
    <3> QED BY ZenonT(60), <2>3, <3>1
  <2> QED BY Zenon, <2>1, <2>2, <2>3
<1>9. HistoryBehind'
  <2> SUFFICES ASSUME NEW q \in Replica
               PROVE  /\ rejected[q] \subseteq 1..Done(q)
                      /\ \A b \in CollectionName :
                            Exists(store'[q], b) => createdAt'[q][b] <= Done(q)
    BY Zenon, <1>1 DEF HistoryBehind
  <2>1. \A b \in CollectionName : q = r /\ b = c => createdAt'[q][b] <= Done(q)
    BY <1>4, <1>5
  <2> QED BY ZenonT(60), <1>2, <1>3, <2>1 DEF IInv, HistoryBehind, Exists
<1>10. BuilderBehind' /\ SnapshotBehind'
  BY Zenon, <1>1 DEF IInv, BuilderBehind, SnapshotBehind
<1> QED BY Zenon, <1>7, <1>8, <1>9, <1>10 DEF IInv

\* A restarted replica shows no entry and has no collection.
LEMMA RestartKeeps ==
    ASSUME TypeOK, IInv, NEW r \in Replica, Restart(r)
    PROVE  IInv'
<1>1. \A q \in Replica : q # r =>
        /\ store'[q] = store[q] /\ rejected'[q] = rejected[q]
        /\ createdAt'[q] = createdAt[q] /\ Done(q)' = Done(q)
        /\ builder'[q] = builder[q] /\ snapshot'[q] = snapshot[q]
  BY Zenon DEF Restart, Done, TypeOK
<1>2. /\ \A c \in CollectionName : ~Exists(store'[r], c)
      /\ rejected'[r] = {} /\ Done(r)' = 0
      /\ builder'[r] = NoTask /\ snapshot'[r] = NoSnapshot
  BY Zenon DEF Restart, Done, TypeOK, EmptyStore, Exists
<1>3. log' = log
  BY Zenon DEF Restart
<1>4. LastWriterWins'
  BY ZenonT(60), <1>1, <1>2, <1>3 DEF IInv, LastWriterWins
<1>5. RejectionsExplained'
  BY <1>1, <1>2, <1>3 DEF IInv, RejectionsExplained
<1>6. HistoryBehind'
  BY Zenon, <1>1, <1>2 DEF IInv, HistoryBehind
<1>7. BuilderBehind'
  BY Zenon, <1>1, <1>2, <1>3 DEF IInv, BuilderBehind
<1>8. SnapshotBehind'
  BY Zenon, <1>1, <1>2, <1>3 DEF IInv, SnapshotBehind
<1> QED BY Zenon, <1>4, <1>5, <1>6, <1>7, <1>8 DEF IInv

\* The builder copies one collection as it is now.
LEMMA CopyCollectionKeeps ==
    ASSUME TypeOK, IInv, NEW r \in Replica, NEW c \in CollectionName,
           CopyCollection(r, c)
    PROVE  BuilderBehind'
<1>1. UNCHANGED <<log, rejected>> /\ \A q \in Replica : Done(q)' = Done(q)
  BY Zenon DEF CopyCollection, Done
<1>2. \A q \in Replica : q # r => builder'[q] = builder[q]
  BY Zenon DEF CopyCollection, TypeOK
<1>3. /\ builder[r] # NoTask /\ builder[r] \in Builder
      /\ builder'[r].data = [builder[r].data EXCEPT ![c] = store[r][c]]
  BY Zenon DEF CopyCollection, TypeOK
<1>4. \A b \in CollectionName :
        builder'[r].data[b] = IF b = c THEN store[r][c] ELSE builder[r].data[b]
  BY Zenon, <1>3 DEF Builder, Store
<1>5. Done(r) \in 0..Done(r)
  BY DoneType
<1> SUFFICES ASSUME NEW q \in Replica, builder'[q] # NoTask,
                    NEW b \in CollectionName, Exists(builder'[q].data, b)
             PROVE  \E n \in 0..Done(q) :
                       Reflects(builder'[q].data[b], log, rejected[q], b, n)
  BY Zenon, <1>1 DEF BuilderBehind
<1>6. CASE q # r
  BY Zenon, <1>2, <1>6 DEF IInv, BuilderBehind
<1>7. CASE q = r /\ b # c
  BY Zenon, <1>3, <1>4, <1>7 DEF IInv, BuilderBehind, Exists
<1>8. CASE q = r /\ b = c
  BY Zenon, <1>4, <1>5, <1>8 DEF IInv, LastWriterWins, Exists
<1> QED BY Zenon, <1>6, <1>7, <1>8

\* The finished snapshot claims the index published last, which is at or
\* after the prefix each collection was copied at.
LEMMA FinishSnapshotKeeps ==
    ASSUME TypeOK, IInv, NEW r \in Replica, FinishSnapshot(r)
    PROVE  BuilderBehind' /\ SnapshotBehind'
<1>1. UNCHANGED <<log, rejected>> /\ \A q \in Replica : Done(q)' = Done(q)
  BY Zenon DEF FinishSnapshot, SnapshotIndex, Done
<1>2. \A q \in Replica : q # r => builder'[q] = builder[q] /\ snapshot'[q] = snapshot[q]
  BY Zenon DEF FinishSnapshot, SnapshotIndex, TypeOK
<1>3. /\ builder[r] # NoTask /\ builder'[r] = NoTask
      /\ snapshot'[r].data = builder[r].data
      /\ snapshot'[r].last_log_id = last_applied_log[r]
  BY Zenon DEF FinishSnapshot, SnapshotIndex, TypeOK
<1>4. \A n \in 0..Done(r) : n <= last_applied_log[r]
  BY DoneType
<1>5. BuilderBehind'
  BY Zenon, <1>1, <1>2, <1>3 DEF IInv, BuilderBehind
<1>6. SnapshotBehind'
  <2> SUFFICES ASSUME NEW q \in Replica, snapshot'[q] # NoSnapshot,
                      NEW c \in CollectionName, Exists(snapshot'[q].data, c)
               PROVE  \E n \in 0..Done(q) :
                        /\ n <= snapshot'[q].last_log_id
                        /\ Reflects(snapshot'[q].data[c], log, rejected[q], c, n)
    BY Zenon, <1>1 DEF SnapshotBehind
  <2>1. CASE q # r
    BY Zenon, <1>2, <2>1 DEF IInv, SnapshotBehind
  <2>2. CASE q = r
    <3>1. PICK n \in 0..Done(r) :
             Reflects(builder[r].data[c], log, rejected[r], c, n)
      BY Zenon, <1>3, <2>2 DEF IInv, BuilderBehind
    <3> QED BY Zenon, <1>3, <1>4, <2>2, <3>1
  <2> QED BY Zenon, <2>1, <2>2
<1> QED BY Zenon, <1>5, <1>6

\* The invariant is inductive: it holds initially and every step keeps it.
THEOREM Invariance == Spec => []IInv
<1>1. Init => IInv
  <2> SUFFICES ASSUME Init PROVE IInv
    BY Zenon
  <2>1. \A r \in Replica : /\ \A c \in CollectionName : ~Exists(store[r], c)
                           /\ Done(r) = 0 /\ rejected[r] = {}
                           /\ builder[r] = NoTask /\ snapshot[r] = NoSnapshot
    BY Zenon DEF Init, Done, Exists, EmptyStore
  <2> QED
    BY <2>1 DEF IInv, LastWriterWins, RejectionsExplained, HistoryBehind,
                BuilderBehind, SnapshotBehind
<1>2. TypeOK /\ IInv /\ [Next]_vars => IInv'
  <2> SUFFICES ASSUME TypeOK, IInv, [Next]_vars PROVE IInv'
    BY Zenon
  <2>1. ASSUME NEW e \in Command \cup {Blank}, Commit(e) PROVE IInv'
    <3>1. \A i \in 1..Len(log) : log'[i] = log[i]
      BY <2>1 DEF Commit, TypeOK
    <3>2. \A r \in Replica : Done(r)' = Done(r)
      BY Zenon, <2>1 DEF Commit, Done
    <3> QED BY ZenonT(60), <2>1, <3>1, <3>2, StoresUnmoved DEF Commit, IInv
  <2>2. ASSUME NEW r \in Replica, BeginApply(r) PROVE IInv'
    <3>1. \A q \in Replica : Done(q)' = Done(q)
      BY <2>2 DEF BeginApply, Published, Done, TypeOK
    <3> QED BY Zenon, <2>2, <3>1, StoresUnmoved DEF BeginApply, Published, IInv
  <2>3. ASSUME NEW r \in Replica, FinishApply(r) PROVE IInv'
    BY <2>3, FinishApplyKeeps
  <2>4. ASSUME NEW r \in Replica, NEW c \in CollectionName, NEW d \in Dim,
               CreateCollection(r, c, d)
        PROVE  IInv'
    BY Zenon, <2>4, CreateCollectionKeeps
  <2>5. ASSUME NEW r \in Replica, BeginSnapshot(r) PROVE IInv'
    <3>1. \A q \in Replica : Done(q)' = Done(q)
      BY Zenon, <2>5 DEF BeginSnapshot, Done
    <3>2. \A q \in Replica : q # r => builder'[q] = builder[q]
      BY Zenon, <2>5 DEF BeginSnapshot, TypeOK
    <3>3. \A c \in CollectionName : ~Exists(builder'[r].data, c)
      BY Zenon, <2>5 DEF BeginSnapshot, TypeOK, Exists, EmptyStore
    <3>4. BuilderBehind'
      BY Zenon, <2>5, <3>1, <3>2, <3>3 DEF BeginSnapshot, BuilderBehind, IInv
    <3> QED BY Zenon, <2>5, <3>1, <3>4, StoresUnmoved DEF BeginSnapshot, IInv
  <2>6. ASSUME NEW r \in Replica, NEW c \in CollectionName, CopyCollection(r, c)
        PROVE  IInv'
    <3>1. \A q \in Replica : Done(q)' = Done(q)
      BY <2>6 DEF CopyCollection, Done
    <3>2. BuilderBehind'
      BY Zenon, <2>6, CopyCollectionKeeps
    <3> QED BY Zenon, <2>6, <3>1, <3>2, StoresUnmoved DEF CopyCollection, IInv
  <2>7. ASSUME NEW r \in Replica, FinishSnapshot(r) PROVE IInv'
    <3>1. \A q \in Replica : Done(q)' = Done(q)
      BY Zenon, <2>7 DEF FinishSnapshot, SnapshotIndex, Done
    <3>2. BuilderBehind' /\ SnapshotBehind'
      BY Zenon, <2>7, FinishSnapshotKeeps
    <3> QED BY Zenon, <2>7, <3>1, <3>2, StoresUnmoved DEF FinishSnapshot, SnapshotIndex, IInv
  <2>8. ASSUME NEW r \in Replica, Restart(r) PROVE IInv'
    BY Zenon, <2>8, RestartKeeps
  <2>9. CASE UNCHANGED vars
    <3>1. \A q \in Replica : Done(q)' = Done(q)
      BY <2>9 DEF vars, Done
    <3> QED BY Zenon, <2>9, <3>1, StoresUnmoved DEF vars, IInv
  <2> QED
    BY Zenon, <2>1, <2>2, <2>3, <2>4, <2>5, <2>6, <2>7, <2>8, <2>9 DEF Next
<1> QED
  BY <1>1, <1>2, TypeCorrect, PTL DEF Spec

-----------------------------------------------------------------------------
(* The safety properties *)

\* In every reachable state a replica's data are what the entries it accepted
\* say, last writer first.
THEOREM LastWriterWinsAlways == Spec => []LastWriterWins
BY Invariance, PTL DEF IInv

\* In every reachable state the rejected entries are the ones applied before
\* the replica's copy of the collection existed, or of another dimension.
THEOREM RejectionsExplainedAlways == Spec => []RejectionsExplained
BY Invariance, PTL DEF IInv

\* No snapshot ever holds anything of an entry after its last_log_id.
THEOREM SnapshotNeverAheadAlways == Spec => []SnapshotNeverAhead
<1>1. TypeOK /\ IInv => SnapshotNeverAhead
  <2> SUFFICES ASSUME TypeOK, IInv, NEW r \in Replica, snapshot[r] # NoSnapshot,
                      NEW c \in CollectionName, Exists(snapshot[r].data, c)
               PROVE  \E n \in 0..snapshot[r].last_log_id :
                        Reflects(snapshot[r].data[c], log, rejected[r], c, n)
    BY Zenon DEF SnapshotNeverAhead
  <2>1. PICK n \in 0..Done(r) :
           /\ n <= snapshot[r].last_log_id
           /\ Reflects(snapshot[r].data[c], log, rejected[r], c, n)
    BY Zenon DEF IInv, SnapshotBehind
  <2>2. snapshot[r].last_log_id \in Nat /\ n \in Nat
    BY SMTT(30), DoneType DEF TypeOK, Snapshot
  <2> QED BY <2>1, <2>2
<1> QED BY <1>1, TypeCorrect, Invariance, PTL

\* The accepted entries of a prefix leave no choice of the vectors.
LEMMA ReflectsDetermines ==
    ASSUME NEW A \in Collection, NEW B \in Collection, NEW entries, NEW p, NEW q,
           NEW c, NEW n \in Nat,
           \A i \in 1..n : IsCommand(entries[i]) /\ entries[i].collection = c =>
                               (i \in p <=> i \in q),
           Reflects(A, entries, p, c, n), Reflects(B, entries, q, c, n)
    PROVE  A.vectors = B.vectors
<1>1. \A id \in Id : Writers(entries, p, c, id, n) = Writers(entries, q, c, id, n)
  BY Zenon DEF Writers, Touches
<1>2. ASSUME NEW id \in Id PROVE A.vectors[id] = B.vectors[id]
  <2> DEFINE W == Writers(entries, p, c, id, n)
  <2>1. W \subseteq Int
    BY DEF Writers
  <2>2. /\ \/ W = {} /\ A.vectors[id] = NoVector
           \/ \E i \in W : /\ \A j \in W : j <= i
                           /\ A.vectors[id] = ValueLeftBy(entries[i], id)
        /\ \/ W = {} /\ B.vectors[id] = NoVector
           \/ \E i \in W : /\ \A j \in W : j <= i
                           /\ B.vectors[id] = ValueLeftBy(entries[i], id)
    BY Zenon, <1>1 DEF Reflects
  <2> HIDE DEF W
  <2>3. \A i, k \in W : i <= k /\ k <= i => i = k
    BY SMTT(30), <2>1
  <2> QED BY Zenon, <2>2, <2>3
<1> QED BY <1>2 DEF Collection

\* Replicas that created a collection alike, and have applied the same
\* entries, hold the same vectors: the state machine is deterministic once
\* the creations are.
THEOREM ReplicasAgreeAlways == Spec => []ReplicasAgree
<1>1. TypeOK /\ IInv => ReplicasAgree
  <2> SUFFICES ASSUME TypeOK, IInv,
                      NEW r \in Replica, NEW s \in Replica,
                      NEW c \in CollectionName,
                      Exists(store[r], c), Exists(store[s], c),
                      store[r][c].dim = store[s][c].dim,
                      createdAt[r][c] = createdAt[s][c],
                      Done(r) = Done(s)
               PROVE  store[r][c] = store[s][c]
    BY ZenonT(60) DEF ReplicasAgree
  <2> DEFINE n == Done(r)
  <2>1. store[r][c] \in Collection /\ store[s][c] \in Collection
    BY DEF TypeOK, Store, Exists
  <2>2. \A i \in 1..n : IsCommand(log[i]) /\ log[i].collection = c =>
                          (i \in rejected[r] <=> i \in rejected[s])
    BY ZenonT(60) DEF IInv, RejectionsExplained
  <2>3. /\ Reflects(store[r][c], log, rejected[r], c, n)
        /\ Reflects(store[s][c], log, rejected[s], c, n)
    BY Zenon DEF IInv, LastWriterWins
  <2>4. n \in Nat
    BY SMTT(30), DoneType
  <2> HIDE DEF n
  <2>5. store[r][c].vectors = store[s][c].vectors
    BY SMTT(30), <2>1, <2>2, <2>3, <2>4, ReflectsDetermines
  <2> QED BY <2>1, <2>5 DEF Collection
<1> QED BY <1>1, TypeCorrect, Invariance, PTL

\* Only commands are counted as rejected.
CommandsRejected == \A r \in Replica : \A i \in rejected[r] : IsCommand(log[i])

LEMMA CommandsRejectedAlways == Spec => []CommandsRejected
<1>1. Init => CommandsRejected
  BY DEF Init, CommandsRejected
<1>2. TypeOK /\ CommandsRejected /\ [Next]_vars => CommandsRejected'
  <2> SUFFICES ASSUME TypeOK, CommandsRejected, [Next]_vars PROVE CommandsRejected'
    BY Zenon
  <2>1. ASSUME NEW e \in Command \cup {Blank}, Commit(e) PROVE CommandsRejected'
    <3>1. \A i \in 1..Len(log) : log'[i] = log[i]
      BY <2>1 DEF Commit, TypeOK
    <3>2. \A r \in Replica : rejected[r] \subseteq 1..Len(log)
      BY DEF TypeOK
    <3> QED BY Zenon, <2>1, <3>1, <3>2 DEF Commit, CommandsRejected
  <2>2. ASSUME NEW r \in Replica, FinishApply(r) PROVE CommandsRejected'
    <3> DEFINE i == last_applied_log[r]
    <3>1. /\ log' = log
          /\ \/ rejected' = rejected
             \/ IsCommand(log[i]) /\ rejected' = [rejected EXCEPT ![r] = @ \cup {i}]
      BY Zenon, <2>2 DEF FinishApply
    <3> HIDE DEF i
    <3>2. \A q \in Replica : \A j \in rejected'[q] :
             j \in rejected[q] \/ IsCommand(log[j])
      <4>1. rejected \in [Replica -> SUBSET (1..Len(log))]
        BY Zenon DEF TypeOK
      <4>2. ASSUME NEW q \in Replica, rejected' = [rejected EXCEPT ![r] = @ \cup {i}]
            PROVE  rejected'[q] \subseteq rejected[q] \cup {i}
        BY Zenon, <4>1, <4>2
      <4> QED BY Zenon, <3>1, <4>2
    <3> QED BY Zenon, <3>1, <3>2 DEF CommandsRejected
  <2>3. ASSUME NEW r \in Replica, Restart(r) PROVE CommandsRejected'
    <3>1. /\ log' = log
          /\ \A q \in Replica : rejected'[q] \subseteq rejected[q]
      BY Zenon, <2>3 DEF Restart, TypeOK
    <3> QED BY Zenon, <3>1 DEF CommandsRejected
  <2>4. ASSUME UNCHANGED <<log, rejected>> PROVE CommandsRejected'
    BY <2>4 DEF CommandsRejected
  <2>5. ASSUME \/ UNCHANGED vars
               \/ \E r \in Replica :
                    \/ BeginApply(r)
                    \/ \E c \in CollectionName, d \in Dim : CreateCollection(r, c, d)
                    \/ BeginSnapshot(r)
                    \/ \E c \in CollectionName : CopyCollection(r, c)
                    \/ FinishSnapshot(r)
        PROVE  UNCHANGED <<log, rejected>>
    BY Zenon, <2>5 DEF vars, BeginApply, CreateCollection, BeginSnapshot,
                       CopyCollection, FinishSnapshot
  <2> QED BY Zenon, <2>1, <2>2, <2>3, <2>4, <2>5 DEF Next
<1> QED BY <1>1, <1>2, TypeCorrect, PTL DEF Spec

\* The same collections are on every replica, created at the same point of the
\* log with the same dimension.
CreatedAlike ==
    \A r, s \in Replica, c \in CollectionName :
        Exists(store[r], c) =>
            /\ Exists(store[s], c)
            /\ store[r][c].dim = store[s][c].dim
            /\ createdAt[r][c] = createdAt[s][c]

\* raft.rs:221 is right about rejections as long as the creations, which do not
\* go through the log, are alike on all replicas.
THEOREM CreatedAlikeRejectAlike == Spec => [](CreatedAlike => RejectionsDeterministic)
<1>1. TypeOK /\ RejectionsExplained /\ CommandsRejected
        => (CreatedAlike => RejectionsDeterministic)
  <2> SUFFICES ASSUME TypeOK, RejectionsExplained, CommandsRejected, CreatedAlike,
                      NEW r \in Replica, NEW s \in Replica,
                      NEW i \in 1..Done(r), i <= Done(s)
               PROVE  i \in rejected[r] <=> i \in rejected[s]
    BY Zenon DEF RejectionsDeterministic
  <2>1. i \in 1..Done(s) /\ i \in 1..Len(log)
    BY DoneType
  <2>2. CASE ~IsCommand(log[i])
    BY Zenon, <2>2 DEF CommandsRejected
  <2>3. CASE IsCommand(log[i])
    <3>1. log[i].collection \in CollectionName
      BY <2>1, <2>3 DEF TypeOK, Entry, IsCommand, Blank, ShardCommand
    <3> DEFINE c == log[i].collection
               Why(q) == \/ ~Exists(store[q], c)
                         \/ i <= createdAt[q][c]
                         \/ WrongDim(log[i], store[q][c].dim)
    <3>2. (i \in rejected[r] <=> Why(r)) /\ (i \in rejected[s] <=> Why(s))
      BY Zenon, <2>1, <2>3 DEF RejectionsExplained
    <3>3. \/ ~Exists(store[r], c) /\ ~Exists(store[s], c)
          \/ /\ Exists(store[r], c) /\ Exists(store[s], c)
             /\ store[r][c].dim = store[s][c].dim
             /\ createdAt[r][c] = createdAt[s][c]
      BY Zenon, <3>1 DEF CreatedAlike
    <3> QED BY ZenonT(60), <3>2, <3>3
  <2> QED BY <2>2, <2>3
<1> QED BY <1>1, TypeCorrect, RejectionsExplainedAlways, CommandsRejectedAlways, PTL

-----------------------------------------------------------------------------
(* Snapshots that are installed by another replica *)

\* Every entry up to n for collection c was rejected.
Refused(entries, rej, c, n) ==
    \A i \in 1..n : IsCommand(entries[i]) /\ entries[i].collection = c => i \in rej

\* A store is the outcome of the first n entries. What a collection that is
\* not there has missed matters too: it may be created at any time.
Shows(st, entries, rej, n) ==
    /\ rej \subseteq 1..n
    /\ \A c \in CollectionName :
          IF Exists(st, c) THEN Reflects(st[c], entries, rej, c, n)
                           ELSE Refused(entries, rej, c, n)

\* The entries a replica's store shows, if it is clean.
Shown(r) ==
    IF worker[r] = "installing" THEN installing[r].last_log_id ELSE Done(r)

StoreExact(r) == clean[r] => Shows(store[r], log, rejected[r], Shown(r))

SnapshotExact(r) ==
    snapshot[r] # NoSnapshot /\ built[r].exact =>
        Shows(snapshot[r].data, log, built[r].rejected, snapshot[r].last_log_id)

\* While nothing is applied or installed beside it, a builder's copies are the
\* collections of the store, but for those created after the last copy.
BuilderExact(r) ==
    clean[r] /\ quiet[r] /\ builder[r] # NoTask =>
        /\ worker[r] = "idle"
        /\ \A c \in CollectionName :
              IF c \in builder[r].pending THEN Exists(store[r], c)
              ELSE IF Exists(builder[r].data, c)
                   THEN builder[r].data[c] = store[r][c]
                   ELSE Refused(log, rejected[r], c, last_applied_log[r])

TransferTypes ==
    /\ log \in Seq(Entry)
    /\ store \in [Replica -> Store]
    /\ last_applied_log \in [Replica -> 0..Len(log)]
    /\ worker \in [Replica -> {"idle", "applying", "installing"}]
    /\ \A r \in Replica : worker[r] = "applying" => last_applied_log[r] > 0
    /\ rejected \in [Replica -> SUBSET Nat]
    /\ builder \in [Replica -> Builder \cup {NoTask}]
    /\ snapshot \in [Replica -> Snapshot \cup {NoSnapshot}]
    /\ createdAt \in [Replica -> [CollectionName -> Nat]]
    /\ installing \in [Replica -> Snapshot \cup {NoSnapshot}]
    /\ quiet \in [Replica -> BOOLEAN]
    /\ clean \in [Replica -> BOOLEAN]
    /\ built \in [Replica -> [exact : BOOLEAN, rejected : SUBSET Nat,
                              createdAt : [CollectionName -> Nat]]]

\* No snapshot is of an index that is not in the log.
IndexesInLog ==
    \A r \in Replica :
        /\ snapshot[r] # NoSnapshot => snapshot[r].last_log_id <= Len(log)
        /\ worker[r] = "installing" =>
               installing[r] # NoSnapshot /\ installing[r].last_log_id <= Len(log)

TInv ==
    /\ TransferTypes
    /\ IndexesInLog
    /\ \A r \in Replica : StoreExact(r) /\ SnapshotExact(r) /\ BuilderExact(r)

-----------------------------------------------------------------------------
\* Whether a store shows a prefix depends on that prefix only.
LEMMA ShowsPrefix ==
    ASSUME NEW st, NEW e1, NEW e2, NEW rej, NEW n \in Nat,
           \A i \in 1..n : e1[i] = e2[i],
           Shows(st, e1, rej, n)
    PROVE  Shows(st, e2, rej, n)
<1>1. ASSUME NEW c \in CollectionName, Reflects(st[c], e1, rej, c, n)
      PROVE  Reflects(st[c], e2, rej, c, n)
  BY Zenon, <1>1, ReflectsPrefix
<1>2. ASSUME NEW c \in CollectionName, Refused(e1, rej, c, n)
      PROVE  Refused(e2, rej, c, n)
  BY Zenon, <1>2 DEF Refused
<1> QED BY Zenon, <1>1, <1>2 DEF Shows

\* A store without collections shows no entry.
LEMMA ShowsNothing ==
    ASSUME NEW entries
    PROVE  Shows(EmptyStore, entries, {}, 0)
BY DEF Shows, EmptyStore, Exists, Refused

\* create_collection in a store that shows a prefix: the entries the new
\* collection has missed were all rejected.
LEMMA ShowsCreated ==
    ASSUME NEW st \in Store, NEW entries, NEW rej, NEW n \in Nat,
           NEW c \in CollectionName, NEW d \in Dim,
           ~Exists(st, c), Shows(st, entries, rej, n)
    PROVE  Shows(create_collection(st, c, d), entries, rej, n)
<1> DEFINE new == create_collection(st, c, d)
<1>1. \A b \in CollectionName : b # c => new[b] = st[b]
  BY ZenonT(60), CreateEffect
<1>2. /\ new[c] = [dim |-> d, vectors |-> [id \in Id |-> NoVector]]
      /\ Exists(new, c)
  BY ZenonT(60), CreateEffect
<1>3. Refused(entries, rej, c, n)
  BY Zenon DEF Shows
<1>4. \A id \in Id : Writers(entries, rej, c, id, n) = {}
  BY Zenon, <1>3 DEF Writers, Touches, Refused
<1>5. Reflects(new[c], entries, rej, c, n)
  BY <1>2, <1>4 DEF Reflects
<1> HIDE DEF new
<1>6. ASSUME NEW b \in CollectionName
      PROVE  IF Exists(new, b) THEN Reflects(new[b], entries, rej, b, n)
                               ELSE Refused(entries, rej, b, n)
  <2>1. CASE b = c
    BY Zenon, <1>2, <1>5, <2>1
  <2>2. CASE b # c
    BY Zenon, <1>1, <2>2 DEF Shows, Exists
  <2> QED BY Zenon, <2>1, <2>2
<1>7. Shows(new, entries, rej, n)
  BY Zenon, <1>6 DEF Shows
<1> QED BY Zenon, <1>7 DEF new

\* apply of a command to a store that shows the entries before it.
LEMMA ShowsCommand ==
    ASSUME NEW st \in Store, NEW entries, NEW rej, NEW i \in Nat \ {0},
           entries[i] \in ShardCommand, Shows(st, entries, rej, i - 1)
    PROVE  Shows(Execute(st, entries[i]), entries,
                 IF Accepts(st, entries[i]) THEN rej ELSE rej \cup {i}, i)
<1> DEFINE cmd == entries[i]
           rej2 == IF Accepts(st, cmd) THEN rej ELSE rej \cup {i}
           new == Execute(st, cmd)
<1>1. rej \subseteq 1..(i-1)
  BY Zenon DEF Shows
<1>2. rej2 \subseteq 1..i /\ \A j \in 1..i : j # i => j \in 1..(i-1)
  BY <1>1
<1>3. \A c \in CollectionName : Exists(new, c) <=> Exists(st, c)
  BY Zenon, ExecuteEffect
<1>4. ASSUME NEW c \in CollectionName, Exists(st, c)
      PROVE  Reflects(new[c], entries, rej2, c, i)
  <2>1. Reflects(st[c], entries, rej, c, i - 1)
    BY Zenon, <1>4 DEF Shows
  <2> QED BY Zenon, <1>1, <1>4, <2>1, ReflectsNext
<1>5. ASSUME NEW c \in CollectionName, ~Exists(st, c)
      PROVE  Refused(entries, rej2, c, i)
  <2>1. Refused(entries, rej, c, i - 1)
    BY Zenon, <1>5 DEF Shows
  <2>2. cmd.collection = c => i \in rej2
    BY Zenon, <1>5 DEF Accepts, InsertOk
  <2>3. rej \subseteq rej2
    BY Zenon
  <2> QED BY Zenon, <1>2, <2>1, <2>2, <2>3 DEF Refused
<1> HIDE DEF new, rej2
<1>6. Shows(new, entries, rej2, i)
  BY Zenon, <1>2, <1>3, <1>4, <1>5 DEF Shows
<1> QED BY Zenon, <1>6 DEF new, rej2

\* apply of a blank or membership entry.
LEMMA ShowsBlank ==
    ASSUME NEW st, NEW entries, NEW rej, NEW i \in Nat \ {0},
           ~IsCommand(entries[i]), Shows(st, entries, rej, i - 1)
    PROVE  Shows(st, entries, rej, i)
<1>1. /\ \A j \in 1..i : j # i => j \in 1..(i-1)
      /\ \A j \in 1..(i-1) : j \in 1..i
  OBVIOUS
<1>2. rej \subseteq 1..(i-1)
  BY Zenon DEF Shows
<1>3. \A c, id : Writers(entries, rej, c, id, i) = Writers(entries, rej, c, id, i - 1)
  BY Zenon, <1>1 DEF Writers
<1>4. ASSUME NEW c \in CollectionName, Reflects(st[c], entries, rej, c, i - 1)
      PROVE  Reflects(st[c], entries, rej, c, i)
  BY Zenon, <1>3, <1>4 DEF Reflects
<1>5. ASSUME NEW c \in CollectionName, Refused(entries, rej, c, i - 1)
      PROVE  Refused(entries, rej, c, i)
  BY Zenon, <1>1, <1>5 DEF Refused
<1>6. rej \subseteq 1..i
  BY Zenon, <1>1, <1>2
<1> QED BY Zenon, <1>4, <1>5, <1>6 DEF Shows

\* last_applied_log is an index of the log.
LEMMA IndexType ==
    ASSUME TInv, NEW r \in Replica
    PROVE  /\ Len(log) \in Nat /\ last_applied_log[r] \in Nat
           /\ last_applied_log[r] <= Len(log)
           /\ worker[r] = "applying" => last_applied_log[r] > 0
<1>1. /\ log \in Seq(Entry) /\ last_applied_log[r] \in 0..Len(log)
      /\ worker[r] = "applying" => last_applied_log[r] > 0
  BY Zenon DEF TInv, TransferTypes
<1> QED BY <1>1

\* The number of entries a store shows is an index of the log.
LEMMA ShownType ==
    ASSUME TInv, NEW r \in Replica
    PROVE  Shown(r) \in Nat /\ \A i \in 1..Shown(r) : i \in 1..Len(log)
<1>1. Shown(r) \in 0..Len(log) /\ Len(log) \in Nat
  BY DEF Shown, Done, TInv, TransferTypes, IndexesInLog, Snapshot
<1> QED BY <1>1

\* What a step has to leave alone to keep the three parts of a replica.
LEMMA StoreKept ==
    ASSUME TInv, NEW r \in Replica, \A i \in 1..Len(log) : log'[i] = log[i],
           store'[r] = store[r], rejected'[r] = rejected[r],
           Shown(r)' = Shown(r), clean'[r] => clean[r]
    PROVE  StoreExact(r)'
<1> SUFFICES ASSUME clean'[r]
             PROVE  Shows(store[r], log', rejected[r], Shown(r))
  BY Zenon DEF StoreExact
<1>1. Shows(store[r], log, rejected[r], Shown(r))
  BY Zenon DEF TInv, StoreExact
<1>2. Shown(r) \in Nat /\ \A i \in 1..Shown(r) : i \in 1..Len(log)
  BY ShownType
<1> QED BY ZenonT(60), <1>1, <1>2, ShowsPrefix

LEMMA SnapshotKept ==
    ASSUME TInv, NEW r \in Replica, \A i \in 1..Len(log) : log'[i] = log[i],
           snapshot'[r] = snapshot[r], built'[r] = built[r]
    PROVE  SnapshotExact(r)'
<1> SUFFICES ASSUME snapshot[r] # NoSnapshot, built[r].exact
             PROVE  Shows(snapshot[r].data, log', built[r].rejected,
                          snapshot[r].last_log_id)
  BY Zenon DEF SnapshotExact
<1> DEFINE n == snapshot[r].last_log_id
<1>1. Shows(snapshot[r].data, log, built[r].rejected, n)
  BY ZenonT(60) DEF TInv, SnapshotExact
<1>2. n \in Nat /\ n <= Len(log) /\ Len(log) \in Nat
  BY DEF TInv, TransferTypes, IndexesInLog, Snapshot
<1>3. \A i \in 1..n : i \in 1..Len(log)
  BY <1>2
<1> QED BY Zenon, <1>1, <1>2, <1>3, ShowsPrefix

LEMMA BuilderKept ==
    ASSUME TInv, NEW r \in Replica, \A i \in 1..Len(log) : log'[i] = log[i],
           store'[r] = store[r], rejected'[r] = rejected[r],
           worker'[r] = worker[r], last_applied_log'[r] = last_applied_log[r],
           builder'[r] = builder[r], quiet'[r] => quiet[r], clean'[r] => clean[r]
    PROVE  BuilderExact(r)'
<1> SUFFICES ASSUME clean'[r], quiet'[r], builder[r] # NoTask
             PROVE  BuilderExact(r)'
  BY ZenonT(60) DEF BuilderExact
<1>1. \A i \in 1..last_applied_log[r] : i \in 1..Len(log)
  BY DEF TInv, TransferTypes
<1>2. ASSUME NEW c, Refused(log, rejected[r], c, last_applied_log[r])
      PROVE  Refused(log', rejected[r], c, last_applied_log[r])
  BY Zenon, <1>1, <1>2 DEF Refused
<1>3. BuilderExact(r) /\ clean[r] /\ quiet[r]
  BY Zenon DEF TInv
<1> QED BY Zenon, <1>2, <1>3 DEF BuilderExact

\* A replica whose variables a step leaves alone.
LEMMA ReplicaKept ==
    ASSUME TInv, NEW r \in Replica, \A i \in 1..Len(log) : log'[i] = log[i],
           store'[r] = store[r], rejected'[r] = rejected[r],
           worker'[r] = worker[r], last_applied_log'[r] = last_applied_log[r],
           builder'[r] = builder[r], snapshot'[r] = snapshot[r],
           installing'[r] = installing[r], built'[r] = built[r],
           quiet'[r] = quiet[r], clean'[r] = clean[r]
    PROVE  StoreExact(r)' /\ SnapshotExact(r)' /\ BuilderExact(r)'
<1>1. Shown(r)' = Shown(r)
  BY Zenon DEF Shown, Done
<1> QED BY Zenon, <1>1, StoreKept, SnapshotKept, BuilderKept

-----------------------------------------------------------------------------
(* One lemma for each action *)

\* openraft commits an entry.
LEMMA CommitTransfer ==
    ASSUME TInv, NEW e \in Command \cup {Blank}, Commit(e),
           UNCHANGED <<installing, quiet, built, clean>>
    PROVE  TInv'
<1>1. e \in Entry
  BY SMTT(30), CommandAssumption DEF Entry
<1>2. /\ log \in Seq(Entry) /\ log' \in Seq(Entry) /\ Len(log') = Len(log) + 1
      /\ Len(log) \in Nat /\ \A i \in 1..Len(log) : log'[i] = log[i]
  BY <1>1 DEF Commit, TInv, TransferTypes
<1>3. UNCHANGED <<store, last_applied_log, worker, rejected, builder, snapshot,
                  createdAt, installing, quiet, built, clean>>
  BY Zenon DEF Commit
<1>4. 0..Len(log) \subseteq 0..Len(log')
  BY <1>2
<1>5. last_applied_log' \in [Replica -> 0..Len(log')]
  BY <1>3, <1>4 DEF TInv, TransferTypes
<1>6. TransferTypes'
  BY Zenon, <1>2, <1>3, <1>5 DEF TInv, TransferTypes
<1>7. \A n \in Nat : n <= Len(log) => n <= Len(log')
  BY SMTT(30), <1>2
<1>8. \A r \in Replica :
        /\ snapshot[r] # NoSnapshot => snapshot[r].last_log_id \in Nat
        /\ installing[r] # NoSnapshot => installing[r].last_log_id \in Nat
  BY DEF TInv, TransferTypes, Snapshot
<1>9. IndexesInLog'
  BY Zenon, <1>3, <1>7, <1>8 DEF TInv, IndexesInLog
<1> QED BY Zenon, <1>2, <1>3, <1>6, <1>9, ReplicaKept DEF TInv

\* The index of the next entry is published.
LEMMA BeginApplyTransfer ==
    ASSUME TInv, NEW r \in Replica, BeginApply(r),
           quiet' = [quiet EXCEPT ![r] = FALSE],
           UNCHANGED <<installing, built, clean>>
    PROVE  TInv'
<1>0. TransferTypes
  BY Zenon DEF TInv
<1>1. UNCHANGED <<log, store, rejected, builder, snapshot, createdAt,
                  installing, built, clean>>
  BY Zenon DEF BeginApply
<1>2. /\ worker[r] = "idle" /\ worker' = [worker EXCEPT ![r] = "applying"]
      /\ last_applied_log' = [last_applied_log EXCEPT ![r] = last_applied_log[r] + 1]
      /\ last_applied_log[r] < Len(log)
  BY Zenon DEF BeginApply, Published
<1>3. /\ worker' \in [Replica -> {"idle", "applying", "installing"}]
      /\ worker'[r] = "applying"
      /\ \A q \in Replica : q # r => worker'[q] = worker[q]
  BY Zenon, <1>0, <1>2 DEF TransferTypes
<1>4. last_applied_log[r] \in Nat /\ last_applied_log[r] + 1 \in 0..Len(log)
      /\ last_applied_log[r] + 1 > 0 /\ (last_applied_log[r] + 1) - 1 = last_applied_log[r]
  BY <1>2, IndexType
<1>5. /\ last_applied_log' \in [Replica -> 0..Len(log)]
      /\ last_applied_log'[r] = last_applied_log[r] + 1
      /\ \A q \in Replica : q # r => last_applied_log'[q] = last_applied_log[q]
  BY Zenon, <1>0, <1>2, <1>4 DEF TransferTypes
<1>6. /\ quiet' \in [Replica -> BOOLEAN] /\ quiet'[r] = FALSE
      /\ \A q \in Replica : q # r => quiet'[q] = quiet[q]
  BY Zenon, <1>0 DEF TransferTypes
<1>7. TransferTypes'
  BY Zenon, <1>0, <1>1, <1>3, <1>4, <1>5, <1>6 DEF TransferTypes
<1>8. IndexesInLog'
  BY Zenon, <1>1, <1>3 DEF TInv, IndexesInLog
<1>9. Shown(r)' = Shown(r)
  BY Zenon, <1>2, <1>3, <1>4, <1>5 DEF Shown, Done
<1>10. StoreExact(r)' /\ SnapshotExact(r)'
  BY Zenon, <1>1, <1>9, StoreKept, SnapshotKept
<1>11. BuilderExact(r)'
  BY Zenon, <1>6 DEF BuilderExact
<1>12. \A q \in Replica : q # r =>
          StoreExact(q)' /\ SnapshotExact(q)' /\ BuilderExact(q)'
  BY ZenonT(60), <1>1, <1>3, <1>5, <1>6, ReplicaKept
<1> QED BY Zenon, <1>7, <1>8, <1>10, <1>11, <1>12 DEF TInv

\* apply has executed the entry.
LEMMA FinishApplyTransfer ==
    ASSUME TInv, NEW r \in Replica, FinishApply(r),
           quiet' = [quiet EXCEPT ![r] = FALSE],
           UNCHANGED <<installing, built, clean>>
    PROVE  TInv'
<1> DEFINE i == last_applied_log[r]
           e == log[i]
<1>0. TransferTypes
  BY Zenon DEF TInv
<1>1. /\ UNCHANGED <<log, last_applied_log, builder, snapshot, createdAt,
                     installing, built, clean>>
      /\ worker[r] = "applying" /\ worker' = [worker EXCEPT ![r] = "idle"]
  BY Zenon DEF FinishApply
<1>2. /\ i \in Nat \ {0} /\ i \in 1..Len(log)
  BY <1>1, IndexType
<1>3. log \in Seq(Entry) /\ e \in Entry
  BY <1>0, <1>2 DEF TransferTypes
<1>4. /\ worker' \in [Replica -> {"idle", "applying", "installing"}]
      /\ worker'[r] = "idle"
      /\ \A q \in Replica : q # r => worker'[q] = worker[q]
  BY Zenon, <1>0, <1>1 DEF TransferTypes
<1>5. /\ quiet' \in [Replica -> BOOLEAN] /\ quiet'[r] = FALSE
      /\ \A q \in Replica : q # r => quiet'[q] = quiet[q]
  BY Zenon, <1>0 DEF TransferTypes
<1>6. store[r] \in Store
  BY Zenon, <1>0 DEF TransferTypes
<1>7. Shown(r) = i - 1 /\ Shown(r)' = i
  BY Zenon, <1>1, <1>4 DEF Shown, Done
<1>8. clean[r] => Shows(store[r], log, rejected[r], i - 1)
  BY Zenon, <1>7 DEF TInv, StoreExact
<1> DEFINE Goal ==
        /\ store' \in [Replica -> Store] /\ rejected' \in [Replica -> SUBSET Nat]
        /\ \A q \in Replica : q # r => store'[q] = store[q] /\ rejected'[q] = rejected[q]
        /\ clean[r] => Shows(store'[r], log, rejected'[r], i)
<1>9. ASSUME IsCommand(e) PROVE Goal
  <2>1. e \in ShardCommand
    BY <1>3, <1>9 DEF Entry, IsCommand, Blank
  <2>2. Execute(store[r], e) \in Store
    BY Zenon, <1>6, <2>1, ExecuteType
  <2>3. store' = [store EXCEPT ![r] = Execute(store[r], e)]
    BY Zenon, <1>9 DEF FinishApply
  <2>4. /\ store' \in [Replica -> Store] /\ store'[r] = Execute(store[r], e)
        /\ \A q \in Replica : q # r => store'[q] = store[q]
    BY Zenon, <1>0, <2>2, <2>3 DEF TransferTypes
  <2>5. /\ rejected' \in [Replica -> SUBSET Nat]
        /\ rejected'[r] = IF Accepts(store[r], e) THEN rejected[r]
                                                  ELSE rejected[r] \cup {i}
        /\ \A q \in Replica : q # r => rejected'[q] = rejected[q]
    <3>0. rejected \in [Replica -> SUBSET Nat]
      BY Zenon, <1>0 DEF TransferTypes
    <3>1. CASE Accepts(store[r], e)
      BY Zenon, <1>9, <3>0, <3>1 DEF FinishApply
    <3>2. CASE ~Accepts(store[r], e)
      <4>1. rejected' = [rejected EXCEPT ![r] = rejected[r] \cup {i}]
        BY Zenon, <1>9, <3>2 DEF FinishApply
      <4>2. rejected[r] \cup {i} \in SUBSET Nat
        BY <1>2, <3>0
      <4> QED BY Zenon, <3>0, <3>2, <4>1, <4>2
    <3> QED BY Zenon, <3>1, <3>2
  <2>6. clean[r] => Shows(Execute(store[r], e), log,
                          IF Accepts(store[r], e) THEN rejected[r]
                                                  ELSE rejected[r] \cup {i}, i)
    <3> HIDE DEF i
    <3> QED BY Zenon, <1>2, <1>6, <1>8, <2>1, ShowsCommand
  <2> QED BY ZenonT(60), <2>4, <2>5, <2>6
<1>10. ASSUME ~IsCommand(e) PROVE Goal
  <2>1. store' = store /\ rejected' = rejected
    BY Zenon, <1>10 DEF FinishApply
  <2>2. clean[r] => Shows(store[r], log, rejected[r], i)
    <3> HIDE DEF i
    <3> QED BY Zenon, <1>2, <1>8, <1>10, ShowsBlank
  <2> QED BY Zenon, <1>0, <2>1, <2>2 DEF TransferTypes
<1>11. Goal
  BY Zenon, <1>9, <1>10
<1> HIDE DEF i, e
<1>12. TransferTypes'
  BY Zenon, <1>0, <1>1, <1>4, <1>5, <1>11 DEF TransferTypes
<1>13. IndexesInLog'
  BY Zenon, <1>1, <1>4 DEF TInv, IndexesInLog
<1>14. StoreExact(r)' /\ SnapshotExact(r)'
  BY Zenon, <1>1, <1>7, <1>11, SnapshotKept DEF StoreExact
<1>15. BuilderExact(r)'
  BY Zenon, <1>5 DEF BuilderExact
<1>16. \A q \in Replica : q # r =>
          StoreExact(q)' /\ SnapshotExact(q)' /\ BuilderExact(q)'
  BY Zenon, <1>1, <1>4, <1>5, <1>11, ReplicaKept
<1> QED BY Zenon, <1>12, <1>13, <1>14, <1>15, <1>16 DEF TInv

\* create_collection, also while a snapshot is being installed and after a
\* builder has copied the last collection.
LEMMA CreateCollectionTransfer ==
    ASSUME TInv, NEW r \in Replica, NEW c \in CollectionName, NEW d \in Dim,
           CreateCollection(r, c, d), UNCHANGED <<installing, quiet, built, clean>>
    PROVE  TInv'
<1>0. TransferTypes
  BY Zenon DEF TInv
<1>1. UNCHANGED <<log, last_applied_log, worker, rejected, builder, snapshot,
                  installing, quiet, built, clean>>
  BY Zenon DEF CreateCollection
<1>2. /\ ~CollectionsLocked(r) /\ ~Exists(store[r], c)
      /\ store' = [store EXCEPT ![r] = create_collection(store[r], c, d)]
      /\ createdAt' = [createdAt EXCEPT ![r][c] = Done(r)]
  BY Zenon DEF CreateCollection
<1>3. store[r] \in Store
  BY Zenon, <1>0 DEF TransferTypes
<1>4. /\ create_collection(store[r], c, d) \in Store
      /\ \A b \in CollectionName : b # c => create_collection(store[r], c, d)[b] = store[r][b]
  <2>1. create_collection(store[r], c, d) \in Store
    BY Zenon, <1>3, CreateEffect
  <2>2. ASSUME NEW b \in CollectionName, b # c
        PROVE  create_collection(store[r], c, d)[b] = store[r][b]
    BY Zenon, <1>3, <2>2 DEF create_collection, Store
  <2> QED BY Zenon, <2>1, <2>2
<1>5. /\ store' \in [Replica -> Store] /\ store'[r] = create_collection(store[r], c, d)
      /\ \A q \in Replica : q # r => store'[q] = store[q]
  BY Zenon, <1>0, <1>2, <1>4 DEF TransferTypes
<1>6. createdAt' \in [Replica -> [CollectionName -> Nat]]
  <2>1. Done(r) \in Nat
    BY IndexType DEF Done
  <2>2. createdAt \in [Replica -> [CollectionName -> Nat]]
    BY Zenon, <1>0 DEF TransferTypes
  <2> QED BY SMTT(30), <1>2, <2>1, <2>2
<1>7. TransferTypes'
  BY Zenon, <1>0, <1>1, <1>5, <1>6 DEF TransferTypes
<1>8. IndexesInLog'
  BY Zenon, <1>1 DEF TInv, IndexesInLog
<1>9. StoreExact(r)'
  <2>1. Shown(r)' = Shown(r) /\ Shown(r) \in Nat
    BY Zenon, <1>1, ShownType DEF Shown, Done
  <2>2. clean[r] => Shows(store[r], log, rejected[r], Shown(r))
    BY Zenon DEF TInv, StoreExact
  <2>3. clean[r] => Shows(store'[r], log, rejected[r], Shown(r))
    BY Zenon, <1>2, <1>3, <1>5, <2>1, <2>2, ShowsCreated
  <2> QED BY Zenon, <1>1, <2>1, <2>3 DEF StoreExact
<1>10. SnapshotExact(r)'
  BY Zenon, <1>1, SnapshotKept
<1>11. BuilderExact(r)'
  <2> SUFFICES ASSUME clean[r], quiet[r], builder[r] # NoTask
               PROVE  BuilderExact(r)'
    BY Zenon, <1>1 DEF BuilderExact
  <2>1. /\ worker[r] = "idle"
        /\ \A b \in CollectionName :
              IF b \in builder[r].pending THEN Exists(store[r], b)
              ELSE IF Exists(builder[r].data, b)
                   THEN builder[r].data[b] = store[r][b]
                   ELSE Refused(log, rejected[r], b, last_applied_log[r])
    BY Zenon DEF TInv, BuilderExact
  <2>2. builder[r].pending = {}
    BY Zenon, <1>2 DEF CollectionsLocked
  <2>3. ~Exists(builder[r].data, c)
    BY Zenon, <1>2, <2>1, <2>2 DEF Exists
  <2>4. \A b \in CollectionName : b # c => store'[r][b] = store[r][b]
    BY Zenon, <1>4, <1>5
  <2>5. \A b \in CollectionName :
          IF Exists(builder[r].data, b)
          THEN builder[r].data[b] = store'[r][b]
          ELSE Refused(log, rejected[r], b, last_applied_log[r])
    BY Zenon, <2>1, <2>2, <2>3, <2>4
  <2> QED BY Zenon, <1>1, <2>1, <2>2, <2>5 DEF BuilderExact
<1>12. \A q \in Replica : q # r =>
          StoreExact(q)' /\ SnapshotExact(q)' /\ BuilderExact(q)'
  BY Zenon, <1>1, <1>5, ReplicaKept
<1> QED BY Zenon, <1>7, <1>8, <1>9, <1>10, <1>11, <1>12 DEF TInv

\* A build begins with the list of the collections.
LEMMA BeginSnapshotTransfer ==
    ASSUME TInv, NEW r \in Replica, BeginSnapshotStep(r)
    PROVE  TInv'
<1>0. TransferTypes
  BY Zenon DEF TInv
<1> DEFINE new == [pending |-> {c \in CollectionName : Exists(store[r], c)},
                   data    |-> EmptyStore]
<1>1. /\ UNCHANGED <<log, store, last_applied_log, worker, rejected, snapshot,
                     createdAt, installing, built, clean>>
      /\ builder' = [builder EXCEPT ![r] = new]
      /\ quiet' = [quiet EXCEPT ![r] = worker[r] = "idle"]
  BY Zenon DEF BeginSnapshotStep, BeginSnapshot
<1>2. new \in Builder
  BY DEF Builder, EmptyStore, Store
<1>3. /\ new.pending = {c \in CollectionName : Exists(store[r], c)}
      /\ \A c \in CollectionName : ~Exists(new.data, c)
  BY DEF EmptyStore, Exists
<1> HIDE DEF new
<1>4. /\ builder' \in [Replica -> Builder \cup {NoTask}] /\ builder'[r] = new
      /\ \A q \in Replica : q # r => builder'[q] = builder[q]
  BY Zenon, <1>0, <1>1, <1>2 DEF TransferTypes
<1>5. /\ quiet' \in [Replica -> BOOLEAN] /\ quiet'[r] = (worker[r] = "idle")
      /\ \A q \in Replica : q # r => quiet'[q] = quiet[q]
  BY Zenon, <1>0, <1>1 DEF TransferTypes
<1>6. TransferTypes'
  BY Zenon, <1>0, <1>1, <1>4, <1>5 DEF TransferTypes
<1>7. IndexesInLog'
  BY Zenon, <1>1 DEF TInv, IndexesInLog
<1>8. Shown(r)' = Shown(r)
  BY Zenon, <1>1 DEF Shown, Done
<1>9. StoreExact(r)' /\ SnapshotExact(r)'
  BY Zenon, <1>1, <1>8, StoreKept, SnapshotKept
<1>10. BuilderExact(r)'
  <2> SUFFICES ASSUME clean[r], quiet'[r] PROVE BuilderExact(r)'
    BY Zenon, <1>1 DEF BuilderExact
  <2>1. worker[r] = "idle"
    BY ZenonT(60), <1>5
  <2>2. Shows(store[r], log, rejected[r], last_applied_log[r])
    BY Zenon, <2>1 DEF TInv, StoreExact, Shown, Done
  <2>3. \A c \in CollectionName :
          IF c \in new.pending THEN Exists(store[r], c)
          ELSE Refused(log, rejected[r], c, last_applied_log[r])
    BY Zenon, <1>3, <2>2 DEF Shows
  <2> QED BY Zenon, <1>1, <1>3, <1>4, <2>1, <2>3 DEF BuilderExact
<1>11. \A q \in Replica : q # r =>
          StoreExact(q)' /\ SnapshotExact(q)' /\ BuilderExact(q)'
  BY Zenon, <1>1, <1>4, <1>5, ReplicaKept
<1> QED BY Zenon, <1>6, <1>7, <1>9, <1>10, <1>11 DEF TInv

\* The builder copies one collection.
LEMMA CopyCollectionTransfer ==
    ASSUME TInv, NEW r \in Replica, NEW c \in CollectionName,
           CopyCollection(r, c), UNCHANGED <<installing, quiet, built, clean>>
    PROVE  TInv'
<1>0. TransferTypes
  BY Zenon DEF TInv
<1> DEFINE new == [pending |-> builder[r].pending \ {c},
                   data    |-> [builder[r].data EXCEPT ![c] = store[r][c]]]
<1>1. /\ UNCHANGED <<log, store, last_applied_log, worker, rejected, snapshot,
                     createdAt, installing, quiet, built, clean>>
      /\ builder[r] # NoTask /\ c \in builder[r].pending
      /\ builder' = [builder EXCEPT ![r] = new]
  BY Zenon DEF CopyCollection
<1>2. builder[r] \in Builder /\ store[r] \in Store
  BY ZenonT(60), <1>0, <1>1 DEF TransferTypes
<1>3. /\ new \in Builder /\ new.pending = builder[r].pending \ {c}
      /\ \A b \in CollectionName :
            new.data[b] = IF b = c THEN store[r][c] ELSE builder[r].data[b]
  BY <1>2 DEF Builder, Store
<1> HIDE DEF new
<1>4. /\ builder' \in [Replica -> Builder \cup {NoTask}] /\ builder'[r] = new
      /\ \A q \in Replica : q # r => builder'[q] = builder[q]
  BY Zenon, <1>0, <1>1, <1>3 DEF TransferTypes
<1>5. TransferTypes'
  BY Zenon, <1>0, <1>1, <1>4 DEF TransferTypes
<1>6. IndexesInLog'
  BY Zenon, <1>1 DEF TInv, IndexesInLog
<1>7. Shown(r)' = Shown(r)
  BY Zenon, <1>1 DEF Shown, Done
<1>8. StoreExact(r)' /\ SnapshotExact(r)'
  BY Zenon, <1>1, <1>7, StoreKept, SnapshotKept
<1>9. BuilderExact(r)'
  <2> SUFFICES ASSUME clean[r], quiet[r] PROVE BuilderExact(r)'
    BY Zenon, <1>1 DEF BuilderExact
  <2>1. /\ worker[r] = "idle"
        /\ \A b \in CollectionName :
              IF b \in builder[r].pending THEN Exists(store[r], b)
              ELSE IF Exists(builder[r].data, b)
                   THEN builder[r].data[b] = store[r][b]
                   ELSE Refused(log, rejected[r], b, last_applied_log[r])
    BY Zenon, <1>1 DEF TInv, BuilderExact
  <2>2. ASSUME NEW b \in CollectionName
        PROVE  IF b \in new.pending THEN Exists(store[r], b)
               ELSE IF Exists(new.data, b)
                    THEN new.data[b] = store[r][b]
                    ELSE Refused(log, rejected[r], b, last_applied_log[r])
    <3>1. CASE b = c
      BY Zenon, <1>1, <1>3, <2>1, <3>1 DEF Exists
    <3>2. CASE b # c
      BY Zenon, <1>3, <2>1, <3>2 DEF Exists
    <3> QED BY Zenon, <3>1, <3>2
  <2> QED BY Zenon, <1>1, <1>4, <2>1, <2>2 DEF BuilderExact
<1>10. \A q \in Replica : q # r =>
          StoreExact(q)' /\ SnapshotExact(q)' /\ BuilderExact(q)'
  BY Zenon, <1>1, <1>4, ReplicaKept
<1> QED BY Zenon, <1>5, <1>6, <1>8, <1>9, <1>10 DEF TInv

\* A build that nothing overlapped ends with the state of last_applied_log.
LEMMA FinishSnapshotTransfer ==
    ASSUME TInv, NEW r \in Replica, FinishSnapshotStep(r)
    PROVE  TInv'
<1>0. TransferTypes
  BY Zenon DEF TInv
<1> DEFINE n == last_applied_log[r]
           new == [data |-> builder[r].data, last_log_id |-> n]
           how == [exact |-> quiet[r] /\ clean[r], rejected |-> rejected[r],
                   createdAt |-> createdAt[r]]
<1>1. /\ UNCHANGED <<log, store, last_applied_log, worker, rejected,
                     createdAt, installing, quiet, clean>>
      /\ builder[r] # NoTask /\ builder[r].pending = {}
      /\ builder' = [builder EXCEPT ![r] = NoTask]
      /\ snapshot' = [snapshot EXCEPT ![r] = new]
      /\ built' = [built EXCEPT ![r] = how]
  BY Zenon DEF FinishSnapshotStep, FinishSnapshot, SnapshotIndex, History
<1>2. builder[r] \in Builder /\ n \in Nat /\ n <= Len(log)
  BY Zenon, <1>0, <1>1, IndexType DEF TransferTypes
<1>3. /\ quiet[r] \in BOOLEAN /\ clean[r] \in BOOLEAN
      /\ rejected[r] \in SUBSET Nat /\ createdAt[r] \in [CollectionName -> Nat]
  BY ZenonT(60), <1>0 DEF TransferTypes
<1>4. /\ new \in Snapshot /\ new.data = builder[r].data /\ new.last_log_id = n
  BY Zenon, <1>2 DEF Snapshot, Builder
<1>5. /\ how \in [exact : BOOLEAN, rejected : SUBSET Nat,
                  createdAt : [CollectionName -> Nat]]
      /\ how.exact = (quiet[r] /\ clean[r]) /\ how.rejected = rejected[r]
  BY Zenon, <1>3
<1> HIDE DEF new, how
<1>6. /\ builder' \in [Replica -> Builder \cup {NoTask}] /\ builder'[r] = NoTask
      /\ snapshot' \in [Replica -> Snapshot \cup {NoSnapshot}] /\ snapshot'[r] = new
      /\ \A q \in Replica : q # r => builder'[q] = builder[q] /\ snapshot'[q] = snapshot[q]
  BY Zenon, <1>0, <1>1, <1>4 DEF TransferTypes
<1>7. /\ built' \in [Replica -> [exact : BOOLEAN, rejected : SUBSET Nat,
                                 createdAt : [CollectionName -> Nat]]]
      /\ built'[r] = how
      /\ \A q \in Replica : q # r => built'[q] = built[q]
  BY Zenon, <1>0, <1>1, <1>5 DEF TransferTypes
<1>8. TransferTypes'
  BY Zenon, <1>0, <1>1, <1>6, <1>7 DEF TransferTypes
<1>9. IndexesInLog'
  BY Zenon, <1>1, <1>2, <1>4, <1>6 DEF TInv, IndexesInLog
<1>10. Shown(r)' = Shown(r)
  BY Zenon, <1>1 DEF Shown, Done
<1>11. StoreExact(r)' /\ BuilderExact(r)'
  BY Zenon, <1>1, <1>6, <1>10, StoreKept DEF BuilderExact
<1>12. SnapshotExact(r)'
  <2> SUFFICES ASSUME quiet[r], clean[r]
               PROVE  Shows(builder[r].data, log, rejected[r], n)
    BY Zenon, <1>1, <1>4, <1>5, <1>6, <1>7 DEF SnapshotExact
  <2>1. /\ worker[r] = "idle"
        /\ \A b \in CollectionName :
              IF Exists(builder[r].data, b)
              THEN builder[r].data[b] = store[r][b]
              ELSE Refused(log, rejected[r], b, n)
    BY ZenonT(60), <1>1 DEF TInv, BuilderExact
  <2>2. Shows(store[r], log, rejected[r], n)
    BY Zenon, <2>1 DEF TInv, StoreExact, Shown, Done
  <2> QED BY Zenon, <2>1, <2>2 DEF Shows, Exists
<1>13. \A q \in Replica : q # r =>
          StoreExact(q)' /\ SnapshotExact(q)' /\ BuilderExact(q)'
  BY Zenon, <1>1, <1>6, <1>7, ReplicaKept
<1> QED BY Zenon, <1>8, <1>9, <1>11, <1>12, <1>13 DEF TInv

\* A restart empties the state machine and drops its builder.
LEMMA RestartTransfer ==
    ASSUME TInv, NEW r \in Replica, RestartStep(r)
    PROVE  TInv'
<1>0. TransferTypes
  BY Zenon DEF TInv
<1>1. /\ UNCHANGED <<log, built>>
      /\ store' = [store EXCEPT ![r] = EmptyStore]
      /\ last_applied_log' = [last_applied_log EXCEPT ![r] = 0]
      /\ worker' = [worker EXCEPT ![r] = "idle"]
      /\ rejected' = [rejected EXCEPT ![r] = {}]
      /\ builder' = [builder EXCEPT ![r] = NoTask]
      /\ snapshot' = [snapshot EXCEPT ![r] = NoSnapshot]
      /\ createdAt' = [createdAt EXCEPT ![r] = [c \in CollectionName |-> 0]]
      /\ installing' = [installing EXCEPT ![r] = NoSnapshot]
      /\ quiet' = [quiet EXCEPT ![r] = TRUE]
      /\ clean' = [clean EXCEPT ![r] = TRUE]
  BY Zenon DEF RestartStep, Restart
<1>2. EmptyStore \in Store /\ 0 \in Nat
  BY DEF EmptyStore, Store
<1>3. /\ store' \in [Replica -> Store] /\ store'[r] = EmptyStore
      /\ worker' \in [Replica -> {"idle", "applying", "installing"}]
      /\ worker'[r] = "idle"
      /\ \A q \in Replica : q # r => store'[q] = store[q] /\ worker'[q] = worker[q]
  BY Zenon, <1>0, <1>1, <1>2 DEF TransferTypes
<1>4. /\ rejected' \in [Replica -> SUBSET Nat] /\ rejected'[r] = {}
      /\ builder' \in [Replica -> Builder \cup {NoTask}] /\ builder'[r] = NoTask
      /\ \A q \in Replica : q # r => rejected'[q] = rejected[q] /\ builder'[q] = builder[q]
  BY Zenon, <1>0, <1>1 DEF TransferTypes
<1>5. /\ snapshot' \in [Replica -> Snapshot \cup {NoSnapshot}]
      /\ snapshot'[r] = NoSnapshot
      /\ installing' \in [Replica -> Snapshot \cup {NoSnapshot}]
      /\ \A q \in Replica : q # r => /\ snapshot'[q] = snapshot[q]
                                     /\ installing'[q] = installing[q]
  BY Zenon, <1>0, <1>1 DEF TransferTypes
<1>6. /\ quiet' \in [Replica -> BOOLEAN] /\ clean' \in [Replica -> BOOLEAN]
      /\ \A q \in Replica : q # r => quiet'[q] = quiet[q] /\ clean'[q] = clean[q]
  BY Zenon, <1>0, <1>1 DEF TransferTypes
<1>7. /\ last_applied_log' \in [Replica -> 0..Len(log)] /\ last_applied_log'[r] = 0
      /\ \A q \in Replica : q # r => last_applied_log'[q] = last_applied_log[q]
  <2>1. 0 \in 0..Len(log)
    <3>1. log \in Seq(Entry)
      BY Zenon, <1>0 DEF TransferTypes
    <3> QED BY <3>1
  <2> QED BY Zenon, <1>0, <1>1, <2>1 DEF TransferTypes
<1>8. createdAt' \in [Replica -> [CollectionName -> Nat]]
  BY Zenon, <1>0, <1>1, <1>2 DEF TransferTypes
<1>9. TransferTypes'
  <2>1. \A q \in Replica : worker'[q] = "applying" => last_applied_log'[q] > 0
    BY Zenon, <1>0, <1>3, <1>7 DEF TransferTypes
  <2> QED BY ZenonT(60), <1>0, <1>1, <1>3, <1>4, <1>5, <1>6, <1>7, <1>8, <2>1
         DEF TransferTypes
<1>10. IndexesInLog'
  BY ZenonT(60), <1>1, <1>3, <1>5 DEF TInv, IndexesInLog
<1>11. StoreExact(r)'
  <2>1. Shown(r)' = 0
    BY Zenon, <1>3, <1>7 DEF Shown, Done
  <2> QED BY Zenon, <1>3, <1>4, <2>1, ShowsNothing DEF StoreExact
<1>12. SnapshotExact(r)' /\ BuilderExact(r)'
  BY Zenon, <1>4, <1>5 DEF SnapshotExact, BuilderExact
<1>13. \A q \in Replica : q # r =>
          StoreExact(q)' /\ SnapshotExact(q)' /\ BuilderExact(q)'
  BY ZenonT(60), <1>1, <1>3, <1>4, <1>5, <1>6, <1>7, ReplicaKept
<1> QED BY Zenon, <1>9, <1>10, <1>11, <1>12, <1>13 DEF TInv

\* restore() takes over what the builder's store showed. The rejections of the
\* builder that came after the snapshot are not the installer's.
LEMMA BeginInstallTransfer ==
    ASSUME TInv, NEW r \in Replica, NEW s \in Replica, BeginInstall(r, s)
    PROVE  TInv'
<1>0. TransferTypes
  BY Zenon DEF TInv
<1> DEFINE n == snapshot[s].last_log_id
           rej == {i \in built[s].rejected : i <= n}
<1>1. /\ UNCHANGED <<log, last_applied_log, builder, snapshot, built>>
      /\ snapshot[s] # NoSnapshot
      /\ store' = [store EXCEPT ![r] = snapshot[s].data]
      /\ worker' = [worker EXCEPT ![r] = "installing"]
      /\ installing' = [installing EXCEPT ![r] = snapshot[s]]
      /\ rejected' = [rejected EXCEPT ![r] = rej]
      /\ createdAt' = [createdAt EXCEPT ![r] = built[s].createdAt]
      /\ quiet' = [quiet EXCEPT ![r] = FALSE]
      /\ clean' = [clean EXCEPT ![r] = built[s].exact]
  BY Zenon DEF BeginInstall, restore
<1>2. snapshot[s] \in Snapshot /\ n <= Len(log)
  BY ZenonT(60), <1>0, <1>1 DEF TransferTypes, TInv, IndexesInLog
<1>3. snapshot[s].data \in Store /\ n \in Nat
  BY <1>2 DEF Snapshot
<1>4. built[s] \in [exact : BOOLEAN, rejected : SUBSET Nat,
                    createdAt : [CollectionName -> Nat]]
  BY ZenonT(60), <1>0 DEF TransferTypes
<1>5. /\ built[s].exact \in BOOLEAN /\ rej \in SUBSET Nat
      /\ built[s].createdAt \in [CollectionName -> Nat]
  BY <1>4
<1>6. ASSUME built[s].exact PROVE Shows(snapshot[s].data, log, rej, n)
  <2>1. Shows(snapshot[s].data, log, built[s].rejected, n)
    BY Zenon, <1>1, <1>6 DEF TInv, SnapshotExact
  <2>2. built[s].rejected \subseteq 1..n
    BY Zenon, <2>1 DEF Shows
  <2>3. rej = built[s].rejected
    BY <1>3, <2>2
  <2> QED BY Zenon, <2>1, <2>3
<1> HIDE DEF rej
<1>7. /\ store' \in [Replica -> Store] /\ store'[r] = snapshot[s].data
      /\ worker' \in [Replica -> {"idle", "applying", "installing"}]
      /\ worker'[r] = "installing"
      /\ \A q \in Replica : q # r => store'[q] = store[q] /\ worker'[q] = worker[q]
  BY Zenon, <1>0, <1>1, <1>3 DEF TransferTypes
<1>8. /\ rejected' \in [Replica -> SUBSET Nat] /\ rejected'[r] = rej
      /\ installing' \in [Replica -> Snapshot \cup {NoSnapshot}]
      /\ installing'[r] = snapshot[s]
      /\ \A q \in Replica : q # r => /\ rejected'[q] = rejected[q]
                                     /\ installing'[q] = installing[q]
  BY Zenon, <1>0, <1>1, <1>2, <1>5 DEF TransferTypes
<1>9. /\ quiet' \in [Replica -> BOOLEAN] /\ ~quiet'[r]
      /\ clean' \in [Replica -> BOOLEAN] /\ clean'[r] = built[s].exact
      /\ \A q \in Replica : q # r => quiet'[q] = quiet[q] /\ clean'[q] = clean[q]
  BY Zenon, <1>0, <1>1, <1>5 DEF TransferTypes
<1>10. createdAt' \in [Replica -> [CollectionName -> Nat]]
  BY Zenon, <1>0, <1>1, <1>5 DEF TransferTypes
<1>11. TransferTypes'
  <2>1. \A q \in Replica : worker'[q] = "applying" => last_applied_log'[q] > 0
    <3>1. "installing" # "applying"
      OBVIOUS
    <3> QED BY Zenon, <1>0, <1>1, <1>7, <3>1 DEF TransferTypes
  <2> QED BY ZenonT(60), <1>0, <1>1, <1>7, <1>8, <1>9, <1>10, <2>1 DEF TransferTypes
<1>12. IndexesInLog'
  BY ZenonT(60), <1>1, <1>2, <1>7, <1>8 DEF TInv, IndexesInLog
<1>13. StoreExact(r)'
  <2>1. Shown(r)' = n
    BY Zenon, <1>7, <1>8 DEF Shown
  <2> QED BY Zenon, <1>1, <1>6, <1>7, <1>8, <1>9, <2>1 DEF StoreExact
<1>14. SnapshotExact(r)'
  BY Zenon, <1>1, SnapshotKept
<1>15. BuilderExact(r)'
  BY Zenon, <1>9 DEF BuilderExact
<1>16. \A q \in Replica : q # r =>
          StoreExact(q)' /\ SnapshotExact(q)' /\ BuilderExact(q)'
  BY ZenonT(60), <1>1, <1>7, <1>8, <1>9, ReplicaKept
<1> QED BY Zenon, <1>11, <1>12, <1>13, <1>14, <1>15, <1>16 DEF TInv

\* last_applied_log catches up with the restored store.
LEMMA FinishInstallTransfer ==
    ASSUME TInv, NEW r \in Replica, FinishInstall(r)
    PROVE  TInv'
<1>0. TransferTypes
  BY Zenon DEF TInv
<1> DEFINE n == installing[r].last_log_id
<1>1. /\ UNCHANGED <<log, store, rejected, builder, snapshot, createdAt, built,
                     clean>>
      /\ worker[r] = "installing"
      /\ last_applied_log' = [last_applied_log EXCEPT ![r] = n]
      /\ worker' = [worker EXCEPT ![r] = "idle"]
      /\ installing' = [installing EXCEPT ![r] = NoSnapshot]
      /\ quiet' = [quiet EXCEPT ![r] = FALSE]
  BY Zenon DEF FinishInstall
<1>2. installing[r] \in Snapshot /\ n <= Len(log)
  BY Zenon, <1>0, <1>1 DEF TransferTypes, TInv, IndexesInLog
<1>3. n \in 0..Len(log)
  <2>1. log \in Seq(Entry)
    BY Zenon, <1>0 DEF TransferTypes
  <2> QED BY <1>2, <2>1 DEF Snapshot
<1>4. /\ last_applied_log' \in [Replica -> 0..Len(log)] /\ last_applied_log'[r] = n
      /\ worker' \in [Replica -> {"idle", "applying", "installing"}]
      /\ worker'[r] = "idle"
      /\ \A q \in Replica : q # r => /\ last_applied_log'[q] = last_applied_log[q]
                                     /\ worker'[q] = worker[q]
  BY Zenon, <1>0, <1>1, <1>3 DEF TransferTypes
<1>5. /\ installing' \in [Replica -> Snapshot \cup {NoSnapshot}]
      /\ quiet' \in [Replica -> BOOLEAN] /\ ~quiet'[r]
      /\ \A q \in Replica : q # r => /\ installing'[q] = installing[q]
                                     /\ quiet'[q] = quiet[q]
  BY Zenon, <1>0, <1>1 DEF TransferTypes
<1>6. TransferTypes'
  <2>1. \A q \in Replica : worker'[q] = "applying" => last_applied_log'[q] > 0
    <3>1. "idle" # "applying"
      OBVIOUS
    <3> QED BY Zenon, <1>0, <1>4, <3>1 DEF TransferTypes
  <2> QED BY Zenon, <1>0, <1>1, <1>4, <1>5, <2>1 DEF TransferTypes
<1>7. IndexesInLog'
  <2>1. "idle" # "installing"
    OBVIOUS
  <2> QED BY ZenonT(60), <1>1, <1>4, <1>5, <2>1 DEF TInv, IndexesInLog
<1>8. StoreExact(r)' /\ SnapshotExact(r)'
  <2>1. Shown(r)' = Shown(r)
    BY <1>1, <1>4 DEF Shown, Done
  <2> QED BY Zenon, <1>1, <2>1, StoreKept, SnapshotKept
<1>9. BuilderExact(r)'
  BY Zenon, <1>5 DEF BuilderExact
<1>10. \A q \in Replica : q # r =>
          StoreExact(q)' /\ SnapshotExact(q)' /\ BuilderExact(q)'
  BY Zenon, <1>1, <1>4, <1>5, ReplicaKept
<1> QED BY Zenon, <1>6, <1>7, <1>8, <1>9, <1>10 DEF TInv

-----------------------------------------------------------------------------
\* Initially every store is empty, and nothing is being built or installed.
LEMMA TransferInitially == TransferInit => TInv
<1> SUFFICES ASSUME TransferInit PROVE TInv
  OBVIOUS
<1>1. /\ log = <<>>
      /\ store = [r \in Replica |-> EmptyStore]
      /\ last_applied_log = [r \in Replica |-> 0]
      /\ worker = [r \in Replica |-> "idle"]
      /\ rejected = [r \in Replica |-> {}]
      /\ builder = [r \in Replica |-> NoTask]
      /\ snapshot = [r \in Replica |-> NoSnapshot]
      /\ createdAt = [r \in Replica |-> [c \in CollectionName |-> 0]]
      /\ installing = [r \in Replica |-> NoSnapshot]
      /\ quiet = [r \in Replica |-> TRUE]
      /\ clean = [r \in Replica |-> TRUE]
      /\ built = [r \in Replica |-> History(r, TRUE)]
  BY Zenon DEF TransferInit, Init
<1>2. EmptyStore \in Store
  BY SMTT(30) DEF EmptyStore, Store
<1>3. \A r \in Replica : History(r, TRUE) \in
          [exact : BOOLEAN, rejected : SUBSET Nat, createdAt : [CollectionName -> Nat]]
  BY <1>1 DEF History
<1>4. TransferTypes
  <2>1. /\ log \in Seq(Entry) /\ 0 \in 0..Len(log) /\ 0 \in Nat
        /\ "idle" # "applying"
    BY <1>1
  <2>2. /\ store \in [Replica -> Store]
        /\ last_applied_log \in [Replica -> 0..Len(log)]
        /\ createdAt \in [Replica -> [CollectionName -> Nat]]
        /\ built \in [Replica -> [exact : BOOLEAN, rejected : SUBSET Nat,
                                  createdAt : [CollectionName -> Nat]]]
    BY Zenon, <1>1, <1>2, <1>3, <2>1
  <2>3. /\ worker \in [Replica -> {"idle", "applying", "installing"}]
        /\ \A r \in Replica : worker[r] # "applying"
        /\ rejected \in [Replica -> SUBSET Nat]
        /\ builder \in [Replica -> Builder \cup {NoTask}]
        /\ snapshot \in [Replica -> Snapshot \cup {NoSnapshot}]
    BY Zenon, <1>1, <2>1
  <2>4. /\ installing \in [Replica -> Snapshot \cup {NoSnapshot}]
        /\ quiet \in [Replica -> BOOLEAN] /\ clean \in [Replica -> BOOLEAN]
    BY Zenon, <1>1
  <2> QED BY ZenonT(60), <2>1, <2>2, <2>3, <2>4 DEF TransferTypes
<1>5. IndexesInLog
  BY <1>1 DEF IndexesInLog
<1>6. ASSUME NEW r \in Replica
      PROVE  StoreExact(r) /\ SnapshotExact(r) /\ BuilderExact(r)
  <2>1. Shown(r) = 0
    BY <1>1 DEF Shown, Done
  <2> QED BY ZenonT(60), <1>1, <2>1, ShowsNothing
         DEF StoreExact, SnapshotExact, BuilderExact
<1> QED BY Zenon, <1>4, <1>5, <1>6 DEF TInv

\* A step that changes no variable.
LEMMA StutterTransfer ==
    ASSUME TInv, UNCHANGED transferVars
    PROVE  TInv'
<1>1. UNCHANGED <<log, store, last_applied_log, worker, rejected, snapshot,
                  builder, createdAt, installing, quiet, built, clean>>
  BY Zenon DEF transferVars, vars
<1>2. TransferTypes' /\ IndexesInLog'
  BY Zenon, <1>1 DEF TInv, TransferTypes, IndexesInLog
<1>3. \A r \in Replica : StoreExact(r)' /\ SnapshotExact(r)' /\ BuilderExact(r)'
  BY Zenon, <1>1, ReplicaKept
<1> QED BY Zenon, <1>2, <1>3 DEF TInv

\* Replicas that installed exact snapshots only show exactly the entries their
\* last_applied_log names, whoever built the snapshots and whatever was
\* applied, created or built meanwhile.
THEOREM TransferInvariance == TransferSpec => []TInv
<1>1. TInv /\ [TransferNext]_transferVars => TInv'
  <2> SUFFICES ASSUME TInv, TransferNext PROVE TInv'
    BY Zenon, StutterTransfer
  <2>1. CASE OtherStep
    BY Zenon, <2>1, CommitTransfer, CopyCollectionTransfer, CreateCollectionTransfer
       DEF OtherStep
  <2>2. ASSUME NEW r \in Replica, ApplyStep(r) PROVE TInv'
    BY Zenon, <2>2, BeginApplyTransfer, FinishApplyTransfer DEF ApplyStep
  <2>3. ASSUME NEW r \in Replica,
               \/ BeginSnapshotStep(r)
               \/ FinishSnapshotStep(r)
               \/ RestartStep(r)
               \/ \E s \in Replica \ {r} : BeginInstall(r, s)
               \/ FinishInstall(r)
        PROVE  TInv'
    BY Zenon, <2>3, BeginSnapshotTransfer, FinishSnapshotTransfer,
       RestartTransfer, BeginInstallTransfer, FinishInstallTransfer
  <2> QED BY Zenon, <2>1, <2>2, <2>3 DEF TransferNext
<1> QED BY TransferInitially, <1>1, PTL DEF TransferSpec

\* A snapshot built while the state machine rested brings every replica it
\* reaches to exactly the state of its last_log_id.
THEOREM QuietSnapshotsAreExactAlways == TransferSpec => []QuietSnapshotsAreExact
<1>1. TInv => QuietSnapshotsAreExact
  <2> SUFFICES ASSUME TInv, NEW r \in Replica, clean[r], worker[r] = "idle"
               PROVE  \A c \in CollectionName : Exists(store[r], c) =>
                          Reflects(store[r][c], log, rejected[r], c, Done(r))
    BY Zenon DEF QuietSnapshotsAreExact, CaughtUp
  <2>1. Shown(r) = Done(r)
    BY DEF Shown
  <2> QED BY Zenon, <2>1 DEF TInv, StoreExact, Shows
<1> QED BY TransferInvariance, <1>1, PTL

\* It makes no difference whether a replica replayed the log or took over a
\* snapshot built while the state machine rested: two replicas that have
\* rejected the same commands for a collection, and whose last_applied_log is
\* the same, hold the same vectors in it.
THEOREM InstalledAgreesWithReplayed ==
    TransferSpec =>
        [](\A r, s \in Replica, c \in CollectionName :
              /\ clean[r] /\ clean[s] /\ worker[r] = "idle" /\ worker[s] = "idle"
              /\ Exists(store[r], c) /\ Exists(store[s], c)
              /\ last_applied_log[r] = last_applied_log[s]
              /\ \A i \in 1..last_applied_log[r] :
                    IsCommand(log[i]) /\ log[i].collection = c =>
                        (i \in rejected[r] <=> i \in rejected[s])
              => store[r][c].vectors = store[s][c].vectors)
<1>1. ASSUME TInv, NEW r \in Replica, NEW s \in Replica, NEW c \in CollectionName,
             clean[r], clean[s], worker[r] = "idle", worker[s] = "idle",
             Exists(store[r], c), Exists(store[s], c),
             last_applied_log[r] = last_applied_log[s],
             \A i \in 1..last_applied_log[r] :
                IsCommand(log[i]) /\ log[i].collection = c =>
                    (i \in rejected[r] <=> i \in rejected[s])
      PROVE  store[r][c].vectors = store[s][c].vectors
  <2>1. store[r][c] \in Collection /\ store[s][c] \in Collection
    BY SMTT(30), <1>1 DEF TInv, TransferTypes, Store, Exists
  <2>2. Shown(r) = last_applied_log[r] /\ Shown(s) = last_applied_log[r]
    BY <1>1 DEF Shown, Done
  <2>3. /\ Reflects(store[r][c], log, rejected[r], c, last_applied_log[r])
        /\ Reflects(store[s][c], log, rejected[s], c, last_applied_log[r])
    BY ZenonT(60), <1>1, <2>2 DEF TInv, StoreExact, Shows
  <2>4. last_applied_log[r] \in Nat
    BY <1>1, IndexType
  <2> QED BY SMTT(30), <1>1, <2>1, <2>3, <2>4, ReflectsDetermines
<1>2. TInv =>
        \A r, s \in Replica, c \in CollectionName :
              /\ clean[r] /\ clean[s] /\ worker[r] = "idle" /\ worker[s] = "idle"
              /\ Exists(store[r], c) /\ Exists(store[s], c)
              /\ last_applied_log[r] = last_applied_log[s]
              /\ \A i \in 1..last_applied_log[r] :
                    IsCommand(log[i]) /\ log[i].collection = c =>
                        (i \in rejected[r] <=> i \in rejected[s])
              => store[r][c].vectors = store[s][c].vectors
  BY ZenonT(60), <1>1
<1> QED BY TransferInvariance, <1>2, PTL
=============================================================================
