------------------------- MODULE RouterWritesProofs -------------------------
(***************************************************************************)
(* Proofs about RouterWrites for any number of shards, replicas, clients,  *)
(* ids and requests: what create_collection, insert and delete answer is   *)
(* true.                                                                   *)
(***************************************************************************)
EXTENDS RouterWrites, FiniteSetTheorems, TLAPS

RTypes ==
    /\ dim \in [Node -> Dim \cup {NoCollection}]
    /\ vectors \in [Node -> SUBSET Id]
    /\ req \in [Client -> Request \cup {NoRequest}]
    /\ calls \in [Client -> SUBSET (Node \cup Shard)]
    /\ failed \in [Client -> BOOLEAN]
    /\ count \in [Client -> Nat]
    /\ ready \in [Client -> BOOLEAN]
    /\ sole \in [Client -> SUBSET Id]

LateOK ==
    \A l \in late : l.shard \in Shard /\ l.req \in Request /\ l.req.op # "create"

IsWrite(q) == q \in Request /\ q.op # "create"

CallsOK(c) ==
    /\ req[c] = NoRequest => calls[c] = {}
    /\ req[c] # NoRequest => calls[c] \subseteq Targets(req[c])
    /\ sole[c] \subseteq IdsOf(req[c])

LEMMA RequestFacts ==
    ASSUME NEW q \in Request
    PROVE  /\ q # NoRequest
           /\ q.op \in {"create", "insert", "delete"}
           /\ q.op = "create" => q.dim \in Dim /\ IdsOf(q) = {} /\ Targets(q) = Node
           /\ q.op # "create" =>
                  /\ q.ids \in SUBSET Id /\ IdsOf(q) = q.ids
                  /\ Targets(q) = {s \in Shard : \E id \in q.ids : shard_id[id] = s}
           /\ q.op = "insert" => q.dim \in Dim
           /\ IdsOf(q) \subseteq Id /\ Targets(q) \subseteq Node \cup Shard
  <1>1. q # NoRequest
    BY NoneAssumption
  <1>2. /\ q.op \in {"create", "insert", "delete"}
        /\ q.op = "create" => q.dim \in Dim
        /\ q.op # "create" => q.ids \in SUBSET Id
        /\ q.op = "insert" => q.dim \in Dim
    BY DEF Request
  <1> QED BY <1>1, <1>2 DEF IdsOf, Targets, group_by_shard

LEMMA WriteFacts ==
    ASSUME NEW q \in Request, q.op # "create"
    PROVE  /\ q.op = "insert" \/ q.op = "delete"
           /\ q.ids \in SUBSET Id /\ IdsOf(q) = q.ids
  BY RequestFacts

\* A write calls the shards its ids hash to.
LEMMA WriteTargets ==
    ASSUME NEW q \in Request, q.op # "create", NEW n \in Node, n[1] \notin Targets(q)
    PROVE  \A id \in q.ids : shard_id[id] # n[1]
  BY RequestFacts DEF Node

LEMMA InitR == Init => RTypes /\ LateOK /\ \A c \in Client : CallsOK(c)
  BY NoneAssumption DEF Init, RTypes, LateOK, CallsOK, IdsOf

-----------------------------------------------------------------------------
(* Applying a group *)

\* What a group changes: only its own ids, only in its shard, and those as the
\* request says where the collection is as the request needs it.
LEMMA ApplyFacts ==
    ASSUME RTypes, NEW q \in Request, q.op # "create", NEW s \in Shard, Apply(s, q)
    PROVE  /\ vectors' \in [Node -> SUBSET Id]
           /\ \A n \in Node :
                /\ n[1] # s => vectors'[n] = vectors[n]
                /\ vectors'[n] \ group_by_shard(q.ids, s)
                       = vectors[n] \ group_by_shard(q.ids, s)
                /\ n[1] = s /\ dim[n] # NoCollection /\ q.op = "delete" =>
                       vectors'[n] = vectors[n] \ group_by_shard(q.ids, s)
                /\ n[1] = s /\ dim[n] # NoCollection /\ q.op = "insert"
                       /\ dim[n] = q.dim =>
                       vectors'[n] = vectors[n] \cup group_by_shard(q.ids, s)
                /\ q.op = "delete" => vectors'[n] \subseteq vectors[n]
                /\ q.op = "insert" => vectors[n] \subseteq vectors'[n]
  <1>1. q.op \in {"insert", "delete"} /\ q.ids \in SUBSET Id
    BY RequestFacts
  <1>2. group_by_shard(q.ids, s) \subseteq q.ids
    BY DEF group_by_shard
  <1>3. \A n \in Node : vectors'[n] = Applied(n, s, q)
    BY DEF Apply
  <1>4. vectors' = [n \in Node |-> Applied(n, s, q)]
    BY DEF Apply
  <1>5. ASSUME NEW n \in Node
        PROVE  /\ Applied(n, s, q) \in SUBSET Id
               /\ n[1] # s => Applied(n, s, q) = vectors[n]
               /\ Applied(n, s, q) \ group_by_shard(q.ids, s)
                      = vectors[n] \ group_by_shard(q.ids, s)
               /\ n[1] = s /\ dim[n] # NoCollection /\ q.op = "delete" =>
                      Applied(n, s, q) = vectors[n] \ group_by_shard(q.ids, s)
               /\ n[1] = s /\ dim[n] # NoCollection /\ q.op = "insert"
                      /\ dim[n] = q.dim =>
                      Applied(n, s, q) = vectors[n] \cup group_by_shard(q.ids, s)
               /\ q.op = "delete" => Applied(n, s, q) \subseteq vectors[n]
               /\ q.op = "insert" => vectors[n] \subseteq Applied(n, s, q)
    <2>1. vectors[n] \in SUBSET Id
      BY DEF RTypes
    <2> QED BY <1>1, <1>2, <2>1 DEF Applied
  <1>6. vectors' \in [Node -> SUBSET Id]
    BY <1>4, <1>5
  <1> QED BY <1>3, <1>5, <1>6

\* The same, one case at a time.
LEMMA ApplyElsewhere ==
    ASSUME RTypes, NEW q \in Request, q.op # "create", NEW s \in Shard, Apply(s, q),
           NEW n \in Node
    PROVE  /\ n[1] # s => vectors'[n] = vectors[n]
           /\ vectors'[n] \ group_by_shard(q.ids, s)
                  = vectors[n] \ group_by_shard(q.ids, s)
  BY ApplyFacts

LEMMA ApplyInsert ==
    ASSUME RTypes, NEW q \in Request, q.op = "insert", NEW s \in Shard, Apply(s, q),
           NEW n \in Node
    PROVE  /\ vectors[n] \subseteq vectors'[n]
           /\ n[1] = s /\ dim[n] # NoCollection /\ dim[n] = q.dim =>
                  vectors'[n] = vectors[n] \cup group_by_shard(q.ids, s)
  BY ApplyFacts

LEMMA ApplyDelete ==
    ASSUME RTypes, NEW q \in Request, q.op = "delete", NEW s \in Shard, Apply(s, q),
           NEW n \in Node
    PROVE  /\ vectors'[n] \subseteq vectors[n]
           /\ n[1] = s /\ dim[n] # NoCollection =>
                  vectors'[n] = vectors[n] \ group_by_shard(q.ids, s)
  BY ApplyFacts

\* What a group takes from the ids that are sole to a request.
LEMMA TouchFacts ==
    ASSUME RTypes, NEW q, NEW s, Touch(s, q)
    PROVE  /\ sole' \in [Client -> SUBSET Id]
           /\ \A d \in Client :
                /\ sole'[d] \subseteq sole[d]
                /\ q = req[d] => sole'[d] = sole[d]
                /\ q = req[d] \/ group_by_shard(q.ids, s) \cap sole'[d] = {}
  <1>1. \A d \in Client :
            sole'[d] = IF req[d] = q THEN sole[d]
                       ELSE sole[d] \ group_by_shard(q.ids, s)
    BY DEF Touch
  <1>2. \A d \in Client : sole[d] \in SUBSET Id
    BY DEF RTypes
  <1>3. sole' \in [Client -> SUBSET Id]
    BY <1>2 DEF Touch
  <1> QED BY <1>1, <1>3

-----------------------------------------------------------------------------
(* What the steps have in common *)

DimGrows ==
    /\ dim' \in [Node -> Dim \cup {NoCollection}]
    /\ \A n \in Node : dim[n] # NoCollection => dim'[n] = dim[n]

\* The end of a call of client c, whatever it was.
Ends(c, t) ==
    /\ t \in calls[c]
    /\ calls' = [calls EXCEPT ![c] = @ \ {t}]
    /\ UNCHANGED <<req, ready>>
    /\ sole' \in [Client -> SUBSET Id] /\ \A d \in Client : sole'[d] \subseteq sole[d]
    /\ \A d \in Client \ {c} : failed'[d] = failed[d] /\ count'[d] = count[d]
    /\ ~failed'[c] => ~failed[c]
    /\ DimGrows

RInv0 == RTypes /\ LateOK /\ \A c \in Client : CallsOK(c)

LEMMA FailFacts ==
    ASSUME RTypes, NEW c \in Client, Fail(c)
    PROVE  /\ failed' \in [Client -> BOOLEAN] /\ failed'[c]
           /\ \A d \in Client \ {c} : failed'[d] = failed[d]
  BY DEF RTypes, Fail

LEMMA CreateAtFacts ==
    ASSUME RTypes, NEW n \in Node, NEW d \in Dim, CreateAt(n, d)
    PROVE  DimGrows /\ dim'[n] = IF dim[n] = NoCollection THEN d ELSE dim[n]
  BY DEF RTypes, CreateAt, DimGrows

\* Which request a call belongs to.
LEMMA CallFacts ==
    ASSUME RInv0, NEW c \in Client, NEW t \in calls[c]
    PROVE  /\ req[c] \in Request /\ t \in Targets(req[c])
           /\ req[c].op = "create" => t \in Node /\ req[c].dim \in Dim
           /\ req[c].op # "create" => t \in Shard /\ req[c].ids \in SUBSET Id
  <1>1. req[c] \in Request /\ t \in Targets(req[c])
    BY DEF RInv0, RTypes, CallsOK
  <1> QED BY <1>1, RequestFacts

LEMMA CreateEnds ==
    ASSUME RInv0, NEW c \in Client, NEW t \in calls[c],
           Create(c, t) \/ CreateLost(c, t)
    PROVE  /\ Ends(c, t) /\ failed' \in [Client -> BOOLEAN] /\ req[c].op = "create"
           /\ UNCHANGED <<vectors, count, late, sole>>
           /\ ~failed'[c] => dim[t] = NoCollection /\ dim'[t] = req[c].dim
  <1>0. RTypes /\ req[c].op = "create" /\ t \in Node /\ req[c].dim \in Dim
    BY CallFacts DEF RInv0, Create, CreateLost
  <1>1. /\ calls' = [calls EXCEPT ![c] = @ \ {t}]
        /\ UNCHANGED <<req, ready, sole, vectors, count, late>>
    BY DEF Create, CreateLost, Close, historyVars
  <1>s. sole' \in [Client -> SUBSET Id] /\ \A d \in Client : sole'[d] \subseteq sole[d]
    BY <1>0, <1>1 DEF RTypes
  <1>2. CASE Create(c, t)
    <2>1. DimGrows /\ dim'[t] = IF dim[t] = NoCollection THEN req[c].dim ELSE dim[t]
      BY <1>0, <1>2, CreateAtFacts DEF Create
    <2>2. CASE dim[t] = NoCollection
      <3>1. failed' = failed
        BY <1>2, <2>2 DEF Create, CheckAbsent
      <3> QED BY <1>0, <1>1, <1>s, <2>1, <2>2, <3>1 DEF Ends, RTypes
    <2>3. CASE dim[t] # NoCollection
      <3>1. Fail(c)
        BY <1>2, <2>3 DEF Create, CheckAbsent
      <3> QED BY <1>0, <1>1, <1>s, <2>1, <3>1, FailFacts DEF Ends
    <2> QED BY <2>2, <2>3
  <1>3. CASE CreateLost(c, t)
    <2>1. failed' \in [Client -> BOOLEAN] /\ failed'[c]
             /\ \A d \in Client \ {c} : failed'[d] = failed[d]
      BY <1>0, <1>3, FailFacts DEF CreateLost
    <2>2. DimGrows
      <3>1. CASE UNCHANGED dim
        BY <1>0, <3>1 DEF DimGrows, RTypes
      <3>2. CASE CreateAt(t, req[c].dim)
        BY <1>0, <3>2, CreateAtFacts
      <3> QED BY <1>3, <3>1, <3>2 DEF CreateLost
    <2> QED BY <1>0, <1>1, <1>s, <2>1, <2>2 DEF Ends
  <1> QED BY <1>2, <1>3

LEMMA MayComeLateFacts ==
    ASSUME RInv0, NEW c \in Client, NEW s \in Shard, req[c] \in Request,
           req[c].op # "create", MayComeLate(c, s)
    PROVE  LateOK'
  <1>1. ASSUME NEW l \in late' PROVE l \in late \/ l = [shard |-> s, req |-> req[c]]
    BY DEF MayComeLate
  <1>2. ASSUME NEW l \in late'
        PROVE  l.shard \in Shard /\ l.req \in Request /\ l.req.op # "create"
    BY <1>1 DEF RInv0, LateOK
  <1> QED BY <1>2 DEF LateOK

LEMMA ServeEnds ==
    ASSUME RInv0, NEW c \in Client, NEW t \in calls[c],
           Served(c, t) \/ Unserved(c, t)
    PROVE  /\ Ends(c, t) /\ failed' \in [Client -> BOOLEAN]
           /\ req[c].op # "create" /\ t \in Shard /\ UNCHANGED dim
           /\ LateOK' /\ count' \in [Client -> Nat]
           /\ UNCHANGED <<vectors, sole>> \/ (Apply(t, req[c]) /\ Touch(t, req[c]))
           /\ ~failed'[c] =>
                /\ Apply(t, req[c]) /\ Touch(t, req[c])
                /\ count'[c] = count[c] + Cardinality(group_by_shard(req[c].ids, t))
  <1>0. RTypes /\ req[c] \in Request /\ req[c].op # "create" /\ t \in Shard
          /\ req[c].ids \in SUBSET Id
    BY CallFacts DEF RInv0, Served, Unserved
  <1>1. calls' = [calls EXCEPT ![c] = @ \ {t}] /\ UNCHANGED <<req, ready, dim>>
    BY DEF Served, Unserved, Close, historyVars, storeVars
  <1>2. LateOK'
    BY <1>0, MayComeLateFacts DEF Served, Unserved
  <1>3. DimGrows
    BY <1>0, <1>1 DEF DimGrows, RTypes
  <1>4. CASE Served(c, t)
    <2>1. Cardinality(group_by_shard(req[c].ids, t)) \in Nat
      <3>1. IsFiniteSet(group_by_shard(req[c].ids, t))
        BY <1>0, IdAssumption, FS_Subset DEF group_by_shard
      <3> QED BY <3>1, FS_CardinalityType
    <2>2. count' = [count EXCEPT ![c] = @ + Cardinality(group_by_shard(req[c].ids, t))]
            /\ failed' = failed /\ Apply(t, req[c]) /\ Touch(t, req[c])
      BY <1>4 DEF Served
    <2>3. /\ count' \in [Client -> Nat]
          /\ count'[c] = count[c] + Cardinality(group_by_shard(req[c].ids, t))
          /\ \A d \in Client \ {c} : count'[d] = count[d]
      BY <1>0, <2>1, <2>2 DEF RTypes
    <2>4. failed' \in [Client -> BOOLEAN] /\ \A d \in Client : failed'[d] = failed[d]
      BY <1>0, <2>2 DEF RTypes
    <2>5. Ends(c, t)
      BY <1>0, <1>1, <1>3, <2>2, <2>3, <2>4, TouchFacts DEF Ends
    <2> QED BY <1>0, <1>1, <1>2, <2>2, <2>3, <2>4, <2>5
  <1>5. CASE Unserved(c, t)
    <2>1. failed' \in [Client -> BOOLEAN] /\ failed'[c]
             /\ \A d \in Client \ {c} : failed'[d] = failed[d]
      BY <1>0, <1>5, FailFacts DEF Unserved
    <2>2. UNCHANGED <<vectors, count, sole>>
      BY <1>5 DEF Unserved, storeVars, historyVars
    <2>3. Ends(c, t) /\ count' \in [Client -> Nat]
      BY <1>0, <1>1, <1>3, <2>1, <2>2 DEF Ends, RTypes
    <2> QED BY SMTT(30), <1>0, <1>1, <1>2, <2>1, <2>2, <2>3
  <1> QED BY SMTT(30), <1>4, <1>5

\* The effect of Ends on the calls.
LEMMA EndsCalls ==
    ASSUME RInv0, NEW c \in Client, NEW t \in calls[c], Ends(c, t)
    PROVE  /\ calls' \in [Client -> SUBSET (Node \cup Shard)]
           /\ calls'[c] = calls[c] \ {t}
           /\ \A d \in Client \ {c} : calls'[d] = calls[d]
           /\ \A d \in Client : calls'[d] \subseteq calls[d] /\ CallsOK(d)'
  <1>1. calls \in [Client -> SUBSET (Node \cup Shard)]
           /\ calls' = [calls EXCEPT ![c] = @ \ {t}]
    BY DEF RInv0, RTypes, Ends
  <1>2. /\ calls' \in [Client -> SUBSET (Node \cup Shard)]
        /\ calls'[c] = calls[c] \ {t}
        /\ \A d \in Client \ {c} : calls'[d] = calls[d]
    BY <1>1
  <1>3. \A d \in Client : calls'[d] \subseteq calls[d]
    BY <1>2
  <1>4. ASSUME NEW d \in Client PROVE CallsOK(d)'
    <2>1. CallsOK(d) /\ req'[d] = req[d] /\ sole'[d] \subseteq sole[d]
      BY DEF RInv0, Ends
    <2> QED BY <1>3, <2>1 DEF CallsOK
  <1> QED BY <1>2, <1>3, <1>4

LEMMA EndsR ==
    ASSUME RInv0, NEW c \in Client, NEW t \in calls[c], Ends(c, t),
           failed' \in [Client -> BOOLEAN], count' \in [Client -> Nat],
           vectors' \in [Node -> SUBSET Id], LateOK'
    PROVE  RInv0'
  <1>1. RTypes'
    BY ZenonT(60), EndsCalls DEF RInv0, RTypes, Ends, DimGrows
  <1> QED BY <1>1, EndsCalls DEF RInv0

LEMMA AskFacts ==
    ASSUME RInv0, NEW c \in Client, NEW q \in Request, Ask(c, q)
    PROVE  /\ RInv0' /\ UNCHANGED <<dim, vectors, late>> /\ calls[c] = {}
           /\ req'[c] = q /\ calls'[c] = Targets(q) /\ ~failed'[c] /\ count'[c] = 0
           /\ ready'[c] = Ready(q) /\ sole'[c] = IdsOf(q)
           /\ \A d \in Client \ {c} :
                  /\ req'[d] = req[d] /\ calls'[d] = calls[d] /\ failed'[d] = failed[d]
                  /\ count'[d] = count[d] /\ ready'[d] = ready[d]
                  /\ sole'[d] = sole[d]
  <1>0. RTypes /\ LateOK /\ \A d \in Client : CallsOK(d)
    BY DEF RInv0
  <1>1. /\ q # NoRequest /\ IdsOf(q) \subseteq Id /\ Targets(q) \subseteq Node \cup Shard
    BY RequestFacts
  <1>2. /\ req' = [req EXCEPT ![c] = q] /\ calls' = [calls EXCEPT ![c] = Targets(q)]
        /\ failed' = [failed EXCEPT ![c] = FALSE] /\ count' = [count EXCEPT ![c] = 0]
        /\ UNCHANGED <<dim, vectors, late>> /\ calls[c] = {}
    BY DEF Ask, storeVars
  <1>3. req' \in [Client -> Request \cup {NoRequest}] /\ req'[c] = q
           /\ \A d \in Client \ {c} : req'[d] = req[d]
    BY <1>0, <1>2 DEF RTypes
  <1>4. calls' \in [Client -> SUBSET (Node \cup Shard)] /\ calls'[c] = Targets(q)
           /\ \A d \in Client \ {c} : calls'[d] = calls[d]
    BY <1>0, <1>1, <1>2 DEF RTypes
  <1>5. /\ failed' \in [Client -> BOOLEAN] /\ count' \in [Client -> Nat]
        /\ ~failed'[c] /\ count'[c] = 0
        /\ \A d \in Client \ {c} : failed'[d] = failed[d] /\ count'[d] = count[d]
    BY <1>0, <1>2 DEF RTypes
  <1>6. /\ ready' \in [Client -> BOOLEAN] /\ ready'[c] = Ready(q)
        /\ \A d \in Client \ {c} : ready'[d] = ready[d]
    <2>1. ready' = [ready EXCEPT ![c] = Ready(q)]
      BY DEF Ask
    <2>2. Ready(q) \in BOOLEAN
      BY DEF Ready
    <2> QED BY <1>0, <2>1, <2>2 DEF RTypes
  <1>7. sole' = [sole EXCEPT ![c] = IdsOf(q)]
    BY DEF Ask
  <1>8. sole' \in [Client -> SUBSET Id] /\ sole'[c] = IdsOf(q)
           /\ \A d \in Client \ {c} : sole'[d] = sole[d]
    BY SMTT(30), <1>0, <1>1, <1>7 DEF RTypes
  <1>9. RTypes' /\ LateOK'
    BY <1>0, <1>2, <1>3, <1>4, <1>5, <1>6, <1>8 DEF RTypes, LateOK
  <1>10. ASSUME NEW d \in Client PROVE CallsOK(d)'
    <2>1. CASE d = c
      BY SMTT(30), <1>1, <1>3, <1>4, <1>8, <2>1 DEF CallsOK
    <2>2. CASE d # c
      BY <1>0, <1>3, <1>4, <1>8, <2>2 DEF CallsOK
    <2> QED BY <2>1, <2>2
  <1> QED BY <1>2, <1>3, <1>4, <1>5, <1>6, <1>8, <1>9, <1>10 DEF RInv0

LEMMA LateFacts ==
    ASSUME RInv0, NEW l \in late, ServedLate(l)
    PROVE  /\ RInv0' /\ l.shard \in Shard /\ IsWrite(l.req)
           /\ Apply(l.shard, l.req) /\ Touch(l.shard, l.req)
           /\ UNCHANGED <<dim, req, calls, failed, count, ready>>
  <1>1. RTypes /\ LateOK /\ l.shard \in Shard /\ l.req \in Request /\ l.req.op # "create"
    BY DEF RInv0, LateOK
  <1>2. /\ Apply(l.shard, l.req) /\ Touch(l.shard, l.req) /\ late' \subseteq late
        /\ UNCHANGED <<dim, req, calls, failed, count, ready>>
    BY DEF ServedLate, requestVars
  <1>3. /\ vectors' \in [Node -> SUBSET Id] /\ sole' \in [Client -> SUBSET Id]
        /\ \A c \in Client : sole'[c] \subseteq sole[c]
    BY SMTT(30), <1>1, <1>2, ApplyFacts, TouchFacts
  <1>4. RTypes' /\ LateOK'
    BY SMTT(30), <1>1, <1>2, <1>3 DEF RTypes, LateOK
  <1>5. \A c \in Client : CallsOK(c)'
    BY <1>2, <1>3 DEF RInv0, CallsOK
  <1> QED BY <1>1, <1>2, <1>4, <1>5 DEF RInv0, IsWrite

LEMMA CreateR ==
    ASSUME RInv0, NEW c \in Client, NEW t \in calls[c],
           Create(c, t) \/ CreateLost(c, t)
    PROVE  RInv0'
  <1>1. /\ Ends(c, t) /\ failed' \in [Client -> BOOLEAN]
        /\ UNCHANGED <<vectors, count, late>>
    BY CreateEnds
  <1>2. vectors' \in [Node -> SUBSET Id] /\ count' \in [Client -> Nat] /\ LateOK'
    BY SMTT(30), <1>1 DEF RInv0, RTypes, LateOK
  <1> QED BY SMTT(30), <1>1, <1>2, EndsR

LEMMA ServeR ==
    ASSUME RInv0, NEW c \in Client, NEW t \in calls[c],
           Served(c, t) \/ Unserved(c, t)
    PROVE  RInv0'
  <1>1. /\ Ends(c, t) /\ failed' \in [Client -> BOOLEAN] /\ count' \in [Client -> Nat]
        /\ LateOK' /\ req[c].op # "create" /\ t \in Shard
        /\ UNCHANGED vectors \/ Apply(t, req[c])
    BY ServeEnds
  <1>2. RTypes /\ req[c] \in Request
    BY CallFacts DEF RInv0
  <1>3. vectors' \in [Node -> SUBSET Id]
    <2>1. CASE vectors' = vectors
      BY SMTT(30), <1>2, <2>1 DEF RTypes
    <2>2. CASE Apply(t, req[c])
      BY SMTT(30), <1>1, <1>2, <2>2, ApplyFacts
    <2> QED BY <1>1, <2>1, <2>2
  <1> QED BY SMTT(30), <1>1, <1>3, EndsR

LEMMA SameR == RInv0 /\ UNCHANGED vars => RInv0'
  BY DEF RInv0, RTypes, LateOK, CallsOK, vars, storeVars, requestVars, historyVars

LEMMA NextR == RInv0 /\ [Next]_vars => RInv0'
  <1> SUFFICES ASSUME RInv0, [Next]_vars PROVE RInv0'
    BY SMTT(30)
  <1>1. CASE \E c \in Client, q \in Request : Ask(c, q)
    BY <1>1, AskFacts
  <1>2. CASE \E c \in Client : \E t \in calls[c] : Create(c, t) \/ CreateLost(c, t)
    BY <1>2, CreateR
  <1>3. CASE \E c \in Client : \E t \in calls[c] : Served(c, t) \/ Unserved(c, t)
    BY <1>3, ServeR
  <1>4. CASE \E l \in late : ServedLate(l)
    BY <1>4, LateFacts
  <1>5. CASE UNCHANGED vars
    BY <1>5, SameR
  <1> QED BY <1>1, <1>2, <1>3, <1>4, <1>5 DEF Next

-----------------------------------------------------------------------------
(* Collections are created everywhere *)

\* As long as no call of a creation has failed, the nodes whose calls have ended
\* have the collection, with its dimension.
Creating(c) ==
    req[c] \in Request /\ req[c].op = "create" /\ ~failed[c] =>
        \A n \in Node \ calls[c] : dim[n] = req[c].dim

LEMMA CreatingSame ==
    ASSUME RInv0, NEW c \in Client, Creating(c), DimGrows,
           req'[c] = req[c], ~failed'[c] => ~failed[c], calls'[c] = calls[c]
    PROVE  Creating(c)'
  <1> SUFFICES ASSUME req[c] \in Request, req[c].op = "create", ~failed'[c],
                      NEW n \in Node, n \notin calls[c]
               PROVE  dim'[n] = req[c].dim
    BY DEF Creating
  <1>1. dim[n] = req[c].dim
    BY DEF Creating
  <1>2. req[c].dim # NoCollection
    BY RequestFacts, NoneAssumption
  <1> QED BY <1>1, <1>2 DEF DimGrows

LEMMA SameGrows ==
    ASSUME RInv0, UNCHANGED dim
    PROVE  DimGrows
  BY SMTT(30) DEF RInv0, RTypes, DimGrows

LEMMA NextCreating ==
    ASSUME RInv0, \A c \in Client : Creating(c), [Next]_vars
    PROVE  \A c \in Client : Creating(c)'
  <1> SUFFICES ASSUME NEW c \in Client PROVE Creating(c)'
    OBVIOUS
  <1>1. ASSUME NEW d \in Client, NEW q \in Request, Ask(d, q) PROVE Creating(c)'
    <2>1. CASE c = d
      <3>1. req'[c] = q /\ calls'[c] = Targets(q)
        BY <1>1, <2>1, AskFacts
      <3>2. q.op = "create" => Targets(q) = Node
        BY SMTT(30), RequestFacts
      <3> QED BY SMTT(30), <3>1, <3>2 DEF Creating
    <2>2. CASE c # d
      BY <1>1, <2>2, AskFacts, SameGrows, CreatingSame
    <2> QED BY <2>1, <2>2
  <1>2. ASSUME NEW d \in Client, NEW t \in calls[d], Create(d, t) \/ CreateLost(d, t)
        PROVE  Creating(c)'
    <2>1. Ends(d, t) /\ (~failed'[d] => dim'[t] = req[d].dim) /\ DimGrows
      BY SMTT(30), <1>2, CreateEnds DEF Ends
    <2>2. req'[c] = req[c] /\ (~failed'[c] => ~failed[c])
      BY SMTT(30), <2>1 DEF Ends
    <2>3. CASE c # d
      BY SMTT(30), <1>2, <2>1, <2>2, <2>3, EndsCalls, CreatingSame
    <2>4. CASE c = d
      <3> SUFFICES ASSUME req[c] \in Request, req[c].op = "create", ~failed'[c],
                          NEW n \in Node, n \notin calls'[c]
                   PROVE  dim'[n] = req[c].dim
        BY <2>2 DEF Creating
      <3>1. CASE n = t
        BY SMTT(30), <2>1, <2>4, <3>1
      <3>2. CASE n # t
        <4>1. n \notin calls[c]
          BY SMTT(30), <1>2, <2>1, <2>4, <3>2, EndsCalls
        <4>2. dim[n] = req[c].dim
          BY SMTT(30), <2>2, <4>1 DEF Creating
        <4>3. req[c].dim # NoCollection
          BY SMTT(30), RequestFacts, NoneAssumption
        <4> QED BY SMTT(30), <2>1, <4>2, <4>3 DEF DimGrows
      <3> QED BY SMTT(30), <3>1, <3>2
    <2> QED BY SMTT(30), <2>3, <2>4
  <1>3. ASSUME NEW d \in Client, NEW t \in calls[d], Served(d, t) \/ Unserved(d, t)
        PROVE  Creating(c)'
    <2>1. Ends(d, t) /\ req[d].op # "create" /\ DimGrows
      BY SMTT(30), <1>3, ServeEnds DEF Ends
    <2>2. req'[c] = req[c] /\ (~failed'[c] => ~failed[c])
      BY SMTT(30), <2>1 DEF Ends
    <2>3. CASE c # d
      BY SMTT(30), <1>3, <2>1, <2>2, <2>3, EndsCalls, CreatingSame
    <2>4. CASE c = d
      BY SMTT(30), <2>1, <2>2, <2>4 DEF Creating
    <2> QED BY <2>3, <2>4
  <1>4. ASSUME NEW l \in late, ServedLate(l) PROVE Creating(c)'
    BY <1>4, LateFacts DEF Creating
  <1>5. CASE UNCHANGED vars
    BY <1>5 DEF Creating, vars, storeVars, requestVars
  <1> QED BY <1>1, <1>2, <1>3, <1>4, <1>5 DEF Next

\* A creation that is answered Ok has made the collection, with its dimension, on
\* every replica of every shard, and no other request changes it.
THEOREM CreationsAreComplete == Spec => []CreatedEverywhere
  <1> DEFINE I == RInv0 /\ \A c \in Client : Creating(c)
  <1>1. Init => I
    BY InitR, NoneAssumption DEF Init, RInv0, Creating
  <1>2. I /\ [Next]_vars => I'
    BY NextR, NextCreating
  <1>3. I => CreatedEverywhere
    <2> SUFFICES ASSUME I, NEW c \in Client, Ok(c), req[c].op = "create", NEW n \in Node
                 PROVE  dim[n] = req[c].dim
      BY DEF CreatedEverywhere
    <2>1. req[c] \in Request /\ calls[c] = {} /\ ~failed[c]
      BY SMTT(30) DEF Ok, Returned, RInv0, RTypes
    <2> QED BY <2>1 DEF Creating
  <1> QED BY <1>1, <1>2, <1>3, PTL DEF Spec

-----------------------------------------------------------------------------
(* Collections are created afresh *)

\* A creation that has met no collection yet, although some node had one when it
\* began, is still to call such a node.
Doomed(c) ==
    req[c] \in Request /\ req[c].op = "create" /\ ~failed[c] /\ ~ready[c] =>
        \E n \in Node : n \in calls[c] /\ dim[n] # NoCollection

LEMMA DoomedSame ==
    ASSUME NEW c \in Client, Doomed(c), DimGrows, req'[c] = req[c],
           ready'[c] = ready[c], ~failed'[c] => ~failed[c],
           NEW t, calls[c] \ {t} \subseteq calls'[c],
           t \in calls'[c] \/ t \notin Node \/ failed'[c] \/ dim[t] = NoCollection
    PROVE  Doomed(c)'
  <1> SUFFICES ASSUME req[c] \in Request, req[c].op = "create", ~failed'[c], ~ready[c]
               PROVE  \E n \in Node : n \in calls'[c] /\ dim'[n] # NoCollection
    BY DEF Doomed
  <1>1. PICK n \in Node : n \in calls[c] /\ dim[n] # NoCollection
    BY DEF Doomed
  <1>2. n \in calls'[c] /\ dim'[n] # NoCollection
    BY <1>1 DEF DimGrows
  <1> QED BY <1>2

LEMMA NextDoomed ==
    ASSUME RInv0, \A c \in Client : Doomed(c), [Next]_vars
    PROVE  \A c \in Client : Doomed(c)'
  <1> SUFFICES ASSUME NEW c \in Client PROVE Doomed(c)'
    OBVIOUS
  <1>0. Doomed(c)
    OBVIOUS
  <1>s. ASSUME DimGrows, req'[c] = req[c], ready'[c] = ready[c],
               failed'[c] = failed[c], calls'[c] = calls[c]
        PROVE  Doomed(c)'
    <2>1. ASSUME req[c] \in Request, req[c].op = "create", ~failed[c], ~ready[c]
          PROVE  \E n \in Node : n \in calls[c] /\ dim'[n] # NoCollection
      BY <1>0, <1>s, <2>1 DEF Doomed, DimGrows
    <2> QED BY ZenonT(60), <1>s, <2>1 DEF Doomed
  <1>1. ASSUME NEW d \in Client, NEW q \in Request, Ask(d, q) PROVE Doomed(c)'
    <2>1. CASE c = d
      <3>1. req'[c] = q /\ calls'[c] = Targets(q) /\ ready'[c] = Ready(q) /\ dim' = dim
        BY <1>1, <2>1, AskFacts
      <3>2. q.op = "create" => Targets(q) = Node
        BY SMTT(30), RequestFacts
      <3>3. q.op = "create" /\ ~Ready(q) => \E n \in Node : dim[n] # NoCollection
        BY ZenonT(60) DEF Ready
      <3> QED BY <3>1, <3>2, <3>3 DEF Doomed
    <2>2. CASE c # d
      BY <1>1, <1>s, <2>2, AskFacts, SameGrows
    <2> QED BY <2>1, <2>2
  <1>2. ASSUME NEW d \in Client, NEW t \in calls[d], Create(d, t) \/ CreateLost(d, t)
        PROVE  Doomed(c)'
    <2>1. Ends(d, t) /\ (~failed'[d] => dim[t] = NoCollection)
      BY Zenon, <1>2, CreateEnds
    <2>2. /\ DimGrows /\ req'[c] = req[c] /\ ready'[c] = ready[c]
          /\ ~failed'[c] => ~failed[c]
          /\ c # d => failed'[c] = failed[c]
      BY Zenon, <2>1 DEF Ends
    <2>3. IF c = d THEN calls'[c] = calls[c] \ {t} ELSE calls'[c] = calls[c]
      BY ZenonT(60), <1>2, <2>1, EndsCalls
    <2>4. CASE c # d
      BY Zenon, <1>s, <2>2, <2>3, <2>4
    <2>5. CASE c = d
      BY Zenon, <1>0, <2>1, <2>2, <2>3, <2>5, DoomedSame
    <2> QED BY <2>4, <2>5
  <1>3. ASSUME NEW d \in Client, NEW t \in calls[d], Served(d, t) \/ Unserved(d, t)
        PROVE  Doomed(c)'
    <2>1. Ends(d, t) /\ req[d].op # "create"
      BY Zenon, <1>3, ServeEnds
    <2>2. /\ DimGrows /\ req'[c] = req[c] /\ ready'[c] = ready[c]
          /\ c # d => failed'[c] = failed[c]
      BY Zenon, <2>1 DEF Ends
    <2>3. c # d => calls'[c] = calls[c]
      BY Zenon, <1>3, <2>1, EndsCalls
    <2>4. CASE c # d
      BY Zenon, <1>s, <2>2, <2>3, <2>4
    <2>5. CASE c = d
      BY Zenon, <2>1, <2>2, <2>5 DEF Doomed
    <2> QED BY <2>4, <2>5
  <1>4. ASSUME NEW l \in late, ServedLate(l) PROVE Doomed(c)'
    BY Zenon, <1>s, <1>4, LateFacts, SameGrows
  <1>5. CASE UNCHANGED vars
    BY Zenon, <1>s, <1>5, SameGrows DEF vars, storeVars, requestVars, historyVars
  <1> QED BY <1>1, <1>2, <1>3, <1>4, <1>5 DEF Next

\* A creation that is answered Ok began when no node had the collection: one that
\* a failed create_collection has left on some of the nodes is never completed.
THEOREM HalfCreatedStaysSo == Spec => []CreatedAfresh
  <1> DEFINE I == RInv0 /\ \A c \in Client : Doomed(c)
  <1>1. Init => I
    BY InitR, NoneAssumption DEF Init, RInv0, Doomed
  <1>2. I /\ [Next]_vars => I'
    BY NextR, NextDoomed
  <1>3. I => CreatedAfresh
    <2> SUFFICES ASSUME I, NEW c \in Client, Ok(c), req[c].op = "create"
                 PROVE  ready[c]
      BY DEF CreatedAfresh
    <2>1. req[c] \in Request /\ calls[c] = {} /\ ~failed[c]
      BY SMTT(30) DEF Ok, Returned, RInv0, RTypes
    <2> QED BY <2>1 DEF Doomed
  <1> QED BY <1>1, <1>2, <1>3, PTL DEF Spec

-----------------------------------------------------------------------------
(* Answers are true *)

\* A write began on a collection that was ready: it stays so.
Prepared(c) ==
    IsWrite(req[c]) /\ ready[c] =>
        \A n \in Node : /\ dim[n] # NoCollection
                        /\ req[c].op = "insert" => dim[n] = req[c].dim

EffectAt(q, own, v, n) ==
    IF q.op = "insert" THEN group_by_shard(own, n[1]) \subseteq v
    ELSE group_by_shard(own, n[1]) \cap v = {}

Effect(c) ==
    IsWrite(req[c]) /\ ready[c] /\ ~failed[c] =>
        \A n \in Node :
            n[1] \notin calls[c] => EffectAt(req[c], sole[c], vectors[n], n)

Answered(ids, open) == {id \in ids : shard_id[id] \notin open}

Counted(c) ==
    IsWrite(req[c]) /\ ~failed[c] =>
        count[c] = Cardinality(Answered(req[c].ids, calls[c]))

LEMMA NextPrepared ==
    ASSUME RInv0, \A c \in Client : Prepared(c), [Next]_vars
    PROVE  \A c \in Client : Prepared(c)'
  <1> SUFFICES ASSUME NEW c \in Client PROVE Prepared(c)'
    OBVIOUS
  <1>1. ASSUME DimGrows, req'[c] = req[c], ready'[c] = ready[c] PROVE Prepared(c)'
    BY ZenonT(60), <1>1 DEF Prepared, DimGrows
  <1>2. ASSUME NEW d \in Client, NEW q \in Request, Ask(d, q) PROVE Prepared(c)'
    <2>1. CASE c = d
      <3>1. req'[c] = q /\ ready'[c] = Ready(q) /\ dim' = dim
        BY <1>2, <2>1, AskFacts
      <3>2. IsWrite(q) /\ Ready(q) =>
                \A n \in Node : /\ dim[n] # NoCollection
                                /\ q.op = "insert" => dim[n] = q.dim
        BY ZenonT(60) DEF IsWrite, Ready
      <3> QED BY ZenonT(60), <3>1, <3>2 DEF Prepared
    <2>2. CASE c # d
      BY <1>1, <1>2, <2>2, AskFacts, SameGrows
    <2> QED BY Zenon, <2>1, <2>2
  <1>3. ASSUME NEW d \in Client, NEW t \in calls[d], Create(d, t) \/ CreateLost(d, t)
        PROVE  Prepared(c)'
    BY Zenon, <1>1, <1>3, CreateEnds DEF Ends
  <1>4. ASSUME NEW d \in Client, NEW t \in calls[d], Served(d, t) \/ Unserved(d, t)
        PROVE  Prepared(c)'
    BY Zenon, <1>1, <1>4, ServeEnds DEF Ends
  <1>5. ASSUME NEW l \in late, ServedLate(l) PROVE Prepared(c)'
    BY Zenon, <1>1, <1>5, LateFacts, SameGrows
  <1>6. CASE UNCHANGED vars
    BY ZenonT(60), <1>1, <1>6, SameGrows DEF vars, storeVars, requestVars, historyVars
  <1> QED BY <1>2, <1>3, <1>4, <1>5, <1>6 DEF Next

\* Applying a group that does not touch the own ids of a request, or is the
\* request's own, keeps its effect.
LEMMA ApplyKeeps ==
    ASSUME RTypes, NEW s \in Shard, NEW q \in Request, q.op # "create", Apply(s, q),
           NEW p \in Request, p.op # "create", NEW own \in SUBSET Id,
           q = p \/ group_by_shard(q.ids, s) \cap own = {},
           NEW n \in Node, EffectAt(p, own, vectors[n], n)
    PROVE  EffectAt(p, own, vectors'[n], n)
  <1>0. group_by_shard(own, n[1]) \subseteq own
    BY DEF group_by_shard
  <1>1. CASE group_by_shard(q.ids, s) \cap own = {}
    <2>1. vectors'[n] \ group_by_shard(q.ids, s) = vectors[n] \ group_by_shard(q.ids, s)
      BY ApplyElsewhere
    <2>2. \A id \in own : id \in vectors'[n] <=> id \in vectors[n]
      BY SMTT(30), <1>1, <2>1
    <2> QED BY <1>0, <2>2 DEF EffectAt
  <1>2. CASE q = p
    <2>1. p.op = "insert" => vectors[n] \subseteq vectors'[n]
      BY Zenon, <1>2, ApplyInsert
    <2>2. p.op # "insert" => vectors'[n] \subseteq vectors[n]
      BY Zenon, <1>2, ApplyDelete, WriteFacts
    <2> QED BY <2>1, <2>2 DEF EffectAt
  <1> QED BY SMTT(30), <1>1, <1>2

\* What a request did for the ids of its own stays so in a step that changes
\* neither the request nor the stores.
LEMMA EffectSame ==
    ASSUME NEW c \in Client, Effect(c), UNCHANGED vectors, req'[c] = req[c],
           calls'[c] = calls[c], sole'[c] = sole[c], failed'[c] = failed[c],
           ready'[c] = ready[c]
    PROVE  Effect(c)'
  BY Zenon DEF Effect

\* Fewer ids of its own: the effect on them is still there.
LEMMA EffectLess ==
    ASSUME NEW p, NEW own, NEW less, less \subseteq own, NEW v, NEW n,
           EffectAt(p, own, v, n)
    PROVE  EffectAt(p, less, v, n)
  BY Zenon DEF EffectAt, group_by_shard

\* It also stays so when a group is applied: of another request, which takes the
\* ids it changes from those of its own, or of the same request once more.
LEMMA EffectApply ==
    ASSUME RTypes, NEW c \in Client, Effect(c),
           NEW s \in Shard, NEW q \in Request, q.op # "create", Apply(s, q), Touch(s, q),
           req'[c] = req[c], calls'[c] = calls[c],
           failed'[c] = failed[c], ready'[c] = ready[c]
    PROVE  Effect(c)'
  <1> SUFFICES ASSUME IsWrite(req[c]), ready[c], ~failed[c],
                      NEW n \in Node, n[1] \notin calls[c]
               PROVE  EffectAt(req[c], sole'[c], vectors'[n], n)
    BY ZenonT(60) DEF Effect
  <1>0. /\ sole'[c] \in SUBSET Id /\ sole'[c] \subseteq sole[c]
        /\ q = req[c] \/ group_by_shard(q.ids, s) \cap sole'[c] = {}
    BY TouchFacts
  <1>1. EffectAt(req[c], sole'[c], vectors[n], n)
    BY Zenon, <1>0, EffectLess DEF Effect
  <1>2. req[c] \in Request /\ req[c].op # "create"
    BY Zenon DEF RTypes, IsWrite
  <1> QED BY Zenon, <1>0, <1>1, <1>2, ApplyKeeps

\* A request that starts has nothing to do at the shards it does not call.
LEMMA EffectStart ==
    ASSUME RInv0, NEW c \in Client, NEW q \in Request, Ask(c, q)
    PROVE  Effect(c)'
  <1>1. req'[c] = q /\ calls'[c] = Targets(q) /\ sole'[c] = IdsOf(q)
    BY AskFacts
  <1>2. ASSUME q.op # "create", NEW n \in Node, n[1] \notin Targets(q)
        PROVE  group_by_shard(sole'[c], n[1]) = {}
    <2>1. \A id \in q.ids : shard_id[id] # n[1]
      BY Zenon, <1>2, WriteTargets
    <2>2. sole'[c] \subseteq q.ids
      BY Zenon, <1>1, <1>2, WriteFacts
    <2> QED BY Zenon, <2>1, <2>2 DEF group_by_shard
  <1> QED BY ZenonT(60), <1>1, <1>2 DEF Effect, EffectAt, IsWrite

\* A call that is served brings its group to the replicas of its shard.
LEMMA EffectServed ==
    ASSUME RTypes, NEW c \in Client, Prepared(c), Effect(c), req[c] \in Request,
           sole[c] \in SUBSET Id, sole[c] \subseteq IdsOf(req[c]),
           NEW t \in Shard, Apply(t, req[c]), IsWrite(req[c]), ready[c], ~failed[c],
           NEW n \in Node, n[1] = t \/ n[1] \notin calls[c]
    PROVE  EffectAt(req[c], sole[c], vectors'[n], n)
  <1>0. req[c].op # "create"
    BY Zenon DEF IsWrite
  <1>1. CASE n[1] = t
    <2>1. /\ dim[n] # NoCollection
          /\ req[c].op = "insert" => dim[n] = req[c].dim
      BY Zenon DEF Prepared
    <2>2. group_by_shard(sole[c], t) \subseteq group_by_shard(req[c].ids, t)
      BY Zenon, <1>0, WriteFacts DEF group_by_shard
    <2>3. CASE req[c].op = "insert"
      <3>1. vectors'[n] = vectors[n] \cup group_by_shard(req[c].ids, t)
        BY Zenon, <1>1, <2>1, <2>3, ApplyInsert
      <3> QED BY Zenon, <1>1, <2>2, <2>3, <3>1 DEF EffectAt
    <2>4. CASE req[c].op = "delete"
      <3>1. vectors'[n] = vectors[n] \ group_by_shard(req[c].ids, t)
        BY ZenonT(60), <1>1, <2>1, <2>4, ApplyDelete
      <3> QED BY Zenon, <1>1, <2>2, <2>4, <3>1 DEF EffectAt
    <2> QED BY Zenon, <1>0, <2>3, <2>4, WriteFacts
  <1>2. CASE n[1] # t
    <2>1. EffectAt(req[c], sole[c], vectors[n], n)
      BY Zenon, <1>2 DEF Effect
    <2>2. vectors'[n] = vectors[n]
      BY <1>0, <1>2, ApplyElsewhere
    <2> QED BY Zenon, <2>1, <2>2
  <1> QED BY Zenon, <1>1, <1>2

\* The end of a write call keeps every request's effect.
LEMMA EffectEnd ==
    ASSUME RInv0, NEW c \in Client, Prepared(c), Effect(c),
           NEW d \in Client, NEW t \in calls[d], Served(d, t) \/ Unserved(d, t)
    PROVE  Effect(c)'
  <1>0. /\ RTypes /\ sole[c] \in SUBSET Id /\ sole[c] \subseteq IdsOf(req[c])
    BY Zenon DEF RInv0, RTypes, CallsOK
  <1>1. /\ Ends(d, t) /\ req[d].op # "create" /\ t \in Shard
        /\ UNCHANGED <<vectors, sole>> \/ (Apply(t, req[d]) /\ Touch(t, req[d]))
        /\ ~failed'[d] => Apply(t, req[d]) /\ Touch(t, req[d])
    BY Zenon, ServeEnds
  <1>2. req'[c] = req[c] /\ ready'[c] = ready[c]
    BY Zenon, <1>1 DEF Ends
  <1>3. req[d] \in Request
    BY Zenon, CallFacts
  <1>4. CASE c # d
    <2>1. calls'[c] = calls[c] /\ failed'[c] = failed[c]
      BY Zenon, <1>1, <1>4, EndsCalls DEF Ends
    <2>3. CASE UNCHANGED <<vectors, sole>>
      BY Zenon, <1>2, <2>1, <2>3, EffectSame
    <2>4. CASE Apply(t, req[d]) /\ Touch(t, req[d])
      BY ZenonT(60), <1>0, <1>1, <1>2, <1>3, <2>1, <2>4, EffectApply
    <2> QED BY Zenon, <1>1, <2>3, <2>4
  <1>5. CASE c = d
    <2>1. calls'[c] = calls[c] \ {t}
      BY Zenon, <1>1, <1>5, EndsCalls
    <2>2. ~failed'[c] => ~failed[c] /\ Apply(t, req[c]) /\ sole'[c] = sole[c]
      BY ZenonT(60), <1>0, <1>1, <1>5, TouchFacts DEF Ends
    <2> SUFFICES ASSUME IsWrite(req[c]), ready[c], ~failed'[c],
                        NEW n \in Node, n[1] \notin calls'[c]
                 PROVE  EffectAt(req[c], sole[c], vectors'[n], n)
      BY Zenon, <1>2, <2>2 DEF Effect
    <2>3. n[1] = t \/ n[1] \notin calls[c]
      BY Zenon, <2>1
    <2> QED BY ZenonT(60), <1>0, <1>1, <1>3, <1>5, <2>2, <2>3, EffectServed
  <1> QED BY Zenon, <1>4, <1>5

LEMMA NextEffect ==
    ASSUME RInv0, [Next]_vars,
           \A c \in Client : Prepared(c) /\ Effect(c)
    PROVE  \A c \in Client : Effect(c)'
  <1> SUFFICES ASSUME NEW c \in Client PROVE Effect(c)'
    BY Zenon
  <1>0. RTypes /\ Prepared(c) /\ Effect(c)
    BY Zenon DEF RInv0, RTypes
  <1>1. ASSUME NEW d \in Client, NEW q \in Request, Ask(d, q) PROVE Effect(c)'
    BY ZenonT(60), <1>0, <1>1, EffectStart, EffectSame, AskFacts
  <1>2. ASSUME NEW d \in Client, NEW t \in calls[d], Create(d, t) \/ CreateLost(d, t)
        PROVE  Effect(c)'
    <2>1. Ends(d, t) /\ req[d].op = "create" /\ UNCHANGED <<vectors, sole>>
      BY Zenon, <1>2, CreateEnds
    <2>2. req'[c] = req[c] /\ sole'[c] = sole[c] /\ ready'[c] = ready[c]
      BY Zenon, <2>1 DEF Ends
    <2>3. c # d => calls'[c] = calls[c] /\ failed'[c] = failed[c]
      BY Zenon, <2>1, EndsCalls DEF Ends
    <2>4. CASE c # d
      BY ZenonT(60), <1>0, <2>1, <2>2, <2>3, <2>4, EffectSame
    <2>5. CASE c = d
      BY Zenon, <2>1, <2>2, <2>5 DEF Effect, IsWrite
    <2> QED BY Zenon, <2>4, <2>5
  <1>3. ASSUME NEW d \in Client, NEW t \in calls[d], Served(d, t) \/ Unserved(d, t)
        PROVE  Effect(c)'
    BY Zenon, <1>0, <1>3, EffectEnd
  <1>4. ASSUME NEW l \in late, ServedLate(l) PROVE Effect(c)'
    <2>1. /\ l.shard \in Shard /\ l.req \in Request /\ l.req.op # "create"
          /\ Apply(l.shard, l.req) /\ Touch(l.shard, l.req)
          /\ UNCHANGED <<req, calls, failed, ready>>
      BY ZenonT(60), <1>4, LateFacts DEF IsWrite, RInv0, LateOK
    <2> QED BY Zenon, <1>0, <2>1, EffectApply
  <1>5. CASE UNCHANGED vars
    BY <1>0, <1>5, EffectSame DEF vars, storeVars, requestVars, historyVars
  <1> QED BY ZenonT(60), <1>1, <1>2, <1>3, <1>4, <1>5 DEF Next

LEMMA CountMore ==
    ASSUME NEW ids \in SUBSET Id, NEW open, NEW s \in open
    PROVE  /\ Cardinality(Answered(ids, open \ {s}))
                = Cardinality(Answered(ids, open)) + Cardinality(group_by_shard(ids, s))
           /\ Cardinality(Answered(ids, {})) = Cardinality(ids)
  <1> DEFINE A == Answered(ids, open)
             G == group_by_shard(ids, s)
  <1>1. IsFiniteSet(A) /\ IsFiniteSet(G)
    BY IdAssumption, FS_Subset DEF Answered, group_by_shard
  <1>2. A \cap G = {} /\ Answered(ids, open \ {s}) = A \cup G /\ Answered(ids, {}) = ids
    BY DEF Answered, group_by_shard
  <1>3. Cardinality(A) \in Nat /\ Cardinality(G) \in Nat /\ Cardinality({}) = 0
    BY SMTT(30), <1>1, FS_CardinalityType, FS_EmptySet
  <1>4. Cardinality(A \cup G) = Cardinality(A) + Cardinality(G) - Cardinality(A \cap G)
    BY <1>1, FS_Union
  <1>0. Cardinality(A \cap G) = 0
    BY <1>2, FS_EmptySet
  <1> HIDE DEF A, G
  <1>5. Cardinality(A \cup G) = Cardinality(A) + Cardinality(G)
    <2> DEFINE a == Cardinality(A)  g == Cardinality(G)
               u == Cardinality(A \cup G)  i == Cardinality(A \cap G)
    <2>1. a \in Nat /\ g \in Nat /\ u = a + g - i /\ i = 0
      BY Zenon, <1>0, <1>3, <1>4
    <2> HIDE DEF a, g, u, i
    <2>2. u = a + g
      BY <2>1
    <2> QED BY Zenon, <2>2 DEF a, g, u
  <1> QED BY <1>2, <1>5 DEF A, G

LEMMA NextCounted ==
    ASSUME RInv0, [Next]_vars, \A c \in Client : Counted(c)
    PROVE  \A c \in Client : Counted(c)'
  <1> SUFFICES ASSUME NEW c \in Client PROVE Counted(c)'
    BY Zenon
  <1>0. Counted(c)
    BY Zenon
  <1>1. ASSUME req'[c] = req[c], calls'[c] = calls[c], failed'[c] = failed[c],
               count'[c] = count[c]
        PROVE  Counted(c)'
    BY Zenon, <1>0, <1>1 DEF Counted
  <1>2. ASSUME NEW d \in Client, NEW q \in Request, Ask(d, q) PROVE Counted(c)'
    <2>1. CASE c = d
      <3>1. req'[c] = q /\ calls'[c] = Targets(q) /\ count'[c] = 0
        BY Zenon, <1>2, <2>1, AskFacts
      <3>2. ASSUME q.op # "create" PROVE Cardinality(Answered(q.ids, Targets(q))) = 0
        <4>1. Answered(q.ids, Targets(q)) = {}
          BY ZenonT(60), <3>2, RequestFacts, IdAssumption DEF Answered
        <4> QED BY Zenon, <4>1, FS_EmptySet
      <3> QED BY Zenon, <3>1, <3>2 DEF Counted, IsWrite
    <2>2. CASE c # d
      BY <1>1, <1>2, <2>2, AskFacts
    <2> QED BY Zenon, <2>1, <2>2
  <1>3. ASSUME NEW d \in Client, NEW t \in calls[d], Create(d, t) \/ CreateLost(d, t)
        PROVE  Counted(c)'
    <2>1. Ends(d, t) /\ req[d].op = "create"
      BY Zenon, <1>3, CreateEnds
    <2>2. CASE c # d
      BY Zenon, <1>1, <2>1, <2>2, EndsCalls DEF Ends
    <2>3. CASE c = d
      BY ZenonT(60), <2>1, <2>3 DEF Ends, Counted, IsWrite
    <2> QED BY Zenon, <2>2, <2>3
  <1>4. ASSUME NEW d \in Client, NEW t \in calls[d], Served(d, t) \/ Unserved(d, t)
        PROVE  Counted(c)'
    <2>1. /\ Ends(d, t)
          /\ ~failed'[d] =>
                 count'[d] = count[d] + Cardinality(group_by_shard(req[d].ids, t))
      BY Zenon, <1>4, ServeEnds
    <2>2. CASE c # d
      BY ZenonT(60), <1>1, <2>1, <2>2, EndsCalls DEF Ends
    <2>3. CASE c = d
      <3> SUFFICES ASSUME IsWrite(req[c]), ~failed'[c]
                   PROVE  count'[c] = Cardinality(Answered(req[c].ids, calls'[c]))
        BY Zenon, <2>1 DEF Counted, Ends
      <3>1. ~failed[c] /\ calls'[c] = calls[c] \ {t} /\ req[c].ids \in SUBSET Id
        BY ZenonT(60), <1>4, <2>1, <2>3, EndsCalls, WriteFacts DEF Ends, IsWrite
      <3>2. count[c] = Cardinality(Answered(req[c].ids, calls[c]))
        BY Zenon, <1>0, <3>1 DEF Counted
      <3>3. count'[c] = count[c] + Cardinality(group_by_shard(req[c].ids, t))
        BY ZenonT(60), <2>1, <2>3
      <3>4. Cardinality(Answered(req[c].ids, calls[c] \ {t}))
              = Cardinality(Answered(req[c].ids, calls[c]))
                    + Cardinality(group_by_shard(req[c].ids, t))
        BY <1>4, <2>3, <3>1, CountMore
      <3> QED BY ZenonT(60), <3>1, <3>2, <3>3, <3>4
    <2> QED BY Zenon, <2>2, <2>3
  <1>5. ASSUME NEW l \in late, ServedLate(l) PROVE Counted(c)'
    BY Zenon, <1>1, <1>5, LateFacts
  <1>6. CASE UNCHANGED vars
    BY Zenon, <1>1, <1>6 DEF vars, requestVars
  <1> QED BY Zenon, <1>2, <1>3, <1>4, <1>5, <1>6 DEF Next

\* Inserts and deletes that are answered Ok, on a collection that every node had,
\* took effect in every shard they concern (whose replicas apply an entry together
\* here), and the count they report is the number of their records: for any number
\* of requests at a time, with calls that fail and attempts carried out late. It
\* lasts until another change of the same id is carried out.
THEOREM OkIsTrue == Spec => []AnswersAreTrue
  <1> DEFINE I == /\ RInv0
                  /\ \A c \in Client : Prepared(c) /\ Effect(c) /\ Counted(c)
  <1>1. Init => I
    <2> SUFFICES ASSUME Init PROVE I
      OBVIOUS
    <2>1. RInv0
      BY InitR DEF RInv0
    <2>2. \A c \in Client : ~IsWrite(req[c])
      BY Zenon, NoneAssumption DEF Init, IsWrite
    <2> QED BY ZenonT(60), <2>1, <2>2 DEF Prepared, Effect, Counted
  <1>2. I /\ [Next]_vars => I'
    BY ZenonT(60), NextR, NextPrepared, NextEffect, NextCounted
  <1>3. I => AnswersAreTrue
    <2> SUFFICES ASSUME I, NEW c \in Client, Ok(c), req[c].op # "create", ready[c]
                 PROVE  TookEffect(c) /\ count[c] = Cardinality(req[c].ids)
      BY ZenonT(60) DEF AnswersAreTrue
    <2>1. IsWrite(req[c]) /\ calls[c] = {} /\ ~failed[c] /\ req[c].ids \in SUBSET Id
      BY RequestFacts DEF Ok, Returned, RInv0, RTypes, IsWrite
    <2>2. \A n \in Node : EffectAt(req[c], sole[c], vectors[n], n)
      BY Zenon, <2>1 DEF Effect
    <2>3. count[c] = Cardinality(Answered(req[c].ids, {}))
      BY ZenonT(60), <2>1 DEF Counted
    <2>4. Answered(req[c].ids, {}) = req[c].ids
      BY DEF Answered
    <2> QED BY ZenonT(60), <2>2, <2>3, <2>4 DEF TookEffect, EffectAt
  <1> QED BY <1>1, <1>2, <1>3, PTL DEF Spec
=============================================================================
