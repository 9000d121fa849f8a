CONSTANTS
    Shard <- MCShard
    Replica = {r1, r2}
    Id <- MCId
    shard_id <- MCShardId
    Dim = {d1, d2}
    Client = {c1, c2}
    NoCollection = NoCollection
    NoRequest = NoRequest
    MaxRequests = 3
    a = a
    b = b
    x = x
    y = y
SPECIFICATION Spec
SYMMETRY Symmetry
INVARIANTS
    AcknowledgedIsPresent
CHECK_DEADLOCK FALSE
