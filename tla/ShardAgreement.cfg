CONSTANTS
    CollectionName <- MCCollectionName
    Id <- MCId
    Dim <- MCDim
    Data <- MCData
    NoVector = NoVector
    NoCollection = NoCollection
    NoTask = NoTask
    NoSnapshot = NoSnapshot
    Replica = {r1, r2}
    Command <- MCCommand
    MaxLog = 3
    MaxRestarts = 1
    MaxBuilds = 1
    docs = docs
    x = x
    y = y
    v = v
    w = w
SPECIFICATION Spec
SYMMETRY Symmetry
INVARIANTS
    TypeOK
    LastWriterWins
    RejectionsExplained
    ReplicasAgree
    SnapshotNeverAhead
CHECK_DEADLOCK FALSE
