CONSTANTS
    CollectionName <- MCCollectionName
    Id <- MCId
    Dim <- MCDim
    Data <- MCData
    NoVector = NoVector
    NoCollection = NoCollection
    NoTask = NoTask
    NoSnapshot = NoSnapshot
    Replica = {r1, r2}
    Command <- MCCommand
    MaxLog = 2
    MaxRestarts = 0
    MaxBuilds = 1
    docs = docs
    x = x
    v = v
SPECIFICATION TransferSpec
SYMMETRY Symmetry
INVARIANTS
    SnapshotsCatchUp
CHECK_DEADLOCK FALSE
