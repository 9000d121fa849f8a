CONSTANTS
    Item <- MCItem
    Shard = {"a", "b"}
    shard_id <- MCShardId
    Task = {1, 2}
    k = 2
    router = router
    NoWorker = NoWorker
SPECIFICATION Spec
INVARIANTS
    HeapsAreExact
    SearchIsExact
CHECK_DEADLOCK FALSE
