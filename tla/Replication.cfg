CONSTANTS
    Leader = 1
    Follower = {2, 3}
    max_payload_entries = 1
    MaxIndex = 2
    MaxFaults = 2
SPECIFICATION Spec
INVARIANTS
    LogHasNoGap
    CommittedOnMajority
PROPERTIES
    CommitsInOrder
    CallsMakeProgress
    FollowersCatchUp
