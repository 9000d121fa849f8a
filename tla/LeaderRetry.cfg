CONSTANTS
    replica_count = 3
    Call = {1, 2}
    MAX_LEADER_ATTEMPTS = 4
    Served = Served
    Failed = Failed
    None = None
    MaxFaults = 2
SPECIFICATION Spec
INVARIANTS
    TypeOK
    NeverAWrongAnswer
    StaleGuessCostsOneRetry
    GivesUpOnlyIfDisturbed
PROPERTIES
    ServiceResumes
