CONSTANTS
    Replica = {1, 2, 3}
    Majority <- MCMajority
    Bootstrap = {1}
    MaxBallot = 2
    Owner <- MCOwner
    Value = {"v"}
    MaxLog = 3
    NoSearch = NoSearch
SPECIFICATION NodeSpec
INVARIANTS
    TypeOK
    LogMatching
    CommittedNeverLost
    AckedIsKept
    ReadsAreCurrent
PROPERTIES
    AgreedLogKept
    ClientsSeeOneLog
CHECK_DEADLOCK FALSE
