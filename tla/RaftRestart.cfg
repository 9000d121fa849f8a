CONSTANTS
    Replica = {1, 2, 3}
    Majority <- MCMajority
    Bootstrap = {1}
    MaxBallot = 3
    Owner <- MCOwner
    Value = {"v"}
    MaxLog = 3
    MaxRestarts = 1
SPECIFICATION RestartSpec
INVARIANTS
    AcknowledgedNeverLost
CHECK_DEADLOCK FALSE
