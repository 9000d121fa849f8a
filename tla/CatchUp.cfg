SPECIFICATION Spec
CONSTANTS
    Leader = 1
    Follower = {2, 3}
    max_payload_entries = 1
    MaxIndex = 2
    MaxFaults = 1
PROPERTIES LaggingCatchesUp
