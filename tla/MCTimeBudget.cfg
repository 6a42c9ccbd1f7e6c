\* ACTIVITY_MAX_RETRIES=4, the other settings at their defaults.
SPECIFICATION Spec
CONSTANTS
    ActivityTimeout = 60
    MaxAttempts = 4
    MaxRecords = 20
    Durations = {1}
INVARIANTS
    FinalizedInTime
CHECK_DEADLOCK FALSE
