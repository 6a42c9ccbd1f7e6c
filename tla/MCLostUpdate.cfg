\* Two tasks, no fault at all.
SPECIFICATION Spec
CONSTANTS
    t1 = t1
    t2 = t2
    Tasks <- TwoTasks
    AttemptCap = 1
    FeedFaults = FALSE
    MaxAttempts = 1
    MaxFaults = 0
    Faults <- NoFaults
INVARIANTS
    RowConverges
CHECK_DEADLOCK FALSE
