\* Two tasks, every kind of fault, one of them striking an execution.
SPECIFICATION Spec
CONSTANTS
    t1 = t1
    t2 = t2
    Tasks <- TwoTasks
    AttemptCap = 2
    FeedFaults = TRUE
    MaxAttempts = 1
    MaxFaults = 1
    Faults <- AllFaults
SYMMETRY Symmetry
INVARIANTS
    TypeOK
    CompletedRowMeansSettled
    NoSummariesWhilePending
    CompletedMeansSummarized
    GhostsFail
    IInv
CHECK_DEADLOCK FALSE
