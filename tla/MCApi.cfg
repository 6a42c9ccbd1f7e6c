\* A client polling a job of two tasks whose feeds may fail; a worker may crash.
SPECIFICATION ApiFairSpec
CONSTANTS
    t1 = t1
    t2 = t2
    Tasks <- TwoTasks
    AttemptCap = 2
    FeedFaults = TRUE
    MaxAttempts = 1
    MaxFaults = 1
    Faults <- CrashOnly
INVARIANTS
    RowNeverOvercounts
    ResultAgreesWithRow
PROPERTIES
    VerdictIsFinal
    CompletionNeverRetracted
    DeliversPromise
CHECK_DEADLOCK FALSE
