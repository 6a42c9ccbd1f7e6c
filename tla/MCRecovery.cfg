\* One task under repeated worker faults, activities retried once, with clients.
SPECIFICATION ListFairSpec
CONSTANTS
    t1 = t1
    Tasks <- OneTask
    AttemptCap = 3
    FeedFaults = TRUE
    MaxAttempts = 2
    MaxFaults = 2
    Faults <- WorkerFaults
INVARIANTS
    SummariesBounded
    ListedMeansSummarized
    ListAgreesWithAnswer
PROPERTIES
    EveryTaskSettles
CHECK_DEADLOCK FALSE
