\* Jobs of up to five tasks in batches of two: up to three runs.
SPECIFICATION FairSpec
CONSTANTS
    MaxTasks = 5
    BatchSize = 2
    MaxConcurrentUrls = 1
INVARIANTS
    ChildrenBounded
    CountsCarried
    NothingLost
PROPERTIES
    JobEnds
CHECK_DEADLOCK FALSE
