\* The defaults of AioHttpFetcher.
SPECIFICATION FairSpec
CONSTANTS
    MaxRetries = 3
    RequestTimeout = 30
    BackoffBase = 1
    Latencies = {0, 7, 30}
    RetryAfters = {0, 60}
INVARIANTS
    PatienceBound
    GivesUpInTime
PROPERTIES
    FetchEnds
CHECK_DEADLOCK FALSE
