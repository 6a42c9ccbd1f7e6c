\* Up to three records in batches of two, one retry, two faults.
SPECIFICATION FairSpec
CONSTANTS
    MaxRecords = 3
    BatchSize = 2
    MaxAttempts = 2
    Faults = {"timeout", "crash", "cancel", "expire"}
    MaxFaults = 2
INVARIANTS
    TypeOK
    ContentHasObject
    EnrichedIsUsed
    TallyExact
    AllTried
PROPERTIES
    SummarizedAtLast
CHECK_DEADLOCK FALSE
