\* One record, whose enrichment may run into the execution timeout.
SPECIFICATION FairSpec
CONSTANTS
    MaxRecords = 1
    BatchSize = 2
    MaxAttempts = 1
    Faults = {"expire"}
    MaxFaults = 1
PROPERTIES
    NoLateContent
CHECK_DEADLOCK FALSE
