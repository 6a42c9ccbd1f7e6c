\* The API and a worker: two connections each, up to three calls side by side.
SPECIFICATION ProcFairSpec
CONSTANTS
    api = api
    worker = worker
    c1 = c1
    c2 = c2
    c3 = c3
    r1 = r1
    r2 = r2
    other = other
    Processes <- TwoProcesses
    Callers <- ThreeCallers
    Workloads <- Mixes
    Records <- TwoRecords
    Early <- FirstRecord
    Others <- OtherRecord
    Limit = 1
    PoolSize = 2
    WorkerSlots = 2
    DefaultSlots = 3
    S3Faults = TRUE
INVARIANTS
    ProcTypeOK
    MadeOnce
    ClientMeansBucket
    LockHeldByMaker
    PoolKept
    WorkersServed
PROPERTIES
    PagesAddUp
    EveryCallEnds
CHECK_DEADLOCK FALSE
