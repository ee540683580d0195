CONSTANTS
    d1 = d1
    w = w
    NoWorker = NoWorker
    Messages <- MCMessages
    Dispatchers = {d1}
    WorkerIds = {w}
    WorkerId <- MCWorkerId
    Lease = 1
    BatchSize = 1
    MaxAttempts = 2
    PublishConcurrency = 1
    ClaimReturnsSorted = TRUE
    MaxDisruptions = 0
    Capacity = 1
SPECIFICATION BusySpec
PROPERTY PendingIsClaimed
CHECK_DEADLOCK FALSE
