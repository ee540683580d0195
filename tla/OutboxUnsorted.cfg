CONSTANTS
    d1 = d1
    d2 = d2
    w = w
    NoWorker = NoWorker
    Messages <- MCMessages
    Dispatchers = {d1, d2}
    WorkerIds = {w}
    WorkerId <- MCWorkerId
    Lease = 1
    BatchSize = 2
    MaxAttempts = 2
    PublishConcurrency = 1
    ClaimReturnsSorted = FALSE
    MaxDisruptions = 2

SPECIFICATION Spec

PROPERTY PublishesInClaimOrder
CHECK_DEADLOCK FALSE
