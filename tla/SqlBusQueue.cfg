CONSTANTS
    w1 = w1
    w2 = w2
    Seqs = {1, 2}
    Workers = {w1, w2}
    SourceBatch = 2
    MaxExcuses = 2
    FailurePolicy = "Stop"
SPECIFICATION FairSpec
INVARIANT OneClaimCounts
INVARIANT HandledOnce
PROPERTY LeasedClaimStands
PROPERTY EventuallyGone
