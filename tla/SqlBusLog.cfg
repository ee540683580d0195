CONSTANTS
    a = a
    b = b
    b2 = b2
    p1 = p1
    p2 = p2
    c1 = c1
    c2 = c2
    g = g
    NoId = NoId
    NoMessage = NoMessage
    Messages = {a, b, b2}
    StableId <- MCStableId
    Publishers = {p1, p2}
    Consumers = {c1, c2}
    Groups = {g}
    GroupOf <- MCGroupOf
    Wanted <- MCWanted
    SourceBatch = 2
    FailurePolicy = "DeadLetter"
    Deployments <- MCDeployments
    MaxSeq = 2
    MaxEpoch = 2
SPECIFICATION FairSpec
INVARIANT CursorNamesOneMessage
INVARIANT NothingSkipped
INVARIANT NackedIsReread
INVARIANT AckedIsLoggedOnce
PROPERTY OffsetNeverGoesBack
PROPERTY EventuallyForwarded
CHECK_DEADLOCK FALSE
