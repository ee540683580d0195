CONSTANTS
    w1 = w1
    w2 = w2
    Projectors = {"t", "u"}
    Keys = {"k"}
    Workers = {w1, w2}
    Sources <- MCSources
    FailurePolicy = "DeadLetter"
    Retention = 2
    MaxGeneration = 2
    MaxFaults = 1
SPECIFICATION FairSpec
INVARIANT AppliedOnce
INVARIANT FailureIsNotCrossed
INVARIANT NoLostUpdate
INVARIANT LogAcknowledgedIsApplied
PROPERTY EventuallyApplied
PROPERTY ImplementsContract
CHECK_DEADLOCK FALSE
