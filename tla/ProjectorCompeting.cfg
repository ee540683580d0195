CONSTANTS
    w1 = w1
    w2 = w2
    Projectors = {"t", "u"}
    Keys = {"k"}
    Workers = {w1, w2}
    Sources <- MCCompeting
    FailurePolicy = "DeadLetter"
    Retention = 2
    MaxGeneration = 2
    MaxFaults = 0
SPECIFICATION Spec
INVARIANT AcknowledgedIsApplied
CHECK_DEADLOCK FALSE
