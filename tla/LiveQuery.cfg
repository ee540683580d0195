CONSTANTS
    s1 = s1
    Subscribers = {s1}
    Projectors = {"t"}
    Projector = "t"
    Keys = {"k"}
    Inputs <- MCInputs
    Capacity = 1
    Budget = 2
    Retention = 3
    MaxGeneration = 2
    MaxErrors = 1
    MaxConnects = 2
SPECIFICATION FairSpec
INVARIANT NoChangeMissed
PROPERTY EventuallyShown
CHECK_DEADLOCK FALSE
