CONSTANTS
    p1 = p1
    p2 = p2
    x1 = x1
    x2 = x2
    x3 = x3
    Processes = {p1, p2}
    Tasks = {x1, x2, x3}
    ProcessOf <- MCProcessOf
    Streams = {1, 2}
    Loads <- MCLoads
    Creates <- MCCreates
    Releases <- MCReleases
    Frequency = 2
    MaxRounds = 1
    MaxFaults = 1
SPECIFICATION FairSpec
INVARIANT EventsBuildOnTheLast
INVARIANT Exclusive
PROPERTY EveryLoadGetsItsLocks
CHECK_DEADLOCK FALSE
