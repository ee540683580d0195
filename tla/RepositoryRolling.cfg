CONSTANTS
    p1 = p1
    p2 = p2
    x1 = x1
    x2 = x2
    x3 = x3
    Processes = {p1, p2}
    Tasks = {x1, x3}
    ProcessOf <- MCTwoProcesses
    Streams = {1}
    Loads <- MCOneStream
    Creates <- MCNoCreates
    Releases <- MCRolling
    Frequency = 1
    MaxRounds = 1
    MaxFaults = 0
SPECIFICATION FairSpec
PROPERTY UnusableSnapshotIsAMiss
CHECK_DEADLOCK FALSE
