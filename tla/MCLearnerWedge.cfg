SPECIFICATION FairSpec
CONSTANTS
    Learner = {l1, l2}
    Frags = 1
    MaxGlobal = 3
    MaxFragment = 2
    QuorumMin = 2
    QuorumMax = 2
    MaxSessions = 2
    StopAfter = 2
    MaxBumps = 0
    Mortal = {l1, l2}
    CrashAt = {"marked"}
    Modes <- MCOpen
PROPERTIES
    RunCompletes
CHECK_DEADLOCK FALSE
