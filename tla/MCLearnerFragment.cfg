SPECIFICATION Spec
CONSTANTS
    Learner = {l1, l2}
    Frags = 2
    MaxGlobal = 3
    MaxFragment = 2
    QuorumMin = 2
    QuorumMax = 2
    MaxSessions = 1
    StopAfter = 2
    MaxBumps = 0
    Mortal = {l1, l2}
    CrashAt = {}
    Modes <- MCOpen
INVARIANTS
    PublishesScheduled
CHECK_DEADLOCK FALSE
