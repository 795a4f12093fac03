SPECIFICATION FairSpec
CONSTANTS
    Learner = {l1, l2}
    Frags = 1
    MaxGlobal = 1
    MaxFragment = 0
    QuorumMin = 2
    QuorumMax = 2
    MaxSessions = 2
    StopAfter = 2
    MaxBumps = 1
    Mortal = {l1}
    CrashAt = {"recovering", "ready", "interval", "marked", "waiting"}
    Modes <- MCModes
INVARIANTS
    TypeOK
    Replayable
    CollectedPrepares
    IntervalsDisjoint
    MarkersFirst
    ExportsKept
    EndsForCause
PROPERTIES
    ImplementsAdmission
    RunEndsForCause
CHECK_DEADLOCK FALSE
