SPECIFICATION FairSpec
CONSTANTS
    Session = {s1, s2, s3}
    Standby = {s2}
    NoSession = NoSession
    Frags = 1
    StopAfter = 2
    Deployments = {{}, {s1, s2}}
    IoErrors = TRUE
    MaxLog = 6
INVARIANTS
    TypeOK
    RestartStepsFromCommitted
    LoopExportsHead
    StopIsExported
    EpochIsLeased
PROPERTIES
    ImplementsReference
    LoopEnds
CHECK_DEADLOCK FALSE
