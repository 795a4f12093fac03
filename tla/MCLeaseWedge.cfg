SPECIFICATION FairSpec
CONSTANTS
    Session = {a, b}
    NoOwner = NoOwner
    Ttl = 1
    MaxSkew = 1
    MaxTime = 3
    MaxEpoch = 3
    MaxSeq = 3
    CrashAt = {"fencing"}
PROPERTIES
    StandbyTakesOver
CHECK_DEADLOCK FALSE
