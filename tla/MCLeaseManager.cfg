SPECIFICATION FairSpec
CONSTANTS
    Session = {a, b}
    NoOwner = NoOwner
    Ttl = 1
    MaxSkew = 1
    MaxTime = 3
    MaxEpoch = 3
    MaxSeq = 3
    CrashAt = {"idle", "read", "stamped", "checked", "reconcile", "fencing", "owner"}
INVARIANTS
    TypeOK
    LeaseExclusion
    NoEpochSkipped
    EpochNotShared
PROPERTIES
    NewOwnerNewEpoch
    ImplementsLeaseBook
    StandbyTakesOverUnlessWedged
CHECK_DEADLOCK FALSE
