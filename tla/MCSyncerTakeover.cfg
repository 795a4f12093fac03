SPECIFICATION Spec
CONSTANTS
    Session = {s1, s2}
    Standby = {s2}
    NoSession = NoSession
    Frags = 1
    StopAfter = 2
    Deployments = {{s1, s2}}
    IoErrors = FALSE
    MaxLog = 6
INVARIANTS
    StepsFromCommitted
CHECK_DEADLOCK FALSE
