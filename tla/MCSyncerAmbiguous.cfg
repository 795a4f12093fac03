SPECIFICATION Spec
CONSTANTS
    Session = {s1}
    Standby = {}
    NoSession = NoSession
    Frags = 1
    StopAfter = 2
    Deployments = {{}}
    IoErrors = TRUE
    MaxLog = 6
INVARIANTS
    ExportIsCommitted
CHECK_DEADLOCK FALSE
