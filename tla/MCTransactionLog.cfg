SPECIFICATION Spec
CONSTANTS
    Process = {a, b}
    RunSpec = {g, h}
    NoSpec = NoSpec
    NoTip = NoTip
    Learner = {"l1", "l2"}
    Frags = 1
    Offered <- MCOffered
    MaxGlobal = 1
    MaxFragment = 1
    MaxCommits = 2
    MaxObjects = 9
SYMMETRY Symmetry
INVARIANTS
    TypeOK
    HeadReplays
    OneGenesis
    FailsForCause
PROPERTY ImplementsModel
