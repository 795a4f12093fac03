SPECIFICATION Spec
CONSTANTS
    Writer = {a, b}
    Proposal = {p, q}
    Request = {r1, r2, r3, r4}
    NoWriter = NoWriter
    NoPrep = NoPrep
    MaxEpoch = 2
    MaxCommits = 4
SYMMETRY Symmetry
INVARIANTS
    TypeOK
    ResultIsFinal
    ConsumedOnce
    TokenIsCommitted
    Fenced
    NothingAfterStop
    LogVerifies
PROPERTY ImplementsReference
