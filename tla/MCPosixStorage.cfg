SPECIFICATION Spec
CONSTANTS
    Call = {a, b, c, d}
    Data = {x, y}
    Request = {r, s}
    NoRequest = NoRequest
    NoCall = NoCall
    Absent = Absent
    Depth = 2
    MaxEffects = 3
    MaxOsCrashes = 1
SYMMETRY Symmetry
CONSTRAINT FourthCall
INVARIANTS
    TypeOK
    OneWinner
    PublishedSurvives
PROPERTY ImplementsMemory
CHECK_DEADLOCK FALSE
