SPECIFICATION Spec
CONSTANTS
    Call = {a, b, c, d}
    Data = {x, y}
    Request = {r, s}
    NoRequest = NoRequest
    NoCall = NoCall
    Absent = Absent
    Depth = 0
    MaxEffects = 3
    MaxOsCrashes = 1
SYMMETRY Symmetry
INVARIANT AcknowledgedSurvives
CHECK_DEADLOCK FALSE
