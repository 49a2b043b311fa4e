SPECIFICATION Spec
CONSTANTS
    Server = {s1, s2, s3}
    Couple = {}
    None = None
    InitTerm = 0
    MaxTerm = 1
    MaxIdx = 0
    MaxElections = 2
    MaxRestarts = 1
    LosePuts = TRUE
SYMMETRY Symmetry
INVARIANT ElectionSafety
CHECK_DEADLOCK FALSE
