SPECIFICATION Spec
CONSTANTS
    Server = {s1, s2}
    Couple = {}
    None = None
    InitTerm = 0
    MaxTerm = 2
    MaxIdx = 1
    MaxElections = 2
    MaxRestarts = 2
    LosePuts = TRUE
SYMMETRY Symmetry
INVARIANTS
    TypeOK
PROPERTIES
    WrittenVoteStands
CHECK_DEADLOCK FALSE
