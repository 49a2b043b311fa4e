SPECIFICATION ElectionSpec
CONSTANTS
    Server = {s1, s2, s3}
    Couple = {p1, p2}
    None = None
    InitTerm = 0
    MaxTerm = 2
    MaxIdx = 0
    MaxElections = 2
    MaxRestarts = 1
    LosePuts = FALSE
SYMMETRY Symmetry
VIEW View
INVARIANTS
    ElectionSafety
    ElectedByUpToDateMajority
    NoGrantWhileCampaigning
CHECK_DEADLOCK FALSE
