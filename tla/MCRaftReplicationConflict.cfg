SPECIFICATION Spec
CONSTANTS
    Server = {s1, s2, s3}
    Nil = Nil
    First = s1
    Unsteady = {}
    MaxTerm = 2
    MaxWrites = 2
    MaxRestarts = 0
    MaxFailures = 0
INVARIANTS NoCommittedConflict
CHECK_DEADLOCK FALSE
