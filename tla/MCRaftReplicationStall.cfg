SPECIFICATION Spec
CONSTANTS
    Server = {s1, s2, s3}
    Nil = Nil
    First = s1
    Unsteady = {s2, s3}
    MaxTerm = 1
    MaxWrites = 2
    MaxRestarts = 0
    MaxFailures = 1
INVARIANTS MajorityIsCommitted
CHECK_DEADLOCK FALSE
