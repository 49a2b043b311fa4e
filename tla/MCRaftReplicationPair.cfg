SPECIFICATION Spec
CONSTANTS
    Server = {s1, s2}
    Nil = Nil
    First = s1
    Unsteady = {s1, s2}
    MaxTerm = 2
    MaxWrites = 2
    MaxRestarts = 1
    MaxFailures = 1
INVARIANTS StateMachineSafety AckedSurvive
CHECK_DEADLOCK FALSE
