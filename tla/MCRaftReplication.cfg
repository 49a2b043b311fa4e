SPECIFICATION Spec
CONSTANTS
    Server = {s1, s2, s3}
    Nil = Nil
    First = s1
    Unsteady = {s3}
    MaxTerm = 1
    MaxWrites = 2
    MaxRestarts = 1
    MaxFailures = 0
INVARIANTS TypeOK StateMachineSafety MatchIsStored AckedOnLeaderDisk
