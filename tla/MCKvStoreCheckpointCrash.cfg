SPECIFICATION Spec
CHECK_DEADLOCK FALSE
CONSTANTS
    Key = {k1, k2}
    Nil = Nil
    LogSize = 2
    BlockSize = 2
    HeaderSize = 1
    StartPos = 1
    MaxPuts = 4
    MaxCrashes = 1
    MaxErrors = 0
    CrashPhases = {"create", "write"}
    MayStop = FALSE
PROPERTIES RestartKeepsCommits
