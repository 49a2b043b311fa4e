SPECIFICATION Spec
CHECK_DEADLOCK FALSE
CONSTANTS
    Key = {k1, k2}
    Nil = Nil
    LogSize = 2
    BlockSize = 2
    HeaderSize = 1
    StartPos = 1
    MaxPuts = 6
    MaxCrashes = 2
    MaxErrors = 0
    CrashPhases = {"idle", "append", "unmap", "super"}
    MayStop = FALSE
INVARIANTS TypeOK WholeLogTrimmed
PROPERTIES RestartKeepsCommits ImplementsMap
