SPECIFICATION Spec
CHECK_DEADLOCK FALSE
CONSTANTS
    Key = {k1}
    Nil = Nil
    LogSize = 2
    BlockSize = 2
    HeaderSize = 1
    StartPos = 1
    MaxPuts = 4
    MaxCrashes = 2
    MaxErrors = 1
    CrashPhases = {"idle", "failed", "append1", "append2", "append",
        "create", "write", "sync", "delete", "unmap1", "unmap2", "unmap", "super"}
    MayStop = TRUE
PROPERTIES PutsAreWritten
