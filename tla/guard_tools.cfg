\* The guard and each of the write tools.
SPECIFICATION GuardedSpec
CONSTANTS
    Calls = {c1, c2}
    Instances = {"local"}
    DefaultInstance = "local"
    Params <- ConcurrentParams
    Settings <- OneSetting
    OtherOperations <- SyncAndRollback
    MaxOther = 0

INVARIANT GuardLetsTheToolsWork
\* The calls are few: once they are answered the system may stop.
CHECK_DEADLOCK FALSE
