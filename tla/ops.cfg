\* Two callers and another client on two instances, each read-only or not and
\* with the write guard enforced or not.
SPECIFICATION MeteredSpec
CONSTANTS
    Calls = {c1, c2}
    Instances = {"local", "remote"}
    DefaultInstance = "local"
    Params <- MeteredParams
    Settings <- Automatic
    OtherOperations <- SyncAndRollback
    MaxOther = 1
    WordsIn <- ReadOnlyDemo
SYMMETRY CallSymmetry
INVARIANTS
    TypeOK
    AttributionConsistent
    ReadOnlyUntouched
    OperationsMetricBracketsWrites
    SourceOverridesAreOthers
    LabelsAgreeWithCounters
PROPERTY ImplementsPromise
\* The calls are few: once they are answered the system may stop.
CHECK_DEADLOCK FALSE
