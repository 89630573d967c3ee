\* A caller follows its operation amid another caller and another client.
SPECIFICATION FollowedSpec
CONSTANTS
    Calls = {c1, c2}
    Followers = {c1}
    Instances = {"local"}
    DefaultInstance = "local"
    Params <- FollowedParams
    Settings <- OneSetting
    OtherOperations <- Theirs
    MaxOther = 1
    WaitParams <- QuickWait
    MaxTime = 3
INVARIANTS
    ReachedAfterTheOperation
    OperationIsOneRequest
\* The calls are few and the clock stops: then the system may stop.
CHECK_DEADLOCK FALSE
