\* A caller follows its operation on an Application whose previous one failed.
SPECIFICATION FollowedSpec
CONSTANTS
    Calls = {c1, c2}
    Followers = {c1}
    Instances = {"local"}
    DefaultInstance = "local"
    Params <- FollowedParams
    Settings <- OneSetting
    OtherOperations <- Theirs
    MaxOther = 0
    WaitParams <- QuickWait
    MaxTime = 3
INVARIANT FailureIsOfTheOperation
\* The calls are few and the clock stops: then the system may stop.
CHECK_DEADLOCK FALSE
