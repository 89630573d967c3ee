\* Two callers, normal and hard, with and without waiting, with a wait that ends
\* on a poll and one whose last sleep passes the deadline; fairness of the
\* handlers and the clock, not of the controller.
SPECIFICATION FairSpec
CONSTANTS
    Calls = {c1, c2}
    Params <- SomeKinds
    MaxTime = 4
INVARIANTS
    TypeOK
    CompletedSawReconcile
    WaitsBarelyLonger
    PendingIsHonest
    HardOnlyLostToNormal
    OperationsCountPatches
PROPERTIES
    ImplementsPromise
    EveryRefreshAnswered
\* The calls are few and the clock stops: then the system may stop.
CHECK_DEADLOCK FALSE
