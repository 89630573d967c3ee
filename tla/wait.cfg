\* One waiter on an Application that may do anything, under fairness of its
\* handler and the clock.
SPECIFICATION FairSpec
CONSTANTS
    Waiters = {w1}
    WaitParams <- ShortWaits
    MaxTime = 6
INVARIANTS
    TypeOK
    NeverOutlastsTimeout
PROPERTY EveryWaitEnds
\* The calls are few and the clock stops: then the system may stop.
CHECK_DEADLOCK FALSE
