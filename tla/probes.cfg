\* Two instances that come and go, under fairness of the loops, not of the
\* clusters.
SPECIFICATION FairSpec
CONSTANTS
    Instances = {"local", "remote"}
    Order <- InOrder
    Namespaces = {"argocd"}
    Primary = "argocd"
INVARIANTS
    TypeOK
    SafeOnlyIfRejected
PROPERTIES
    MissingIsReported
    ReachabilityIsReported
