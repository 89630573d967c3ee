\* Every kind of instance, alone and next to an in-cluster one, and every kind
\* of agent authentication, each with every override of the environment; texts
\* that do and do not parse or decode, and kubeconfigs that say this and that.
SPECIFICATION StartupSpec
CONSTANTS
    FileConfigs <- AllConfigs
    Environments <- AllEnv
    DNSLabels = {"local", "remote", "kube", "argocd", "team"}
    URIs <- SomeURIs
    Addresses = {"https://api"}
    Certificates <- SomeCertificates
    Kubeconfigs <- SomeKubeconfigs
INVARIANTS
    OneWayIn
    FailsOnlyForTheUnchecked
    ClientsUseWhatWarningsSay
    NamespacesOnce
    VerifiersAsConfigured
\* Startup ends: the server runs, or it does not.
CHECK_DEADLOCK FALSE
