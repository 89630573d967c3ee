\* Each of the listing tools, over two namespaces or one of them.
SPECIFICATION Spec
CONSTANTS
    Namespaces <- TwoNamespaces
    Apps = {"web", "api"}
    Projects = {"default"}
    Sets = {"tenants"}
    Statuses = {"Synced", "OutOfSync"}
INVARIANTS
    TypeOK
    ListingIsComplete
    OwnedIsBracketed
\* The call is over when it is answered.
CHECK_DEADLOCK FALSE
