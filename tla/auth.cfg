\* Two requests while token files are rotated.
SPECIFICATION Spec
CONSTANTS
    Requests = {r1, r2}
    Secrets = {"s1", "s2"}
    InlineToken <- Laptop
    Files = {"ci", "cron"}
    Claims <- SomeClaims
    RequiredScopes = {"mcp.access"}
    RequiredGroups = {"admins", "sre"}
SYMMETRY RequestSymmetry
INVARIANTS
    TypeOK
    ServedHeldTheToken
    HolderIsNotUnauthorized
    AttemptsAddUp
PROPERTY GoodJwtIsServed
