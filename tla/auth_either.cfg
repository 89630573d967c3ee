\* A static token next to OIDC with a required scope.
SPECIFICATION Spec
CONSTANTS
    Requests = {r1}
    Secrets = {"s1", "s2"}
    InlineToken <- Laptop
    Files = {"ci", "cron"}
    Claims <- SomeClaims
    RequiredScopes = {"mcp.access"}
    RequiredGroups = {"admins", "sre"}
INVARIANT PassesIfEitherAccepts
