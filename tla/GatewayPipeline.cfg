SPECIFICATION Spec
CONSTANTS
    Routes = {products, orders}
    Rules <- MCRules
    Calls = {c1, c2, c3}
    NoRow = NoRow
    Faults = {"read", "write", "reply", "crash", "lookup", "policy", "permission", "redis"}
    Requests = {r1}
    Claims <- MCClaims
    Perms <- MCPerms
    Granted <- MCGranted
    NoPerm = NoPerm
    NoRule = NoRule
    HasRedis = TRUE
    NoId = NoId
SYMMETRY GatewaySymmetry
INVARIANTS
    NoPhantomEvents
    LookupCurrent
    PolicyEnforced
    OnlyPermittedCount
