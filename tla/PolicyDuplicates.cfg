SPECIFICATION Spec
CONSTANTS
    Routes = {products}
    Rules <- MCRules
    Calls = {c1, c2, c3}
    NoRow = NoRow
    Faults = {}
    Requests = {r1}
    Claims <- MCClaims
    Perms <- MCPerms
    Granted <- MCGranted
    NoPerm = NoPerm
    NoRule = NoRule
    HasRedis = TRUE
    NoId = NoId
INVARIANTS
    SettledPolicy
