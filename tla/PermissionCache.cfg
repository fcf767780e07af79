SPECIFICATION CacheSpec
CONSTANTS
    Users = {u1}
    Orgs = {o1, o2}
    Roles <- MCRoles
    Perms <- MCPerms
    RolePerms <- MCRolePerms
    Checks = {c1}
    Assigners = {a1, a2}
    Faults = {"get", "set", "del", "query", "reply", "crash"}
INVARIANTS
    CacheSound
    NoUndueGrant
    FirstRoleAtOnce
PROPERTIES
    GrantsTakeEffect
