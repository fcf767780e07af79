SPECIFICATION Spec
CONSTANTS
    Requests = {r1, r2, r3, r4}
    Apps = {a1}
    Endpoints = {e1, e2}
    Limit = 2
    Window = 2
    Retries = 1
    MaxTime = 3
    Faulty = {r1, r2}
INVARIANTS
    LimitPerWindow
    DeniedOnlyWhenFull
    BurstBound
    ExpiryArmed
SYMMETRY LimiterSymmetry
