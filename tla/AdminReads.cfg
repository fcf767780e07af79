SPECIFICATION Spec
CONSTANTS
    Clients = {c1, c2}
    Readers = {c1}
    Watched = c1
    Keys <- MCKeys
    Named <- MCNamed
    Makes <- MCMakes
    Seed <- MCSeed
    Pages <- MCPages
    PerPages <- MCPerPages
    MaxInt = 15
    DefaultPerPage = 2
    MaxPerPage = 2
    MaxRows = 11
    Faults = {"count", "select", "cut", "read", "write"}
    None = None
    Bad = Bad
INVARIANTS
    WalkSeesAll
    RevokedKeysRefused
