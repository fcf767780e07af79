SPECIFICATION Spec
CONSTANTS
    Calls = {c1, c2, c3}
    Old <- MCOld
    Seed <- MCSeed
    Names <- MCNames
    Folded <- MCFolded
    None = None
    Faults = {"read", "write", "reply", "crash"}
SYMMETRY TenancySymmetry
INVARIANTS
    UniqueNames
    CreatedIsThere
    TakenIsTrue
PROPERTIES
    UntouchedUnlessRaced
    OnlyByItsOrg
