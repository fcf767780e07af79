SPECIFICATION Spec
CONSTANTS
    Partitions <- MCPartitions
    NumHandlers = 2
    StartFirst = FALSE
    Foreign <- MCForeign
    MaxLog = 2
    MaxSessions = 2
INVARIANTS
    NothingSkipped
    TriedInOrder
    OncePerProcess
PROPERTIES
    CommittedIsPast
    EventuallyTried
    CloseTerminates
