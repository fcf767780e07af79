SPECIFICATION SafeSpec
CONSTANTS
    Partitions = {p1}
    NumHandlers = 1
    StartFirst = FALSE
    Foreign = {}
    MaxLog = 2
    MaxSessions = 1
INVARIANTS
    AtLeastOnce
