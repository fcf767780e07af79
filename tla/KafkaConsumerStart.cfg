SPECIFICATION SafeSpec
CONSTANTS
    Partitions = {p1}
    NumHandlers = 1
    StartFirst = TRUE
    Foreign = {}
    MaxLog = 1
    MaxSessions = 1
INVARIANTS
    UpMeansConsuming
