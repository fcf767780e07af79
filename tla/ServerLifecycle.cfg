SPECIFICATION Spec
CONSTANTS
    Writes = {w1, w2}
    Probes = {p1}
    Topics <- MCTopics
    Log = Log
    Capacity = 1
    MaxPublishes = 2
    KafkaEnabled = TRUE
    Signals = TRUE
INVARIANTS
    GracefulIsClean
    EventsBeforeStores
    NoFalseFailure
PROPERTIES
    ExitsAfterSignal
