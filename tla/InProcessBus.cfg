SPECIFICATION Spec
CONSTANTS
    Topics <- MCTopics
    Handlers <- MCHandlers
    Capacity = 2
    MaxPublishes = 3
    MaxSubs = 2
    NoEnvelope = NoEnvelope
INVARIANTS
    FIFO
    NoSubscriberMissed
    CloseDrains
PROPERTIES
    QueuedIsHandled
    CloseTerminates
    DeliverySpec
