SPECIFICATION FairSpec
CONSTANTS
    r1 = r1
    r2 = r2
    MaxMessages = 2
    Malformed <- SecondMalformed
    PopBatch = 2
    ProcessLimit = 2
    MaxProcessAttempts = 2
    Requests <- TwoRequests
INVARIANTS
    EventsMatchMessages
    Conservation
PROPERTIES
    NoSilentDrop
    ImplementsDelivery
    RowsSettle
    QueueDrains
