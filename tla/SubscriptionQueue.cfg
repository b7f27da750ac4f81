CONSTANTS
    QueueCap = 3
    MaxChunks = 6
SPECIFICATION FairSpec
INVARIANTS
    ChunksInOrder
PROPERTIES
    CloseEndsConsumer
