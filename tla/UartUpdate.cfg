SPECIFICATION FairSpec
CONSTANTS
    Blocks = 2
    Unit = 1
    Buffer = 11
    Garbled <- MCGarbled
    MaxLost = 1
    MaxRestarts = 1
    MaxReady = 2
    MaxPending = 2
INVARIANTS TypeOK OneDirectionAtATime FrameEnds DeletedWhenDelivered
PROPERTIES UpdateEnds
