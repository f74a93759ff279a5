SPECIFICATION FairSpec
CONSTANTS
    Blocks = {b1, b2, b3}
    Anchor = anchor
    Limit = 2
    Ready = 2
    MaxCount = 3
    MaxQueue = 1
    MaxPosts = 2
    MaxStrays = 1
CHECK_DEADLOCK FALSE
INVARIANTS TypeOK ListIsWhole FrameHasOneHolder
PROPERTIES BacklogGrowsOnlyByStarts CallStarts
