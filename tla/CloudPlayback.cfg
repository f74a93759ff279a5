SPECIFICATION FairSpec
CONSTANTS
    NSlots = 7
    PerMinute = 2
    PerHour = 3
    PerDay = 1
    LastTime = 6
    Trials <- MCTrials
    MaxEvents = 1
    Kind <- MCKind
    Conns = {c1}
    NSessions = 2
    Frames = 2
INVARIANTS TypeOK SlotsAreKept LeftoverIsOne PagesCoverTheDay PlaysTheMinuteAskedFor TaskHasItsSession
PROPERTIES CallbackReturns GoneConnectionIsLeft
