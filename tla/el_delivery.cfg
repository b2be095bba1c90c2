SPECIFICATION FairSpec
CONSTANTS
    o1 = o1
    o2 = o2
    i1 = i1
    i2 = i2
    i3 = i3
    NULL = NULL
    Owner = owner
    Threads = {p}
    Objects = {o1, o2}
    Items = {i1, i2}
    Kind <- StreamAndFlag
    Capacity <- TwoOne
    Trigger <- TwoOne
    Modes <- LevelModes
    MaxCalls = 1
    MaxPending = 0
    MaxTimerCommands = 0
    MaxRuns = 1
    MayStop = {p}
    FlagSetters = {}
PROPERTIES
    DeliverySpec
    StopEndsRun
CHECK_DEADLOCK FALSE
