SPECIFICATION Spec
CONSTANTS
    o1 = o1
    o2 = o2
    i1 = i1
    i2 = i2
    i3 = i3
    NULL = NULL
    Owner = owner
    Threads = {p}
    Objects = {o1, o2}
    Items = {i1, i2, i3}
    Kind <- QueueAndMutex
    Capacity <- OneOne
    Trigger <- OneOne
    Modes <- BothModes
    MaxCalls = 2
    MaxPending = 0
    MaxTimerCommands = 0
    MaxRuns = 1
    MayStop = {owner}
    FlagSetters = {p}
SYMMETRY ItemSymmetry
INVARIANTS
    TypeOK
    ItemsLive
    NoLostWakeup
    LevelNotLost
    ThreadFlagAnswered
CHECK_DEADLOCK FALSE
