SPECIFICATION Spec
CONSTANTS
    o1 = o1
    o2 = o2
    i1 = i1
    i2 = i2
    i3 = i3
    NULL = NULL
    Owner = owner
    Threads = {p}
    Objects = {o1}
    Items = {i1, i2}
    Kind <- OneQueue
    Capacity <- One
    Trigger <- One
    Modes <- BothModes
    MaxCalls = 2
    MaxPending = 2
    MaxTimerCommands = 1
    MaxRuns = 2
    MayStop = {owner, p}
    FlagSetters = {}
SYMMETRY ItemSymmetry
INVARIANTS
    NoLostWakeup
    PendingAfterTimers
CHECK_DEADLOCK FALSE
