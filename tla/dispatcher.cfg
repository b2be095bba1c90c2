SPECIFICATION FairSpec
CONSTANTS
    Keys = {"Up", "Back"}
    GuiQueueSize = 1
    MaxPresses = 2
    NoPort = NoPort
    LeftHanded = FALSE
    MaxOthers = 1
    v1 = v1
    v2 = v2
    v3 = v3
    Views = {v1, v2, v3}
    NoView = NoView
    FirstView = v1
    ViewOrientation <- OneTurned
    QueueSize = 16
    MaxCalls = 1
    MaxRuns = 2
INVARIANTS
    TypeOK
    NoStuckKey
    ViewsSeeRelease
    PortLives
    ViewLives
PROPERTIES
    RunReturns
CHECK_DEADLOCK FALSE
