SPECIFICATION Spec
CONSTANTS
    Keys = {"Up"}
    GuiQueueSize = 1
    MaxPresses = 3
    NoPort = NoPort
    LeftHanded = FALSE
    MaxOthers = 0
    v1 = v1
    v2 = v2
    v3 = v3
    Views = {v1, v3}
    NoView = NoView
    FirstView = v1
    ViewOrientation <- UprightAndTurned
    QueueSize = 3
    MaxCalls = 1
    MaxRuns = 1
INVARIANTS
    NoLockup
CHECK_DEADLOCK FALSE
