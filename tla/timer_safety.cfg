SPECIFICATION Spec
CONSTANTS
    Timers = {t1, t2}
    Periodic = {t2}
    NoTimer = NoTimer
    TickEvent = TickEvent
    Wrap = 5
    Intervals = {1, 2}
    TickIntervals = {2}
    MaxCalls = 1
    MaxLate = 1
VIEW RelativeTime
INVARIANTS
    TypeOK
    TimersLive
    FrontExpiresFirst
    WakesInTime
    FreeFindsNoTimer
PROPERTIES
    CommandsComeFirst
    PeriodsAreSkipped
CHECK_DEADLOCK FALSE
