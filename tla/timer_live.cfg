SPECIFICATION Spec
CONSTANTS
    Timers = {t1, t2}
    Periodic = {t2}
    NoTimer = NoTimer
    TickEvent = TickEvent
    Wrap = 3
    Intervals = {1}
    TickIntervals = {}
    MaxCalls = 1
    MaxLate = 0
PROPERTIES
    TimerFires
CHECK_DEADLOCK FALSE
