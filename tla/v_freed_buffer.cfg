SPECIFICATION Spec
CONSTANTS
    boot = boot
    app = app
    None = None
    Serials = {usart, lpuart}
    Callers <- TwoCallers
    Clients <- TwoClients
    Boot = boot
    SerialQueueSize = 8
    QueueSize = 8
    MaxPulses = 2
    MaxMounts = 1
    MaxCalls = 1
INVARIANT RxBufferLives
CHECK_DEADLOCK FALSE
