SPECIFICATION FairSpec
CONSTANTS
    Threads <- ThreeThreads
    NoThread = NoThread
    NoName = NoName
    Autorun = "broken"
    ScrubQueueSize = 1
    LaunchQueueSize = 2
    StartNames = {"external", "broken"}
    DesktopNames = {"Apps", "unknown"}
    LaunchNames = {"internal", "broken"}
    RemoteQueries = {"Lock", "Signal", "GetLaunchPath"}
    MaxRemote = 1
    MaxDesktop = 1
    MaxStarts = 2
    MaxAppCalls = 2
INVARIANTS
    TypeOK
    ClosedOnce
    DesktopKnows
    PathIsCurrent
    InsomniaBalanced
PROPERTIES
    EmptyIsEmpty
    CallsReturn
    BrowserReturns
    QueueDrains
CHECK_DEADLOCK FALSE
