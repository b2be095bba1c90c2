SPECIFICATION Spec
CONSTANTS
    Threads <- ThreeThreads
    NoThread = NoThread
    NoName = NoName
    Autorun = "broken"
    ScrubQueueSize = 1
    LaunchQueueSize = 1
    StartNames = {"external", "broken"}
    DesktopNames = {"Apps", "unknown"}
    LaunchNames = {"internal", "broken"}
    RemoteQueries = {"Lock", "Signal", "IsLocked", "GetLaunchPath"}
    MaxRemote = 1
    MaxDesktop = 1
    MaxStarts = 2
    MaxAppCalls = 2
INVARIANT ScrubbedIsAllocated
CHECK_DEADLOCK FALSE
