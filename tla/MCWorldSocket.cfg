SPECIFICATION FairSpec
CONSTANTS
    s1 = s1
    None = None
    Sockets <- MCSockets
    LogAllPackets = TRUE
    MaxBuffered = 2
INVARIANTS
    SessionsInUseAreAlive
    OneReadAtATime
PROPERTIES
    RefusedSocketsClose
    ClosedSocketsAreLetGo
CHECK_DEADLOCK FALSE
