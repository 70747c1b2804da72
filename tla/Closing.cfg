SPECIFICATION ClosingSpec
CONSTANTS
    c1 = c1
    c2 = c2
    Clients <- OneClient
    Backend = Backend
    Listener = Listener
    Freed = Freed
    NULL = NULL
    ClientToks = {"req", "badtok", "badreq", "close", "ping", "pong", "bad", "unknownp"}
    BackendFrags = {"hdr"}
    SendCap = 2
    RecvCap = 1
    NetCap = 1
    FhostnameNum = 1
    MaxSk = 1
    IdleTimeout = TRUE
    PingInterval = TRUE
    Booted = FALSE
PROPERTY
    ClosingEnds
    EventLoopTurns
    CrashCauses
