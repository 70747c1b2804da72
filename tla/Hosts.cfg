SPECIFICATION HangupSpec
CONSTANTS
    c1 = c1
    c2 = c2
    Clients <- OneClient
    Backend = Backend
    Listener = Listener
    Freed = Freed
    NULL = NULL
    ClientToks = {"req", "data"}
    BackendFrags = {}
    SendCap = 1
    RecvCap = 1
    NetCap = 1
    FhostnameNum = 2
    MaxSk = 1
    IdleTimeout = FALSE
    PingInterval = FALSE
    Booted = FALSE
INVARIANT TypeOK
PROPERTY
    DeadPeerReaped
