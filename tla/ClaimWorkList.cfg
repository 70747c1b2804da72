SPECIFICATION Spec
CONSTANTS
    c1 = c1
    c2 = c2
    Clients <- OneClient
    Backend = Backend
    Listener = Listener
    Freed = Freed
    NULL = NULL
    ClientToks = {"req", "data"}
    BackendFrags = {"frag"}
    SendCap = 2
    RecvCap = 2
    NetCap = 1
    FhostnameNum = 1
    MaxSk = 1
    IdleTimeout = FALSE
    PingInterval = FALSE
    Booted = TRUE
INVARIANT WorkListNotFreed
