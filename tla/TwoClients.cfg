SPECIFICATION Spec
SYMMETRY ClientSymmetry
CONSTRAINT Calm
CONSTANTS
    c1 = c1
    c2 = c2
    Clients <- TwoClients
    Backend = Backend
    Listener = Listener
    Freed = Freed
    NULL = NULL
    ClientToks = {"req", "data"}
    BackendFrags = {}
    SendCap = 1
    RecvCap = 1
    NetCap = 1
    FhostnameNum = 1
    MaxSk = 2
    IdleTimeout = FALSE
    PingInterval = FALSE
    Booted = FALSE
INVARIANT
    NoStrandedOutput
PROPERTY
    ImplementsMux
