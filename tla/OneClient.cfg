SPECIFICATION Spec
SYMMETRY ClientSymmetry
CONSTRAINT OneSession
CONSTANTS
    c1 = c1
    c2 = c2
    Clients <- TwoClients
    Backend = Backend
    Listener = Listener
    Freed = Freed
    NULL = NULL
    ClientToks = {"req", "badreq", "data", "close", "pongp", "frag"}
    BackendFrags = {"frag"}
    SendCap = 1
    RecvCap = 2
    NetCap = 1
    FhostnameNum = 1
    MaxSk = 1
    IdleTimeout = TRUE
    PingInterval = FALSE
    Booted = FALSE
INVARIANTS
    NoStrandedInput
    NoStrandedOutput
    OnReadAssertsHold
    WorkListOpen
PROPERTY
    OneCloseFrame
    CrashCauses
    ImplementsMux
