SPECIFICATION RunSpec
CONSTANTS
    Options <- CommandLines
    ServerToks = {"close", "pingp"}
    SendCap = 2
    RecvCap = 2
    NetCap = 1
    MaxTyped = 2
INVARIANTS
    TypeOK
    StdinInOrder
    OutputAnnounced
    TlsHandshakeWaits
PROPERTIES
    OneCloseFrame
    CrashCauses
    EndsWithServer
    EndsWhenClosed
