SPECIFICATION RunSpec
CONSTANTS
    Options <- Repeating
    ServerToks = {}
    SendCap = 1
    RecvCap = 1
    NetCap = 1
    MaxTyped = 1
PROPERTY RepeatsSent
