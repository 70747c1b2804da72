SPECIFICATION Spec
CONSTANTS
    Receivers = {"wsd", "wscat", "pp2"}
    Cap <- RecvBuffers
    SendCap <- SendBuffers
    Max7 = 1
    Max16 = 3
    Lens = {0, 2, 4, 15}
    MaxFrames = 2
\* The sender may stop sending.
CHECK_DEADLOCK FALSE
INVARIANT
    TypeOK
PROPERTIES
    SyncLostBy
    ClosedBy
    OverrunBy
    FramesDecoded
