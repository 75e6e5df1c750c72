SPECIFICATION FairSpec
CONSTANTS
    Mod32 = 16
    Mod64 = 64
    UINT16_MAX = 4
    MaxPayload = 2
    InitialRTO = 1
    RTOCap = 1
    RetxCap = 1
    SendCapacity = 2
    RecvCapacity = 1
    LingerFactor = 1
    TickMs = 1
    Opener = Opener
    Listener = Listener
    ISNs <- MCISNs
    StreamLens <- MCStreamLens
    NetCap = 1
    MaxFaults = 2
PROPERTIES
    HandshakeCompletes
    BytesArrive
    EndArrives
CHECK_DEADLOCK FALSE
