SPECIFICATION Spec
CONSTANTS
    Mod32 = 16
    Mod64 = 64
    UINT16_MAX = 4
    MaxPayload = 1
    InitialRTO = 1
    RTOCap = 1
    RetxCap = 2
    MAX_RETX_ATTEMPTS = 1
    SendCapacity = 2
    RecvCapacity = 2
    LingerFactor = 1
    TickMs = 1
    Opener = Opener
    Listener = Listener
    ISNs <- MCISNs
    StreamLens <- MCLongStream
    NetCap = 1
    MaxFaults = 0
INVARIANT WindowStartsAtAckno
CHECK_DEADLOCK FALSE
