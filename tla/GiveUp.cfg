SPECIFICATION Spec
CONSTANTS
    Mod32 = 16
    Mod64 = 64
    UINT16_MAX = 4
    MaxPayload = 1
    InitialRTO = 1
    RTOCap = 4
    RetxCap = 4
    MAX_RETX_ATTEMPTS = 3
    SendCapacity = 2
    RecvCapacity = 2
    LingerFactor = 1
    TickMs = 1
    Opener = Opener
    Listener = Listener
    ISNs <- MCISNs
    StreamLens <- MCStreamLens
    NetCap = 2
    MaxFaults = 0
INVARIANT GivesUpRetransmitting
CHECK_DEADLOCK FALSE
