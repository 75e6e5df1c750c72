SPECIFICATION Spec
CONSTANTS
    Mod32 = 8
    Mod64 = 64
    MaxPayload = 2
    InitialRTO = 2
    RTOCap = 8
    RetxCap = 3
    ISN = 6
    Capacity = 3
    StreamLen = 5
    WindowSizes = {0, 1, 4}
    TickSizes = {1, 2}
INVARIANTS
    TypeOK
    QueueCoversInFlight
    QueueIsStream
    BackoffMatchesRetransmissions
PROPERTIES
    WindowRespected
    PushLeavesNothing
