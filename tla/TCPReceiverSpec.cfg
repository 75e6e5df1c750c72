SPECIFICATION Spec
CONSTANTS
    Mod32 = 8
    Mod64 = 64
    UINT16_MAX = 3
    StreamLen = 9
    Capacity = 4
    PeerISN = 5
INVARIANTS
    TypeOK
    AckedHasArrived
    WindowIsHonest
PROPERTY PromisesKept
