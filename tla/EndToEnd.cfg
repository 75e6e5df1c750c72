SPECIFICATION FairSpec
CONSTANTS
    Mod8 = 4
    Mod16 = 16
    Mod32 = 16
    Mod64 = 32
    DEFAULT_TTL = 3
    BROADCAST = "broadcast"
    RTO_map = 1
    RTO_arp = 1
    AddrBits = 4
    HostIP = 9
    HostSideIP = 8
    InternetSideIP = 5
    RemoteIP = 4
    HostEther = "h"
    HostSideEther = "hs"
    InternetSideEther = "is"
    RemoteEthers <- MCRemoteEthers
    Server <- MCServer
    Arrivals <- MCArrivals
    Routes <- MCRoutes
    MaxFaults = 1
    WireCap = 1
INVARIANTS
    HeadersAccepted
    OneConnection
    MappingsTrue
    LongestPrefix
PROPERTY Conversation
