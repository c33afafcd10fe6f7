SPECIFICATION SuiteFairSpec
CONSTANTS
    Packet <- MCPacket
    Name <- MCName
    KeyId <- MCKeyId
    Hash <- MCHash
    Lifetime <- MCLifetime
    LinkID <- AllLinks
    Arrival <- MCPacket
    Transport = "UDP"
    MTU = 3
    SocketBuffer = 2
    ReceiveErrors = FALSE
    NoPacket = NoPacket
    Outgoing <- MCPacket
    Listings <- NoListings
    VaJunk <- NoJunk
    MaxSteps = 6
    Lists <- TwoTests
    Traffic <- OwnTraffic
INVARIANTS
    SuiteTypeOK
    FlushDropsTheLastTest
PROPERTIES
    RunAllEnds
CHECK_DEADLOCK FALSE
