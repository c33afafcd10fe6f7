SPECIFICATION SuiteSpec
CONSTANTS
    Packet <- MCPacket
    Name <- MCName
    KeyId <- MCKeyId
    Hash <- MCHash
    Lifetime <- MCLifetime
    LinkID <- AllLinks
    Arrival <- MCPacket
    Transport = "UDP"
    MTU = 3
    SocketBuffer = 1
    ReceiveErrors = FALSE
    NoPacket = NoPacket
    Outgoing <- MCPacket
    Listings <- NoListings
    VaJunk <- BadBits
    MaxSteps = 6
    Lists <- EachTest
    Traffic <- BadTraffic
INVARIANTS
    CrashesOnPickedUpBits
    PassesOnOwnInterest
CHECK_DEADLOCK FALSE
