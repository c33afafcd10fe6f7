SPECIFICATION E2ESpec
CONSTANTS
    Packet <- MCPacket
    Name <- MCName
    KeyId <- MCKeyId
    Hash <- MCHash
    Lifetime <- MCLifetime
    LinkID <- AllLinks
    Arrival <- MCPacket
    Transport = "UDP"
    MTU = 3
    SocketBuffer = 1
    ReceiveErrors = FALSE
    NoPacket = NoPacket
    Outgoing <- MCPacket
    Listings <- None
    VaJunk <- None
    MaxSteps = 6
    Lists <- WholeSuite
    Traffic <- NoTraffic
    Grace = 1000
    FaultsTried <- Correct
INVARIANTS
    CorrectForwarderPasses
CHECK_DEADLOCK FALSE
