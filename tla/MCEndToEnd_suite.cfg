SPECIFICATION E2EFairSpec
CONSTANTS
    Packet <- MCPacket
    Name <- MCName
    KeyId <- MCKeyId
    Hash <- MCHash
    Lifetime <- MCLifetime
    LinkID <- AllLinks
    Arrival <- MCPacket
    Transport = "TCP"
    MTU = 3
    SocketBuffer = 1
    ReceiveErrors = FALSE
    NoPacket = NoPacket
    Outgoing <- MCPacket
    Listings <- None
    VaJunk <- None
    MaxSteps = 6
    Lists <- WholeSuite
    Traffic <- NoTraffic
    Grace = 1000
    FaultsTried <- Faulty
INVARIANTS
    CorrectForwarderPasses
    FaultyForwarderIsCaught
PROPERTIES
    EndsEveryRun
CHECK_DEADLOCK FALSE
