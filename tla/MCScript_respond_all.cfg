SPECIFICATION Spec
CONSTANTS
    Packet <- MCPacket
    Name <- MCName
    KeyId <- MCKeyId
    Hash <- MCHash
    Lifetime <- MCLifetime
    LinkID <- TwoLinks
    Arrival <- PassingArrivals
    Transport = "UDP"
    MTU = 3
    SocketBuffer = 1
    ReceiveErrors = FALSE
    NoPacket = NoPacket
    Outgoing <- MCOutgoing
    Listings <- BothOnly
    VaJunk <- NoJunk
    MaxSteps = 3
INVARIANTS
    RespondReachesAllReceivers
CHECK_DEADLOCK FALSE
