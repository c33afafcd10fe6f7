SPECIFICATION Spec
CONSTANTS
    Packet <- MCPacket
    Name <- MCName
    KeyId <- MCKeyId
    Hash <- MCHash
    Lifetime <- MCLifetime
    LinkID <- TwoLinks
    Arrival <- ContentArrivals
    Transport = "UDP"
    MTU = 3
    SocketBuffer = 1
    ReceiveErrors = FALSE
    NoPacket = NoPacket
    Outgoing <- MCOutgoing
    Listings <- BothOnly
    VaJunk <- NoJunk
    MaxSteps = 2
INVARIANTS
    ReceivedContentIsWhatWasSent
CHECK_DEADLOCK FALSE
