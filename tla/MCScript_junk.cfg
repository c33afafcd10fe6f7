SPECIFICATION Spec
CONSTANTS
    Packet <- MCPacket
    Name <- MCName
    KeyId <- MCKeyId
    Hash <- MCHash
    Lifetime <- MCLifetime
    LinkID <- TwoLinks
    Arrival <- PassingArrivals
    Transport = "UDP"
    MTU = 3
    SocketBuffer = 1
    ReceiveErrors = FALSE
    NoPacket = NoPacket
    Outgoing <- MCOutgoing
    Listings <- AllListings
    VaJunk <- Junk
    MaxSteps = 2
INVARIANTS
    PollsOnlyListedLinks
CHECK_DEADLOCK FALSE
