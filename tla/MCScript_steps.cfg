SPECIFICATION FairSpec
CONSTANTS
    Packet <- MCPacket
    Name <- MCName
    KeyId <- MCKeyId
    Hash <- MCHash
    Lifetime <- MCLifetime
    LinkID <- TwoLinks
    Arrival <- FewArrivals
    Transport = "UDP"
    MTU = 3
    SocketBuffer = 1
    ReceiveErrors = TRUE
    NoPacket = NoPacket
    Outgoing <- MCOutgoing
    Listings <- AllListings
    VaJunk <- NoJunk
    MaxSteps = 3
INVARIANTS
    TypeOK
    NeverCrashes
    VerdictIsEvidence
    ReasonIsEvidence
    AcceptedInterestsLostOneHop
    ResponsesReturnToReceivers
PROPERTIES
    RefinesPromise
    NothingSentAfterFailure
    ExecutionReturns
CHECK_DEADLOCK FALSE
