SPECIFICATION LinkSpec
CONSTANTS
    Handle <- TwoLinks
    Peer = {x, y}
    NoPeer = NoPeer
    Parts = 2
    MTU = 1
    MaxConnections = 2
    Occupied <- NoPorts
    MayFail <- AllFailures
    MayHangUp = TRUE
    LinkTypes <- AllTypes
    Ports <- OnePort
    MaxFd = 4
    QueueLimit = 2
    Writes = 1
SYMMETRY EitherPeer
INVARIANTS
    LinkTypeOK
    DescriptorsMatchLinks
PROPERTIES
    ImplementsChannel
CHECK_DEADLOCK FALSE
