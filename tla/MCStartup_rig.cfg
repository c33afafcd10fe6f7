SPECIFICATION StartupFairSpec
CONSTANTS
    Handle <- Handles
    Peer <- Peers
    NoPeer = NoPeer
    Parts = 1
    MTU = 1
    MaxConnections = 3
    Occupied <- TakenPort
    MayFail <- Failures
    MayHangUp = TRUE
    LinkTypes <- NoTypes
    Ports <- NoPorts
    MaxFd = 6
    QueueLimit = 1
    Writes = 1
    Commands <- CommandLines
    Leftover <- AnyType
    Dialled <- Links9696
    Talkers <- OneTalker
    Tests = 2
INVARIANTS
    StartupTypeOK
    LinksAreOnTheirPorts
    TypedRigHasItsLinks
PROPERTIES
    StartsUp
    FlushEnds
CHECK_DEADLOCK FALSE
