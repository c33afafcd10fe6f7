SPECIFICATION StartupFairSpec
CONSTANTS
    Handle <- Handles
    Peer <- Peers
    NoPeer = NoPeer
    Parts = 1
    MTU = 1
    MaxConnections = 3
    Occupied <- NoPorts
    MayFail <- NoFailures
    MayHangUp = TRUE
    LinkTypes <- NoTypes
    Ports <- NoPorts
    MaxFd = 6
    QueueLimit = 1
    Writes = 1
    Commands <- Documented
    Leftover <- AnyType
    Dialled <- NoLinks
    Talkers <- OneTalker
    Tests = 2
PROPERTIES
    CommandLineIsParsed
CHECK_DEADLOCK FALSE
