SPECIFICATION ViewSpec
CONSTANTS
    Fds = {4, 5, 6}
    ServerSock = 3
    MaxEvents = 1
    Words <- MCWords
    ChanNames <- MCChanNames
    ColonWords <- MCColonWords
    DropFirst <- MCDropFirst
    Underscore <- MCUnderscore
    ValidNicks <- MCNicks
    Atoi <- MCAtoi
    Password = "pw"
    Requests <- CrowdRequests
    Chunks <- Bursts
CHECK_DEADLOCK FALSE
INVARIANTS
    NicknamesUnique
    MembershipAgrees
    ViewsRight
PROPERTIES
    LastOperatorStays
