SPECIFICATION Spec
CONSTANTS
    Fds = {4, 5}
    ServerSock = 3
    MaxEvents = 2
    Words <- MCWords
    ChanNames <- MCChanNames
    ColonWords <- MCColonWords
    DropFirst <- MCDropFirst
    Underscore <- MCUnderscore
    ValidNicks <- MCNicks
    Atoi <- MCAtoi
    Password = "pw"
    Requests <- MembershipRequests
    Chunks <- Bursts
CHECK_DEADLOCK FALSE
INVARIANTS
    MembershipAgrees
    NoDuplicates
    OperatorsAreMembers
PROPERTIES
    NoChannelEmptied
