SPECIFICATION Spec
CONSTANTS
    Fds = {4, 5}
    ServerSock = 3
    MaxEvents = 1
    Words <- MCWords
    ChanNames <- MCChanNames
    ColonWords <- MCColonWords
    DropFirst <- MCDropFirst
    Underscore <- MCUnderscore
    ValidNicks <- MCNicks
    Atoi <- MCAtoi
    Password = "pw"
    Requests <- GhostRequests
    Chunks <- ShortBursts
CHECK_DEADLOCK FALSE
PROPERTY
    ShortUserAnswered
