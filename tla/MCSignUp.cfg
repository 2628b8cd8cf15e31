SPECIFICATION FairSpec
CONSTANTS
    Fds = {4, 5}
    ServerSock = 3
    MaxEvents = 2
    Words <- MCWords
    ChanNames <- MCChanNames
    ColonWords <- MCColonWords
    DropFirst <- MCDropFirst
    Underscore <- MCUnderscore
    ValidNicks <- MCNicks
    Atoi <- MCAtoi
    Password = "pw"
    Requests <- SignUpRequests
    Chunks <- BadBursts
CHECK_DEADLOCK FALSE
INVARIANTS
    TypeOK
    NicknamesUnique
    MembersAreRegistered
    ConnectionsHaveClients
PROPERTY
    BuffersSent
