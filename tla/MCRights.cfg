SPECIFICATION Spec
CONSTANTS
    Fds = {4, 5}
    ServerSock = 3
    MaxEvents = 1
    Words <- MCWords
    ChanNames <- MCChanNames
    ColonWords <- MCColonWords
    DropFirst <- MCDropFirst
    Underscore <- MCUnderscore
    ValidNicks <- MCNicks
    Atoi <- MCAtoi
    Password = "pw"
    Requests <- RightsRequests
    Chunks <- Bursts
CHECK_DEADLOCK FALSE
INVARIANTS
    TypeOK
    ModeByOperator
PROPERTIES
    RuledByOperators
    LastOperatorStays
    UndefinedOnlyWhenShort
    ImplementsChatRooms
