SPECIFICATION Spec
CONSTANTS
    Fds = {4, 5}
    ServerSock = 3
    MaxEvents = 1
    Words <- MCWords
    ChanNames <- MCChanNames
    ColonWords <- MCColonWords
    DropFirst <- MCDropFirst
    Underscore <- MCUnderscore
    ValidNicks <- MCNicks
    Atoi <- MCAtoi
    Password = "pw"
    Requests <- EntryRequests
    Chunks <- Bursts
CHECK_DEADLOCK FALSE
INVARIANTS
    KeysAligned
PROPERTIES
    EntryControlled
    UndefinedOnlyWhenShort
