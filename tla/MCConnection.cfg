SPECIFICATION FairSpec
CONSTANTS
    Symbols <- MCSymbols
    Upper <- MCUpper
    Scripts <- MCScripts
    Limit = 17
    AnswerLen = 2
    SendBuf = 3
    MaxRelays = 1
CHECK_DEADLOCK FALSE
INVARIANTS
    ConnectionTypeOK
    LinesExact
    NothingTwice
    AnswersInOrder
PROPERTIES
    LinesAnswered
