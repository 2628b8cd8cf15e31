SPECIFICATION Spec
CONSTANTS
    Symbols <- MCSymbols
    Upper <- MCUpper
    Scripts <- TwoLines
    Limit = 9
    AnswerLen = 2
    SendBuf = 3
    MaxRelays = 1
CHECK_DEADLOCK FALSE
INVARIANT
    LinesAreMessages
