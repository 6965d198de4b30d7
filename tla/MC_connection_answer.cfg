CONSTANTS
    HeaderSize = 2
    BodyLen = {2}
    MaxBody = 3
    AnswerLen = {3}
    SockBuf = 2
    UIntMod = 16
    MaxRequests = 1
SPECIFICATION DrainedSpec
CHECK_DEADLOCK FALSE
PROPERTY AnswersGoOut
