CONSTANTS
    HeaderSize = 2
    BodyLen = {0, 1, 3, 4}
    MaxBody = 3
    AnswerLen = {1, 2, 3}
    SockBuf = 2
    UIntMod = 16
    MaxRequests = 3
SPECIFICATION FairSpec
CHECK_DEADLOCK FALSE
INVARIANTS TypeOK OnlyHastySpoil PoliteStays TrafficIsCounted
PROPERTIES ImplementsStream SendingIsTimed RequestsAreRead
