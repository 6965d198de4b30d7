CONSTANTS
    SessionId = {s1, s2, s3}
    Key = {}
    Data = {}
    Lifetime = {0, 1, 2}
    RateLimit = {0}
    Limits = {1, 2, 7}
    UIntMod = 8
    StartTime = 1
    MaxTime = 5
    MaxCounter = 0
    NoItem = NoItem
    NoValue = NoValue
    Unset = Unset
SPECIFICATION FairSpec
CHECK_DEADLOCK FALSE
INVARIANTS TypeOK CountSound LimitRespected FreeSessionsReported
PROPERTIES ImplementsLifecycle ExpiredGo
