CONSTANTS
    Thread = {t1, t2}
    SessionId = {s1}
    Key = {k1}
    Data = {d1}
    Lifetime = {0}
    RateLimit = {0}
    Limits = {1}
    UIntMod = 8
    StartTime = 1
    MaxTime = 1
    MaxCounter = 0
    Calls = {"add", "generate", "exist", "existKey", "addAllKey", "removeAllKey", "clearInactive", "prolong", "addKey", "removeKey", "getKey", "setForceKey", "prolongKey"}
    MaxCalls = 2
    NoItem = NoItem
    NoValue = NoValue
    Unset = Unset
    NoCall = NoCall
    Nothing = Nothing
SPECIFICATION FairThreadedSpec
CHECK_DEADLOCK FALSE
PROPERTY CallsReturn
