CONSTANTS
    SessionId = {s1}
    Key = {k1}
    Data = {d1}
    Lifetime = {0, 1}
    RateLimit = {0}
    Limits = {2}
    UIntMod = 8
    StartTime = 1
    MaxTime = 3
    MaxCounter = 1
    NoItem = NoItem
    NoValue = NoValue
    Unset = Unset
SPECIFICATION Spec
VIEW TableView
CHECK_DEADLOCK FALSE
PROPERTY RemoveAllKeyReachesAll
