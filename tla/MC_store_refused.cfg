CONSTANTS
    SessionId = {s1, s2}
    Key = {}
    Data = {}
    Lifetime = {0, 1}
    RateLimit = {0}
    Limits = {2}
    UIntMod = 8
    StartTime = 1
    MaxTime = 4
    MaxCounter = 0
    NoItem = NoItem
    NoValue = NoValue
    Unset = Unset
SPECIFICATION Spec
VIEW TableView
CHECK_DEADLOCK FALSE
PROPERTY RefusedOnlyWhenFull
