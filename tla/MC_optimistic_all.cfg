CONSTANTS
    SessionId = {s1}
    Key = {k1, k2}
    Data = {d1, d2}
    Lifetime = {0, 1}
    RateLimit = {0}
    Limits = {1}
    UIntMod = 8
    StartTime = 1
    MaxTime = 3
    MaxCounter = 2
    NoItem = NoItem
    NoValue = NoValue
    Unset = Unset
    NoToken = NoToken
SPECIFICATION ClientSpec
SYMMETRY Symmetry
VIEW ClientView
CHECK_DEADLOCK FALSE
INVARIANT ChangedRecordRefused
