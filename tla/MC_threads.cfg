CONSTANTS
    Thread = {t1, t2}
    SessionId = {s1}
    Key = {k1}
    Data = {d1}
    Lifetime = {0, 1}
    RateLimit = {2}
    Limits = {2}
    UIntMod = 8
    StartTime = 1
    MaxTime = 2
    MaxCounter = 1
    Calls = {"add", "clearInactive", "remove", "prolong", "addKey", "removeKey", "getKey", "setKey", "setForceKey"}
    MaxCalls = 2
    NoItem = NoItem
    NoValue = NoValue
    Unset = Unset
    NoCall = NoCall
    Nothing = Nothing
SPECIFICATION ThreadedSpec
SYMMETRY Symmetry
VIEW ThreadedView
CHECK_DEADLOCK FALSE
INVARIANTS ThreadedTypeOK LocksMatchThreads InUseExists ReadIsConsistent CheckedWhenWritten RateBound
PROPERTY ImplementsSharedLifecycle
