CONSTANTS
    Thread = {t1, t2}
    SessionId = {s1}
    Key = {k1}
    Data = {d1}
    Lifetime = {0, 1}
    RateLimit = {1}
    Limits = {1}
    UIntMod = 8
    StartTime = 1
    MaxTime = 2
    MaxCounter = 1
    MaxRequests = 2
    MaxStatistics = 1
    NoItem = NoItem
    NoValue = NoValue
    Unset = Unset
    NoRequest = NoRequest
    TextOf <- MCTextOf
    NameOf <- MCNameOf
    ContentOf <- MCContentOf
SPECIFICATION SystemSpec
SYMMETRY Symmetry
VIEW ControllerView
CHECK_DEADLOCK FALSE
INVARIANTS SystemTypeOK RequestsAreCounted ErrorsAreCounted StatisticsAgree StatisticsAreCurrent
PROPERTIES FramesSurvive MangledRefused AnswersTellOutcome
