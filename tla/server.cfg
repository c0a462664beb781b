SPECIFICATION FairSpec
CONSTANTS
    NumWorkers = 2
    WsCall = {s1}
    HttpCall = {h1}
    Closed = {s1}
    Apart = {h1}
    Caller = {app}
INVARIANTS
    ServiceOutlivesThreads
    MembersTold
    CleanWhenUncut
PROPERTIES
    ShutdownEnds
CHECK_DEADLOCK FALSE
