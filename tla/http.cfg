SPECIFICATION FairSpec
CONSTANTS
    a1 = a1
    a2 = a2
    App = {a1, a2}
    Worker = worker
    Programs <- AllPrograms
    MaxBody = 2
    MaxChunks = 3
INVARIANTS
    NoCallForgotten
    NoSelfDeadlock
    HeadFirstOrLast
    OneReadOneWrite
    CallbacksMatchCalls
PROPERTIES
    NothingAfterFinish
    CallsSettle
CHECK_DEADLOCK FALSE
