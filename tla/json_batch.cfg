SPECIFICATION FairSpec
CONSTANTS
    Method = {sum, echo}
    NoMethod = NoMethod
    Value = {Result, Error}
    NotFound = NotFound
    Null = Null
    MaxBatch = 3
INVARIANTS
    TypeOK
    OneResponse
    NothingOpenAfterResponse
    ResponseMatches
PROPERTIES
    EveryMessageAnswered
CHECK_DEADLOCK FALSE
