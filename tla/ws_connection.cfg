SPECIFICATION FairSpec
CONSTANTS
    App = {a1, a2}
    Worker = worker
    Payload = {m1, m2}
    SendsIn <- NotUnderLock
    MayThrow = FALSE
    MaxCloses = 2
    MaxInbox = 2
PROPERTIES
    NoMessageAfterDisconnect
    CloseDisconnects
    EveryMessageSettles
CHECK_DEADLOCK FALSE
