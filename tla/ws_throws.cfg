SPECIFICATION Spec
CONSTANTS
    App = {a1, a2}
    Worker = worker
    Payload = {m1, m2, m3}
    SendsIn <- Anywhere
    MayThrow = TRUE
    MaxCloses = 2
    MaxInbox = 3
SYMMETRY Symmetry
INVARIANTS
    FrontIsInFlight
    FinishedOnceAfterDisconnect
PROPERTIES
    NoWriteAfterFinish
    ImplementsOutbox
CHECK_DEADLOCK FALSE
