SPECIFICATION FairSpec
CONSTANTS
    Request = {"r1"}
    Target <- Targets
    Typed <- Files
    Rewritten <- ToIndex
    Update <- Setup
    Initial <- Ready
    ErrorThrows = TRUE
INVARIANTS
    UpdatesKept
    ServedBySnapshot
    EndedOnce
    OneContentType
PROPERTIES
    ImplementsTable
    EveryRequestAnswered
CHECK_DEADLOCK FALSE
