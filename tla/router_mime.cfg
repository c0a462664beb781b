SPECIFICATION FairSpec
CONSTANTS
    Request = {"r1"}
    Target <- Targets
    Typed <- Files
    Rewritten <- ToIndex
    Update <- ExampleUpdates
    Initial <- Example
    ErrorThrows = FALSE
INVARIANTS
    DetectedTypeSent
CHECK_DEADLOCK FALSE
