SPECIFICATION FairSpec
CONSTANTS
    Request = {"r1"}
    Target <- Targets
    Typed <- Files
    Rewritten <- ToIndex
    Update <- ExampleUpdates
    Initial <- Example
    ErrorThrows = FALSE
INVARIANTS
    NotFoundAnswered
CHECK_DEADLOCK FALSE
