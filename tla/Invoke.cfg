SPECIFICATION Spec
CONSTANTS
    Bodies <- MCBodies
    MaxResponses = 2
INVARIANTS
    TypeOK
    AllDelivered
    WholeUpload
    CancelledForAReason
    NothingLeftBehind
PROPERTIES
    ImplementsContract
    StopsWhenOver
CHECK_DEADLOCK FALSE
