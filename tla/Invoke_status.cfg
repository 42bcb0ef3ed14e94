SPECIFICATION Spec
CONSTANTS
    Bodies <- MCBodies
    MaxResponses = 1
INVARIANT StatusWhenEnded
CHECK_DEADLOCK FALSE
