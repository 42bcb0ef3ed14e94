SPECIFICATION Spec
CONSTANT MaxAttempts = 3
INVARIANTS
    OneHolder
    LostOnlyToRetryOrExpiry
PROPERTIES
    NoConnAfterReturn
    ConnectorEnds
CHECK_DEADLOCK FALSE
