SPECIFICATION GatewaySpec
CONSTANTS
    r1 = r1
    r2 = r2
    testing = testing
    greeter = greeter
    absent = absent
    Request <- MCTwoRequests
    Actor <- MCActor
    RegistryType <- MCLocal
    Headers <- MCLocalHeaders
    Service <- MCServices
    N = 2
    Element <- MCElement
    UseReflection = TRUE
    FileSource = FALSE
    MaxMessages = 1
SYMMETRY MCSymmetry
INVARIANTS
    LeakOnlyBeforeDefer
    MissedOnlyIfBlanked
    DialsOnlyConfigured
CHECK_DEADLOCK FALSE
