SPECIFICATION GatewaySpec
CONSTANTS
    r1 = r1
    r2 = r2
    testing = testing
    greeter = greeter
    absent = absent
    Request <- MCOneRequest
    Actor <- MCActor
    RegistryType <- MCHttp
    Headers <- MCHttpHeaders
    Service <- MCOneService
    N = 1
    Element <- MCOneElement
    UseReflection = TRUE
    FileSource = TRUE
    MaxMessages = 2
INVARIANTS
    CleanShutdown
CHECK_DEADLOCK FALSE
