SPECIFICATION RegistrySpec
CONSTANTS
    a1 = a1
    a2 = a2
    a3 = a3
    testing = testing
    greeter = greeter
    absent = absent
    Actor <- MCActor
    Service <- MCService
    N = 2
    Element <- MCElement
INVARIANTS
    RegistryTypeOK
    OneLoader
    RegistryIsPrefix
PROPERTIES
    MissOnlyUnloaded
    CallsReturn
CHECK_DEADLOCK FALSE
