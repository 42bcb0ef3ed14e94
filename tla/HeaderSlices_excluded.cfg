SPECIFICATION Spec
CONSTANTS
    r1 = r1
    r2 = r2
    refl1 = refl1
    refl2 = refl2
    refl3 = refl3
    refl4 = refl4
    rpc1 = rpc1
    rpc2 = rpc2
    own1 = own1
    own2 = own2
    Request <- MCRequest
    Word <- MCWord
    Spares <- MCSpares
    Refl <- MCRefl
    Rpc <- MCRpc
    Own <- MCOwn
INVARIANTS
    ReflExcluded
CHECK_DEADLOCK FALSE
