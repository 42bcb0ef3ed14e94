SPECIFICATION Spec
CONSTANTS
    a = a
    b = b
    c = c
    m = m
    n = n
    o = o
    File <- MCFile
    Message <- MCMessage
    Arguments <- MCArguments
    Sets <- MCSets
    Worlds <- MCWorlds
    MessageGraphs <- MCMessageGraphs
SYMMETRY MCSymmetry
INVARIANTS
    NothingLeftOpen
    LoadDecides
    ProtosetReloads
    TemplateComplete
CHECK_DEADLOCK FALSE
