SPECIFICATION Spec
CONSTANTS
    CustomerStream = {k1, k2}
    Starter = {k1}
    AgentStream = {a1, a2}
    MaxWork = 3
    MaxJoins <- MCMaxJoins
SYMMETRY MCSymmetry
INVARIANTS
    Attended
    NothingMissed
