SPECIFICATION Spec
CONSTANTS
    Client = {c1, c2}
    Customer = {u1, u2}
    Amount = {2}
    MaxInt32 = 3
    MaxAccounts = 3
    MaxWork = 4
    MaxRestarts = 1
SYMMETRY MCSymmetry
INVARIANTS
    Conserved
    OneOwner
    StopSaves
PROPERTIES
    ImplementsLedger
CHECK_DEADLOCK FALSE
