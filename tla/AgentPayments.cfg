SPECIFICATION Spec
CONSTANTS
    Intents = {i1, i2}
    Quoters = {q1}
    Lockers = {l1, l2}
    Getters = {g1}
    Limit = 1
    LastDay = 1
    MaxCrashes = 1
    None = None
INVARIANTS TypeOK WithinLimits
CHECK_DEADLOCK FALSE
SYMMETRY Symmetry
