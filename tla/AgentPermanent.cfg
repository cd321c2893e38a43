SPECIFICATION Spec
CONSTANTS
    Intents = {i1, i2}
    Quoters = {q1}
    Lockers = {l1}
    Getters = {g1}
    Limit = 1
    LastDay = 0
    MaxCrashes = 0
    None = None
INVARIANTS PermanentSpendWithinLimit
CHECK_DEADLOCK FALSE
