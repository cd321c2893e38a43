SPECIFICATION Spec
CONSTANTS
    Creators = {c1, c2}
    Readers = {}
    Hooks = {}
    Keys = {k1, k2}
    NoKey = NoKey
    Payloads = {p1, p2}
    Outside = {}
    Leaking = {}
    Loads <- ApartLoads
    DailyLimit = 1
    MaxPolls = 2
    MaxFaults = 0
    MaxCrashes = 0
    None = None
    ExtraDelayPolls = 0
INVARIANT DailyLimitRespected
