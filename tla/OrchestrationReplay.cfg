SPECIFICATION Spec
CONSTANTS
    Creators = {c1, c2}
    Readers = {}
    Hooks = {}
    Keys = {k1}
    NoKey = NoKey
    Payloads = {p1}
    Outside = {}
    Leaking = {}
    Loads <- SharedLoads
    DailyLimit = 2
    MaxPolls = 2
    MaxFaults = 0
    MaxCrashes = 0
    None = None
    ExtraDelayPolls = 0
INVARIANT OneInstructionPerKey
