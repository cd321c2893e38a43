\* Two creates that share one key and payload, a GET, one failing write and one crash;
\* polls enough for a row to go through SETTLING to SETTLED.
SPECIFICATION Spec
CONSTANTS
    Creators = {c1, c2}
    Readers = {g1}
    Hooks = {}
    Keys = {k1}
    NoKey = NoKey
    Payloads = {p1}
    Outside = {}
    Leaking = {}
    Loads <- SharedLoads
    DailyLimit = 1
    MaxPolls = 2
    MaxFaults = 1
    MaxCrashes = 1
    None = None
    ExtraDelayPolls = 0
SYMMETRY Symmetry
INVARIANTS KeyNamesOneRow SentIsBacked SettledIsConfirmed SettledHasReceipt
PROPERTIES FollowsSharedLifecycle
