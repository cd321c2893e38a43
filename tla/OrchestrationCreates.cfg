\* Two creates that never share a row, with a key each or one key over two payloads,
\* and a webhook; fair awaits.
SPECIFICATION CreatesSpec
CONSTANTS
    Creators = {c1, c2}
    Readers = {}
    Hooks = {h1}
    Keys = {k1, k2}
    NoKey = NoKey
    Payloads = {p1, p2}
    Outside = {p2}
    Leaking = {p1}
    Loads <- SeparateLoads
    DailyLimit = 1
    MaxPolls = 1
    MaxFaults = 0
    MaxCrashes = 0
    None = None
    ExtraDelayPolls = 0
INVARIANTS TypeOK ScreenedBeforeDispatch
PROPERTY FollowsLifecycle CreateAnswers
