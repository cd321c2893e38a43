\* One provider, two keys over one cache slot, two requests whose loads settle in any
\* order; threshold and cooldown of two, quotes fresh, stale, expired or from the
\* future; fair time and fair adapters.
SPECIFICATION FairSpec
CONSTANTS
    p1 = p1
    p2 = p2
    r1 = r1
    r2 = r2
    r3 = r3
    Providers = {p1}
    Requests = {r1, r2}
    FailureThreshold = 2
    Cooldown = 2
    MaxEntries = 1
    MaxAge = 1
    SkewTolerance = 1
    MaxTtl = 3
INVARIANTS TypeOK SingleFlight BreakerConsistent CacheBounded ServedWithinWindow
PROPERTIES OneProbePerTrip BreakerRecovers ProbeResolves
