\* Two requests of any kind, two sessions: enough to enroll from one and sign in
\* again, and for one challenge, code or authorization to sign in twice.
SPECIFICATION Spec
CONSTANTS
    Requests = {r1, r2}
    Sessions = {s1, s2}
    Challenges = {c1, c2}
    States = {x1}
    MaxCodes = 2
    None = None
INVARIANTS TypeOK OneSignInEach SecondFactorHeld
SYMMETRY Symmetry
CHECK_DEADLOCK FALSE
