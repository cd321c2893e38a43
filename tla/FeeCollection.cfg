\* Two billing runs over one group of two decisions, two collection requests, two
\* payment references, one restart that may change the mode.
SPECIFICATION Spec
CONSTANTS
    d1 = d1
    d2 = d2
    d3 = d3
    g1 = g1
    g2 = g2
    Decisions = {d1, d2}
    Groups = {g1}
    GroupOf <- MCGroupOf
    Settled = {d1}
    Runs = {b1, b2}
    References = {w1, w2}
    Collectors = {c1, c2}
    MaxRestarts = 1
    None = None
INVARIANTS TypeOK BilledOnce PaidTogether RealizedIsBacked
PROPERTY RecognizesInOrder
SYMMETRY Symmetry
CHECK_DEADLOCK FALSE
