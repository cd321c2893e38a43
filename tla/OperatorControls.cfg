SPECIFICATION Spec
CONSTANTS
    Targets = {t1}
    Shapes = {ad_valorem}
    Requests = {r1, r2, r3}
    MaxRows = 2
    MaxCrashes = 2
    None = None
INVARIANTS TypeOK EngagedHolds DisableHolds
SYMMETRY Symmetry
CHECK_DEADLOCK FALSE
