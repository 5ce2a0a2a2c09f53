SPECIFICATION LiveSpec
CONSTANTS
    Callers = {p1, p2}
    IDs = {i1, i2}
    Configs = {x, y}
    Listeners = {l1, l2, l3}
    NoListener = NoListener
    NoID = NoID
    NoConfig = NoConfig
    Overlap = FALSE
    MaxDrift = 1
INVARIANTS TypeOK RegisteredRuns NoOrphan GaugeCounts
PROPERTY RetiredStops
