SPECIFICATION Spec
CONSTANTS
    Callers = {p1, p2}
    IDs = {i1}
    Configs = {x, y}
    Listeners = {l1, l2, l3, l4}
    NoListener = NoListener
    NoID = NoID
    NoConfig = NoConfig
    Overlap = TRUE
    MaxDrift = 1
SYMMETRY Symmetry
INVARIANT ConfigMapHasAllRunning
