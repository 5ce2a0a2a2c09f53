SPECIFICATION SurveyorSpec
CONSTANTS
    a1 = a1
    a2 = a2
    g1 = g1
    g2 = g2
    Walkers = {a1, a2}
    Goroutines = {g1, g2}
    Callers <- CallersOf
    IDs = {f}
    Configs = {x, y}
    Listeners = {l1, l2, l3}
    NoListener = NoListener
    NoID = NoID
    NoConfig = NoConfig
    Overlap = TRUE
    MaxDrift = 5
    SubFiles = {f}
    Top = Top
    Sub = Sub
    Absent = Absent
    Bad = Bad
    NoGoroutine = NoGoroutine
    MaxChanges = 2
    Nobody = Nobody
    MaxCalls = 3
    MaxLosses = 1
SYMMETRY Symmetry
INVARIANTS SurveyorTypeOK  ServesWhenUp  NobodyStalls
CHECK_DEADLOCK FALSE
