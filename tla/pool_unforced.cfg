SPECIFICATION Spec
CONSTANTS
    Users = {u1, u2}
    Keys = {k1}
    Conns = {c1, c2, c3}
    NoConn = NoConn
    NoKey = NoKey
    MaxTries = 2
    MaxCount = 3
    MaxOpen = 1
    CloseModes <- NotForced
SYMMETRY Symmetry
INVARIANTS CacheConsistent ReplacedIsListed
\* Close(false) and Get take cacheMu and openMu in opposite orders.
CHECK_DEADLOCK FALSE
