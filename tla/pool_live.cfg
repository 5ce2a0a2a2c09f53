SPECIFICATION LiveSpec
CONSTANTS
    Users = {u1, u2}
    Keys = {k1}
    Conns = {c1, c2, c3}
    NoConn = NoConn
    NoKey = NoKey
    MaxTries = 2
    MaxCount = 7
    MaxOpen = 1
    CloseModes <- OnlyForced
PROPERTIES GetReturns LastUserShuts ImplementsLease
