SPECIFICATION Spec
CONSTANTS
    Users = {u1, u2, u3}
    Keys = {k1, k2}
    Conns = {c1, c2, c3}
    NoConn = NoConn
    NoKey = NoKey
    MaxTries = 2
    MaxCount = 7
    MaxOpen = 1
    CloseModes <- OnlyForced
SYMMETRY Symmetry
INVARIANTS TypeOK CountIsUsers CacheConsistent CredentialsMatch NoConnLeak ReplacedIsListed
PROPERTY NeverClosedUnderUser
