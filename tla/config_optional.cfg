SPECIFICATION ConfigsSpec
CONSTANTS
    a = a
    b = b
    Names = {a, b}
    Wildcard = Wildcard
    FullWildcard = FullWildcard
    NoLabels = NoLabels
    Topics <- TopicsUpTo3
    Positions <- PositionsInt
    Subjects <- SubjectsUpTo3
    Prefixes <- PrefixesOf
    OwnAccount = OwnAccount
    NoListener = NoListener
INVARIANT ServicePositionIsOptional
CHECK_DEADLOCK FALSE
