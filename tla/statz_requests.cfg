SPECIFICATION Spec
CONSTANTS
    s1 = s1
    s2 = s2
    Servers = {s1, s2, s3}
    Accounts = {acc}
    StreamNames = {"x", "y"}
    ConsumerNames = {"c", "d"}
    Details <- SomeDetails
    NumServers <- Expectations
    ChanSize = 1
    ZeroConnSkip = 2
    NoServer = NoServer
INVARIANTS
    TypeOK AsExpected BlockedByExcess LeftOutWhenSilent
    MergedIsUnion SeriesAreDistinct OwnValuesExported LeadersExported
