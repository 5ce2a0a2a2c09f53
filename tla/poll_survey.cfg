SPECIFICATION LiveSpec
CONSTANTS
    Servers = {s1, s2}
    NumServers <- Expectations
    NoReply = NoReply
    MaxPolls = 3
INVARIANTS TypeOK FreshStats StatsHaveRtt SurveyedAsExpected
PROPERTIES MissingCounted PollEnds ImplementsSurvey
CHECK_DEADLOCK FALSE
