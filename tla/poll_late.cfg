SPECIFICATION LiveSpec
CONSTANTS
    Servers = {s1, s2}
    NumServers <- Expectations
    NoReply = NoReply
    MaxPolls = 2
PROPERTY LateRepliesCounted
CHECK_DEADLOCK FALSE
