CONSTANTS
    a1 = a1
    a2 = a2
    Agents = {a1}
    Sims = {s1, s2, s3}
    s1 = s1
    s2 = s2
    s3 = s3
    GoodSims = {s1, s2}
    Order <- OneAgentOrder
    Ids <- AgentIds
    Shapes = {1, 2, 3}
    Expiry = 2
    MaxDelay = 1
    MaxLaunches = 2
    MaxRequests = 3
    MaxBreaks = 1
    MaxFlight = 1
    Wire = 1
    MaxReports = 2
SPECIFICATION FairSpec
INVARIANTS TypeOK NothingRunsUnasked
PROPERTIES NewsNeverGoBack Converges
