CONSTANTS
    Agents = {a1, a2}
    a1 = a1
    a2 = a2
    Sims = {s1}
    s1 = s1
    s2 = s2
    s3 = s3
    GoodSims = {s1}
    Order <- AgentOrder
    Ids <- AgentIds
    Shapes = {1, 2, 3}
    Expiry = 2
    MaxDelay = 0
    MaxLaunches = 0
    MaxRequests = 1
    MaxBreaks = 1
    MaxFlight = 2
    Wire = 1
    MaxReports = 1
SPECIFICATION FairSpec
PROPERTIES CountConverges LoadIsShared
