CONSTANTS
    N = 2
    Targets <- SomeTargets
    MaxLists = 2
    MaxBreaks = 1
    Expiry = 2
SPECIFICATION FairSpec
INVARIANTS TypeOK ConnectionsThatStandStay HandledOnce BroadcastsComeLast
PROPERTIES ListsArrive AgentsBecomeKnown
